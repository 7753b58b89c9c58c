----------------------------- MODULE CodecProofs ----------------------------
(***************************************************************************)
(* Theorems about messages as octets: what a data unit carries, for every  *)
(* message a struct can hold and every transaction id, is read out of a    *)
(* buffer of at least its length as that message and no other.             *)
(***************************************************************************)
EXTENDS Codec, SequenceTheorems, TLAPS

-----------------------------------------------------------------------------
(* Octets and words *)

LEMMA Halves ==
  \A w \in Words : Hi(w) \in Octets /\ Lo(w) \in Octets /\ Word(Hi(w), Lo(w)) = w
  BY DEF Words, Octets, Hi, Lo, Word

LEMMA SmallNumbers ==
  /\ \A n \in 0 .. 255 : n % 256 = n /\ n \in Octets /\ n \in Nat /\ 1 + n \in Nat
  /\ \A n \in Nat : n <= 255 => n \in 0 .. 255
  /\ \A k \in 0 .. 4 : 2 * k \in Nat /\ 2 + 2 * k \in Nat
  BY DEF Octets

LEMMA TypedFunction ==
  ASSUME NEW S, NEW n \in Nat, NEW f \in [1 .. n -> S]
  PROVE  f \in Seq(S) /\ Len(f) = n /\ DOMAIN f = 1 .. n
  OBVIOUS

LEMMA OneOrTwo ==
  ASSUME NEW S, NEW x \in S, NEW y \in S
  PROVE  /\ <<x>> \in Seq(S) /\ Len(<<x>>) = 1 /\ <<x>>[1] = x
         /\ <<x, y>> \in Seq(S) /\ Len(<<x, y>>) = 2 /\ <<x, y>>[1] = x /\ <<x, y>>[2] = y
  OBVIOUS

(* Where the elements of s and of t are in s \o t. *)
LEMMA Joined ==
  ASSUME NEW S, NEW s \in Seq(S), NEW t \in Seq(S)
  PROVE  /\ s \o t \in Seq(S) /\ Len(s \o t) = Len(s) + Len(t)
         /\ \A i \in 1 .. Len(s) : (s \o t)[i] = s[i]
         /\ \A i \in 1 .. Len(t) : (s \o t)[Len(s) + i] = t[i]
  <1>0. PICK a \in Nat, b \in Nat : a = Len(s) /\ b = Len(t)
    OBVIOUS
  <1>1. /\ s \o t \in Seq(S) /\ Len(s \o t) = a + b
        /\ \A i \in 1 .. a + b : (s \o t)[i] = IF i <= a THEN s[i] ELSE t[i - a]
    BY <1>0, ConcatProperties
  <1>2. \A i \in 1 .. a : (s \o t)[i] = s[i]
    BY <1>1
  <1>3. ASSUME NEW i \in 1 .. b PROVE (s \o t)[a + i] = t[i]
    <2>1. a + i \in 1 .. a + b /\ ~(a + i <= a) /\ (a + i) - a = i
      OBVIOUS
    <2> QED
      BY <1>1, <2>1
  <1> QED
    BY <1>0, <1>1, <1>2, <1>3

LEMMA ThreeParts ==
  ASSUME NEW x \in Octets, NEW y \in Octets, NEW f \in Seq(Octets), NEW c \in Seq(Octets)
  PROVE  /\ <<x, y>> \o f \o c \in Seq(Octets)
         /\ Len(<<x, y>> \o f \o c) = 2 + Len(f) + Len(c)
         /\ (<<x, y>> \o f \o c)[1] = x /\ (<<x, y>> \o f \o c)[2] = y
         /\ \A i \in 1 .. Len(f) : (<<x, y>> \o f \o c)[2 + i] = f[i]
         /\ \A i \in 1 .. Len(c) : (<<x, y>> \o f \o c)[2 + Len(f) + i] = c[i]
  <1>0. PICK a \in Nat, b \in Nat : a = Len(f) /\ b = Len(c)
    OBVIOUS
  <1>1. PICK h \in Seq(Octets) : h = <<x, y>> /\ Len(h) = 2 /\ h[1] = x /\ h[2] = y
    <2>1. <<x, y>> \in Seq(Octets) /\ Len(<<x, y>>) = 2 /\ <<x, y>>[1] = x /\ <<x, y>>[2] = y
      BY OneOrTwo
    <2> QED
      BY <2>1
  <1>2. PICK g \in Seq(Octets) : g = h \o f
    BY <1>1, Joined
  <1>3. /\ Len(g) = 2 + a /\ \A i \in 1 .. 2 : g[i] = h[i]
        /\ \A i \in 1 .. a : g[2 + i] = f[i]
    BY <1>0, <1>1, <1>2, Joined
  <1>4. PICK d \in Nat : d = 2 + a /\ d = Len(g)
    <2>1. 2 + a \in Nat
      OBVIOUS
    <2> QED
      BY <1>3, <2>1
  <1>5. /\ g \o c \in Seq(Octets) /\ Len(g \o c) = d + b
        /\ \A i \in 1 .. d : (g \o c)[i] = g[i]
        /\ \A i \in 1 .. b : (g \o c)[d + i] = c[i]
    <2>1. /\ g \o c \in Seq(Octets) /\ Len(g \o c) = Len(g) + Len(c)
          /\ \A i \in 1 .. Len(g) : (g \o c)[i] = g[i]
          /\ \A i \in 1 .. Len(c) : (g \o c)[Len(g) + i] = c[i]
      BY Joined
    <2> QED
      BY <1>0, <1>4, <2>1, Zenon
  <1>6. (g \o c)[1] = x /\ (g \o c)[2] = y
    BY <1>1, <1>3, <1>4, <1>5
  <1>7. \A i \in 1 .. a : (g \o c)[2 + i] = f[i]
    BY <1>3, <1>4, <1>5
  <1> QED
    BY <1>0, <1>1, <1>2, <1>4, <1>5, <1>6, <1>7

(* A count and what it counts. *)
LEMMA CountFirst ==
  ASSUME NEW v \in Seq(Octets), Len(v) \in 0 .. 255
  PROVE  /\ <<Len(v) % 256>> \o v \in Seq(Octets)
         /\ Len(<<Len(v) % 256>> \o v) = 1 + Len(v)
         /\ (<<Len(v) % 256>> \o v)[1] = Len(v)
         /\ \A i \in 1 .. Len(v) : (<<Len(v) % 256>> \o v)[1 + i] = v[i]
  <1>0. PICK n \in 0 .. 255 : n = Len(v)
    OBVIOUS
  <1>1. n % 256 = n /\ n \in Octets /\ n \in Nat
    BY SmallNumbers
  <1>2. PICK h \in Seq(Octets) : h = <<n>> /\ 1 = Len(h) /\ h[1] = n
    <2>1. <<n>> \in Seq(Octets) /\ Len(<<n>>) = 1 /\ <<n>>[1] = n
      BY <1>1, OneOrTwo
    <2> QED
      BY <2>1
  <1>3. /\ h \o v \in Seq(Octets) /\ Len(h \o v) = 1 + n
        /\ \A i \in 1 .. 1 : (h \o v)[i] = h[i]
        /\ \A i \in 1 .. n : (h \o v)[1 + i] = v[i]
    <2>1. /\ h \o v \in Seq(Octets) /\ Len(h \o v) = Len(h) + Len(v)
          /\ \A i \in 1 .. Len(h) : (h \o v)[i] = h[i]
          /\ \A i \in 1 .. Len(v) : (h \o v)[Len(h) + i] = v[i]
      BY Joined
    <2> QED
      BY <1>0, <1>2, <2>1, Zenon
  <1>4. (h \o v)[1] = n
    BY <1>2, <1>3
  <1> DEFINE w == <<Len(v) % 256>>
  <1>5. w = h
    <2>1. Len(v) % 256 = n
      BY <1>0, <1>1
    <2> QED
      BY <1>2, <2>1, Zenon
  <1> HIDE DEF w
  <1>6. /\ w \o v \in Seq(Octets) /\ Len(w \o v) = 1 + Len(v) /\ (w \o v)[1] = Len(v)
        /\ \A i \in 1 .. Len(v) : (w \o v)[1 + i] = v[i]
    BY <1>0, <1>3, <1>4, <1>5, Zenon
  <1> QED
    BY <1>6, Zenon DEF w

(* The high octet of word i is octet 2i - 1, the low one octet 2i. *)
LEMMA WordsOut ==
  ASSUME NEW v \in Seq(Words)
  PROVE  /\ WordsToOctets(v) \in Seq(Octets)
         /\ Len(WordsToOctets(v)) = 2 * Len(v)
         /\ \A i \in 1 .. Len(v) : /\ WordsToOctets(v)[2 * i - 1] = Hi(v[i])
                                   /\ WordsToOctets(v)[2 * i] = Lo(v[i])
  <1>1. PICK n \in Nat : n = Len(v) /\ \A i \in 1 .. n : v[i] \in Words
    OBVIOUS
  <1>2. ASSUME NEW i \in 1 .. 2 * n
        PROVE  (IF i % 2 = 1 THEN Hi(v[(i + 1) \div 2]) ELSE Lo(v[i \div 2])) \in Octets
    <2>1. CASE i % 2 = 1
      <3>1. (i + 1) \div 2 \in 1 .. n
        BY <2>1
      <3> QED
        BY <1>1, <2>1, <3>1, Halves
    <2>2. CASE i % 2 # 1
      <3>1. i \div 2 \in 1 .. n
        BY <2>2
      <3> QED
        BY <1>1, <2>2, <3>1, Halves
    <2> QED
      BY <2>1, <2>2
  <1>3. WordsToOctets(v) \in [1 .. 2 * n -> Octets]
    BY <1>1, <1>2 DEF WordsToOctets
  <1>4. ASSUME NEW i \in 1 .. n
        PROVE  WordsToOctets(v)[2 * i - 1] = Hi(v[i]) /\ WordsToOctets(v)[2 * i] = Lo(v[i])
    <2>1. /\ 2 * i - 1 \in 1 .. 2 * n /\ 2 * i \in 1 .. 2 * n
          /\ (2 * i - 1) % 2 = 1 /\ (2 * i) % 2 = 0
          /\ ((2 * i - 1) + 1) \div 2 = i /\ (2 * i) \div 2 = i
      OBVIOUS
    <2> QED
      BY <1>1, <2>1 DEF WordsToOctets
  <1>5. WordsToOctets(v) \in Seq(Octets) /\ Len(WordsToOctets(v)) = 2 * n
    <2>1. 2 * n \in Nat
      OBVIOUS
    <2> QED
      BY <1>3, <2>1, TypedFunction
  <1> QED
    BY <1>1, <1>4, <1>5, Zenon

(* Octets in that order are read as the words they were. *)
LEMMA WordsIn ==
  ASSUME NEW v \in Seq(Words), NEW o \in Seq(Octets), Len(o) = 2 * Len(v),
         \A i \in 1 .. Len(v) : o[2 * i - 1] = Hi(v[i]) /\ o[2 * i] = Lo(v[i])
  PROVE  OctetsToWords(o) = v
  <1>1. PICK n \in Nat : n = Len(v) /\ \A i \in 1 .. n : v[i] \in Words
    OBVIOUS
  <1>2. Len(o) \div 2 = n
    BY <1>1
  <1>3. \A i \in 1 .. n : Word(o[2 * i - 1], o[2 * i]) = v[i]
    BY <1>1, Halves
  <1>4. OctetsToWords(o) = [i \in 1 .. n |-> v[i]]
    BY <1>2, <1>3 DEF OctetsToWords
  <1>5. v = [i \in 1 .. n |-> v[i]]
    BY <1>1
  <1> QED
    BY <1>4, <1>5

-----------------------------------------------------------------------------
(* The structs *)

LEMMA LayoutValues ==
  /\ \A l \in PlainLayouts :
        /\ l \in [code : 1 .. 127, type : {"request", "response"}, words : 0 .. 4, width : 0 .. 2]
        /\ l # exception_response
        /\ l.type = "request" \/ l.width = 0 => l.words >= 2
  /\ \A l, k \in PlainLayouts : l.code = k.code /\ l.type = k.type => l = k
  /\ exception_response \notin PlainLayouts /\ exception_response.type = "response"
  /\ write_single_coil_request.words = 2 /\ write_single_coil_response.words = 2
  /\ read_write_registers_request.words = 4
  <1> USE DEF
    PlainLayouts, Layout, exception_response,
    read_coils_request, read_discrete_inputs_request, read_holding_registers_request,
    read_input_registers_request, write_single_coil_request, write_single_register_request,
    write_multiple_coils_request, write_multiple_registers_request, mask_write_register_request,
    read_write_registers_request, read_coils_response, read_discrete_inputs_response,
    read_holding_registers_response, read_input_registers_response, write_single_coil_response,
    write_single_register_response, write_multiple_coils_response,
    write_multiple_registers_response, mask_write_register_response,
    read_write_registers_response
  <1>1. \A l \in PlainLayouts :
        /\ l \in [code : 1 .. 127, type : {"request", "response"}, words : 0 .. 4, width : 0 .. 2]
        /\ l # exception_response
        /\ l.type = "request" \/ l.width = 0 => l.words >= 2
    OBVIOUS
  <1>2. \A l, k \in PlainLayouts : l.code = k.code /\ l.type = k.type => l = k
    OBVIOUS
  <1>3. /\ exception_response \notin PlainLayouts /\ exception_response.type = "response"
        /\ write_single_coil_request.words = 2 /\ write_single_coil_response.words = 2
        /\ read_write_registers_request.words = 4
    OBVIOUS
  <1> QED
    BY <1>1, <1>2, <1>3

(* The values of a message, as octets. *)
LEMMA BodyOut ==
  ASSUME NEW m, WellFormed(m), m.layout # exception_response
  PROVE  \E b \in Seq(Octets), n \in 0 .. 255 :
            /\ b = Body(m) /\ n = Len(b)
            /\ m.layout.width = 0 => n = 0
            /\ m.layout.width # 0 => n = m.layout.width * Len(m.values)
  <1>1. /\ m.values \in Seq(Words) /\ m.layout.width \in {0, 1, 2}
        /\ m.layout.width = 0 => m.values = <<>>
        /\ m.layout.width = 1 => m.values \in Seq(Octets)
        /\ m.layout.width * Len(m.values) <= 255
    BY LayoutValues DEF WellFormed, Layouts
  <1>2. PICK n \in Nat : n = Len(m.values)
    BY <1>1
  <1>3. \A k \in Nat : k <= 255 => k \in 0 .. 255
    BY SmallNumbers
  <1>4. CASE m.layout.width = 0
    <2>1. Body(m) = <<>> /\ <<>> \in Seq(Octets) /\ Len(<<>>) = 0 /\ 0 \in 0 .. 255
      BY <1>1, <1>4 DEF Body
    <2> QED
      BY <1>4, <2>1
  <1>5. CASE m.layout.width = 1
    <2>1. PICK b \in Seq(Octets) : b = Body(m) /\ Len(b) = n
      BY <1>1, <1>2, <1>5 DEF Body
    <2>2. n <= 255 /\ n = m.layout.width * Len(m.values)
      BY <1>1, <1>2, <1>5
    <2>3. n \in 0 .. 255
      BY <1>3, <2>2
    <2>4. n = Len(b) /\ m.layout.width # 0
      BY <1>5, <2>1
    <2> QED
      BY <2>1, <2>2, <2>3, <2>4
  <1>6. CASE m.layout.width = 2
    <2>1. PICK b \in Seq(Octets) : b = Body(m) /\ Len(b) = 2 * n
      BY <1>1, <1>2, <1>6, WordsOut DEF Body
    <2>2. PICK k \in Nat : k = 2 * n
      OBVIOUS
    <2>3. k <= 255 /\ k = m.layout.width * Len(m.values)
      BY <1>1, <1>2, <1>6, <2>2
    <2>4. k \in 0 .. 255
      BY <1>3, <2>3
    <2>5. k = Len(b) /\ m.layout.width # 0
      BY <1>6, <2>1, <2>2
    <2> QED
      BY <2>1, <2>3, <2>4, <2>5
  <1> QED
    BY <1>1, <1>4, <1>5, <1>6


(* The octets of a message by position: s the message, v its values, k     *)
(* 16-bit members, n octets of values.                                     *)
Shape(m, s, v, k, n) ==
  /\ s = serialize(m) /\ v = Body(m) /\ k = Len(m.fields) /\ n = Len(v)
  /\ Len(s) = size(m)
  /\ size(m) = 2 + 2 * k + (IF m.layout.width = 0 THEN 0 ELSE 1 + n)
  /\ s[1] = m.unit_id /\ s[2] = m.layout.code
  /\ \A i \in 1 .. k : /\ s[2 + (2 * i - 1)] = Hi(m.fields[i])
                       /\ s[2 + 2 * i] = Lo(m.fields[i])
  /\ m.layout.width # 0 => /\ n = m.layout.width * Len(m.values)
                           /\ s[3 + 2 * k] = n
                           /\ \A i \in 1 .. n : s[3 + 2 * k + i] = v[i]

(* The arithmetic of the positions. *)
LEMMA Positions ==
  /\ \A a, d \in Nat : 2 + a + d \in Nat
  /\ \A k \in 0 .. 4 : \A i \in 1 .. k : 2 * i - 1 \in 1 .. 2 * k /\ 2 * i \in 1 .. 2 * k
  /\ \A k \in 0 .. 4 : 2 + 2 * k + 1 = 3 + 2 * k
  /\ \A n \in 0 .. 255 : 1 \in 1 .. 1 + n /\ \A i \in 1 .. n : 1 + i \in 1 .. 1 + n
  /\ \A k \in 0 .. 4, n \in 0 .. 255 : \A i \in 1 .. n : 2 + 2 * k + (1 + i) = 3 + 2 * k + i
  /\ \A k \in 0 .. 4 : 2 + 2 * k + 0 = 2 + 2 * k
  OBVIOUS

(* Counted(m) when there are values. *)
LEMMA CountedOut ==
  ASSUME NEW m, WellFormed(m), m.layout # exception_response, m.layout.width # 0,
         NEW v \in Seq(Octets), v = Body(m), Len(v) \in 0 .. 255
  PROVE  /\ Counted(m) \in Seq(Octets) /\ Len(Counted(m)) = 1 + Len(v)
         /\ Counted(m)[1] = Len(v)
         /\ \A i \in 1 .. Len(v) : Counted(m)[1 + i] = v[i]
  <1>1. Counted(m) = <<Len(v) % 256>> \o v
    BY DEF Counted
  <1> QED
    BY <1>1, CountFirst

LEMMA PlainShape ==
  ASSUME NEW m, WellFormed(m), m.layout # exception_response
  PROVE  \E s \in Seq(Octets), v \in Seq(Octets), k \in 0 .. 4, n \in 0 .. 255 :
            Shape(m, s, v, k, n)
  <1>1. /\ m.layout \in PlainLayouts /\ m.fields \in Seq(Words)
        /\ Len(m.fields) = m.layout.words
    BY DEF WellFormed, Layouts
  <1>2. PICK x \in Octets, y \in Octets : x = m.unit_id /\ y = m.layout.code
    <2>1. m.unit_id \in Octets
      BY DEF WellFormed
    <2>2. m.layout.code \in Octets
      BY <1>1, LayoutValues DEF Octets
    <2> QED
      BY <2>1, <2>2
  <1>3. PICK k \in 0 .. 4 : k = Len(m.fields)
    BY <1>1, LayoutValues
  <1>4. PICK v \in Seq(Octets), n \in 0 .. 255 :
           /\ v = Body(m) /\ n = Len(v)
           /\ m.layout.width = 0 => n = 0
           /\ m.layout.width # 0 => n = m.layout.width * Len(m.values)
    BY BodyOut
  <1>5. PICK f \in Seq(Octets) :
           /\ f = WordsToOctets(m.fields) /\ Len(f) = 2 * k
           /\ \A i \in 1 .. k : f[2 * i - 1] = Hi(m.fields[i]) /\ f[2 * i] = Lo(m.fields[i])
    BY <1>1, <1>3, WordsOut
  <1>6. PICK c \in Seq(Octets) :
           /\ c = Counted(m)
           /\ m.layout.width = 0 => Len(c) = 0
           /\ m.layout.width # 0 => /\ Len(c) = 1 + n /\ c[1] = n
                                    /\ \A i \in 1 .. n : c[1 + i] = v[i]
    <2>1. CASE m.layout.width = 0
      <3>1. Counted(m) = <<>> /\ <<>> \in Seq(Octets) /\ Len(<<>>) = 0
        BY <2>1 DEF Counted
      <3> QED
        BY <2>1, <3>1
    <2>2. CASE m.layout.width # 0
      <3>1. Len(v) \in 0 .. 255
        BY <1>4
      <3>2. /\ Counted(m) \in Seq(Octets) /\ Len(Counted(m)) = 1 + Len(v)
            /\ Counted(m)[1] = Len(v)
            /\ \A i \in 1 .. Len(v) : Counted(m)[1 + i] = v[i]
        BY <1>4, <2>2, <3>1, CountedOut
      <3> QED
        BY <1>4, <2>2, <3>2
    <2> QED
      BY <2>1, <2>2
  <1>8. PICK s \in Seq(Octets) :
           /\ s = <<x, y>> \o f \o c /\ Len(s) = 2 + Len(f) + Len(c) /\ s[1] = x /\ s[2] = y
           /\ \A i \in 1 .. Len(f) : s[2 + i] = f[i]
           /\ \A i \in 1 .. Len(c) : s[2 + Len(f) + i] = c[i]
    <2>1. /\ <<x, y>> \o f \o c \in Seq(Octets)
          /\ Len(<<x, y>> \o f \o c) = 2 + Len(f) + Len(c)
          /\ (<<x, y>> \o f \o c)[1] = x /\ (<<x, y>> \o f \o c)[2] = y
          /\ \A i \in 1 .. Len(f) : (<<x, y>> \o f \o c)[2 + i] = f[i]
          /\ \A i \in 1 .. Len(c) : (<<x, y>> \o f \o c)[2 + Len(f) + i] = c[i]
      BY ThreeParts
    <2> QED
      BY <2>1, Zenon
  <1>9. s = serialize(m)
    BY <1>2, <1>5, <1>6, <1>8 DEF serialize
  <1>10. size(m) = 2 + 2 * k + (IF m.layout.width = 0 THEN 0 ELSE 1 + n)
    BY <1>3, <1>4 DEF size
  <1>11. Len(s) = size(m)
    <2>1. Len(s) = 2 + 2 * k + Len(c)
      BY <1>5, <1>8
    <2>2. CASE m.layout.width = 0
      <3>1. Len(s) = 2 + 2 * k + 0
        BY <1>6, <2>1, <2>2
      <3> QED
        BY <1>10, <2>2, <3>1, Zenon
    <2>3. CASE m.layout.width # 0
      <3>1. Len(c) = 1 + n
        BY <1>6, <2>3
      <3> QED
        BY <1>10, <2>1, <2>3, <3>1, Zenon
    <2> QED
      BY <2>2, <2>3
  <1>12. ASSUME NEW i \in 1 .. k
         PROVE  s[2 + (2 * i - 1)] = Hi(m.fields[i]) /\ s[2 + 2 * i] = Lo(m.fields[i])
    <2>1. 2 * i - 1 \in 1 .. Len(f) /\ 2 * i \in 1 .. Len(f)
      BY <1>5, Positions
    <2> QED
      BY <1>5, <1>8, <2>1, Zenon
  <1>13. ASSUME m.layout.width # 0
         PROVE  /\ n = m.layout.width * Len(m.values)
                /\ s[3 + 2 * k] = n
                /\ \A i \in 1 .. n : s[3 + 2 * k + i] = v[i]
    <2>1. n = m.layout.width * Len(m.values)
      BY <1>4, <1>13
    <2>2. Len(c) = 1 + n /\ c[1] = n /\ \A i \in 1 .. n : c[1 + i] = v[i]
      BY <1>6, <1>13
    <2>3. 1 \in 1 .. Len(c) /\ 2 + Len(f) + 1 = 3 + 2 * k
      BY <1>5, <2>2, Positions
    <2>4. s[3 + 2 * k] = n
      BY <1>8, <2>2, <2>3, Zenon
    <2>5. ASSUME NEW i \in 1 .. n PROVE s[3 + 2 * k + i] = v[i]
      <3>1. 1 + i \in 1 .. Len(c) /\ 2 + Len(f) + (1 + i) = 3 + 2 * k + i
        BY <1>5, <2>2, Positions
      <3>2. s[2 + Len(f) + (1 + i)] = c[1 + i]
        BY <1>8, <3>1, Zenon
      <3> QED
        BY <2>2, <3>1, <3>2, Zenon
    <2> QED
      BY <2>1, <2>4, <2>5
  <1>14. Shape(m, s, v, k, n)
    BY <1>2, <1>3, <1>4, <1>8, <1>9, <1>10, <1>11, <1>12, <1>13, Zenon DEF Shape
  <1> QED
    BY <1>14

(* An exception response: unit id, code with the high bit set, reason. *)
LEMMA ExceptionShape ==
  ASSUME NEW m, WellFormed(m), m.layout = exception_response
  PROVE  /\ serialize(m) \in Seq(Octets) /\ Len(serialize(m)) = 3 /\ size(m) = 3
         /\ serialize(m)[1] = m.unit_id
         /\ serialize(m)[2] = 128 + m.fields[1]
         /\ serialize(m)[3] = m.fields[2]
  <1>1. PICK x \in Octets, y \in 0 .. 127, z \in Octets :
           x = m.unit_id /\ y = m.fields[1] /\ z = m.fields[2]
    BY DEF WellFormed
  <1>2. y % 128 = y /\ 128 + y \in Octets
    BY DEF Octets
  <1>3. PICK w \in Octets : w = 128 + y
    BY <1>2
  <1>4. /\ <<x, w, z>> \in Seq(Octets) /\ Len(<<x, w, z>>) = 3
        /\ <<x, w, z>>[1] = x /\ <<x, w, z>>[2] = w /\ <<x, w, z>>[3] = z
    OBVIOUS
  <1>5. serialize(m) = <<x, w, z>>
    <2>1. serialize(m) = <<m.unit_id, 128 + (m.fields[1] % 128), m.fields[2]>>
      BY DEF serialize
    <2> QED
      BY <1>1, <1>2, <1>3, <2>1, Zenon
  <1>6. size(m) = 3
    BY DEF size
  <1> QED
    BY <1>1, <1>3, <1>4, <1>5, <1>6, Zenon

LEMMA SizeArithmetic ==
  /\ \A k \in 0 .. 4, n \in 0 .. 255 :
        /\ 2 + 2 * k + (1 + n) \in 3 .. 266
        /\ k >= 2 => 2 + 2 * k + 0 \in 6 .. 266 /\ 2 + 2 * k + (1 + n) \in 6 .. 266
  /\ \A n \in 6 .. 266 : n \in 3 .. 266 /\ n >= 6
  /\ 3 \in 3 .. 266
  OBVIOUS

(* size() is the number of octets serialize makes, and fits the header's   *)
(* length field.                                                           *)
LEMMA Sizes ==
  ASSUME NEW m, WellFormed(m)
  PROVE  /\ serialize(m) \in Seq(Octets) /\ Len(serialize(m)) = size(m)
         /\ size(m) \in 3 .. 266
         /\ m.layout.type = "request" => size(m) >= 6
  <1>1. CASE m.layout = exception_response
    <2>1. m.layout.type # "request"
      BY <1>1, LayoutValues
    <2> QED
      BY <1>1, <2>1, ExceptionShape, SizeArithmetic
  <1>2. CASE m.layout # exception_response
    <2>1. PICK s \in Seq(Octets), v \in Seq(Octets), k \in 0 .. 4, n \in 0 .. 255 :
             Shape(m, s, v, k, n)
      BY <1>2, PlainShape
    <2>2. /\ serialize(m) \in Seq(Octets) /\ Len(serialize(m)) = size(m)
          /\ size(m) = 2 + 2 * k + (IF m.layout.width = 0 THEN 0 ELSE 1 + n)
          /\ k = Len(m.fields)
      BY <2>1 DEF Shape
    <2>3. /\ m.layout.width = 0 => k >= 2
          /\ m.layout.type = "request" => k >= 2
      <3>1. m.layout \in PlainLayouts /\ Len(m.fields) = m.layout.words
        BY <1>2 DEF WellFormed, Layouts
      <3>2. m.layout.type = "request" \/ m.layout.width = 0 => m.layout.words >= 2
        BY <3>1, LayoutValues
      <3> QED
        BY <2>2, <3>1, <3>2, Zenon
    <2>4. CASE m.layout.width = 0
      <3>1. size(m) = 2 + 2 * k + 0
        BY <2>2, <2>4, Zenon
      <3>2. size(m) \in 6 .. 266
        BY <2>3, <2>4, <3>1, SizeArithmetic
      <3> QED
        BY <2>2, <3>2, SizeArithmetic
    <2>5. CASE m.layout.width # 0
      <3>1. size(m) = 2 + 2 * k + (1 + n)
        BY <2>2, <2>5, Zenon
      <3>2. size(m) \in 3 .. 266
        BY <3>1, SizeArithmetic
      <3>3. k >= 2 => size(m) \in 6 .. 266
        BY <3>1, SizeArithmetic
      <3>4. m.layout.type = "request" => size(m) >= 6
        BY <2>3, <3>3, SizeArithmetic
      <3> QED
        BY <2>2, <3>2, <3>4
    <2> QED
      BY <2>4, <2>5
  <1> QED
    BY <1>1, <1>2

-----------------------------------------------------------------------------
(* Data units *)

(* Buffer b holds message m under transaction id: header and message at    *)
(* its beginning, whatever behind them.                                    *)
Carries(b, id, m) ==
  /\ b \in Seq(Octets) /\ Len(b) >= 6 + size(m)
  /\ b[1] = Hi(id) /\ b[2] = Lo(id) /\ b[3] = 0 /\ b[4] = 0
  /\ b[5] = Hi(size(m)) /\ b[6] = Lo(size(m))
  /\ \A i \in 1 .. size(m) : b[6 + i] = serialize(m)[i]

LEMMA HeaderArithmetic ==
  /\ \A z \in 3 .. 266 : /\ z \in Words /\ z \in Nat /\ Hi(z) % 256 = Hi(z)
                         /\ Hi(z) \in Octets /\ Lo(z) \in Octets /\ Word(Hi(z), Lo(z)) = z
                         /\ 6 + z \in Nat /\ 6 + z >= 6 + z
  /\ 0 \in Octets
  <1>1. 0 \in Octets
    BY DEF Octets
  <1>2. ASSUME NEW z \in 3 .. 266
        PROVE  z \in Words /\ z \in Nat /\ 6 + z \in Nat /\ 6 + z >= 6 + z
    <2>1. z \in Int /\ 3 <= z /\ z <= 266
      OBVIOUS
    <2>2. z \in Words
      BY <2>1 DEF Words
    <2>3. z \in Nat /\ 6 + z \in Nat /\ 6 + z >= 6 + z
      BY <2>1
    <2> QED
      BY <2>2, <2>3
  <1>3. ASSUME NEW z \in 3 .. 266
        PROVE  Hi(z) % 256 = Hi(z)
    <2>1. z \div 256 \in 0 .. 255
      OBVIOUS
    <2>2. Hi(z) \in 0 .. 255
      BY <2>1 DEF Hi
    <2> QED
      BY <2>2, SmallNumbers
  <1> QED
    BY <1>1, <1>2, <1>3, Halves

LEMMA SixOctets ==
  ASSUME NEW a \in Octets, NEW b \in Octets, NEW c \in Octets,
         NEW d \in Octets, NEW e \in Octets, NEW f \in Octets
  PROVE  /\ <<a, b, c, d, e, f>> \in Seq(Octets) /\ Len(<<a, b, c, d, e, f>>) = 6
         /\ <<a, b, c, d, e, f>>[1] = a /\ <<a, b, c, d, e, f>>[2] = b
         /\ <<a, b, c, d, e, f>>[3] = c /\ <<a, b, c, d, e, f>>[4] = d
         /\ <<a, b, c, d, e, f>>[5] = e /\ <<a, b, c, d, e, f>>[6] = f
  OBVIOUS

(* The constructor from a message makes a buffer that carries it. *)
LEMMA UnitCarries ==
  ASSUME NEW m, WellFormed(m), NEW id \in Words
  PROVE  /\ Carries(tcp_data_unit(id, m).buffer, id, m)
         /\ Len(tcp_data_unit(id, m).buffer) = 6 + size(m)
         /\ tcp_data_unit(id, m).type = m.layout.type
  <1>1. PICK s \in Seq(Octets), z \in 3 .. 266 :
           s = serialize(m) /\ z = size(m) /\ Len(s) = z
    BY Sizes
  <1>2. PICK a \in Octets, b \in Octets, e \in Octets, f \in Octets :
           a = Hi(id) /\ b = Lo(id) /\ e = Hi(z) /\ f = Lo(z)
    BY Halves, HeaderArithmetic
  <1>3. PICK h \in Seq(Octets) :
           /\ h = <<a, b, 0, 0, e, f>> /\ Len(h) = 6
           /\ h[1] = a /\ h[2] = b /\ h[3] = 0 /\ h[4] = 0 /\ h[5] = e /\ h[6] = f
    <2>1. PICK c \in Octets : c = 0
      BY HeaderArithmetic
    <2>2. PICK h : h = <<a, b, c, c, e, f>>
      OBVIOUS
    <2>3. /\ h \in Seq(Octets) /\ Len(h) = 6
          /\ h[1] = a /\ h[2] = b /\ h[3] = c /\ h[4] = c /\ h[5] = e /\ h[6] = f
      BY <2>2, SixOctets
    <2> QED
      BY <2>1, <2>2, <2>3, Zenon
  <1>4. /\ h \o s \in Seq(Octets) /\ Len(h \o s) = Len(h) + Len(s)
        /\ \A i \in 1 .. Len(h) : (h \o s)[i] = h[i]
        /\ \A i \in 1 .. Len(s) : (h \o s)[Len(h) + i] = s[i]
    BY Joined
  <1>5. /\ Len(h \o s) = 6 + z
        /\ \A i \in 1 .. 6 : (h \o s)[i] = h[i]
        /\ \A i \in 1 .. z : (h \o s)[6 + i] = s[i]
    BY <1>1, <1>3, <1>4, Zenon
  <1>6. /\ (h \o s)[1] = a /\ (h \o s)[2] = b /\ (h \o s)[3] = 0 /\ (h \o s)[4] = 0
        /\ (h \o s)[5] = e /\ (h \o s)[6] = f
    BY <1>3, <1>5
  <1>7. tcp_data_unit(id, m) = [type |-> m.layout.type, buffer |-> h \o s]
    <2>1. tcp_data_unit(id, m) =
             [type |-> m.layout.type,
              buffer |-> <<Hi(id), Lo(id), 0, 0, Hi(z) % 256, Lo(z)>> \o s]
      BY <1>1, Zenon DEF tcp_data_unit, DataUnit
    <2>2. Hi(z) % 256 = e
      BY <1>2, HeaderArithmetic
    <2> QED
      BY <1>2, <1>3, <2>1, <2>2, Zenon
  <1>8. 6 + z >= 6 + z
    BY HeaderArithmetic
  <1>9. PICK o : o = h \o s
    OBVIOUS
  <1>10. tcp_data_unit(id, m).buffer = o /\ tcp_data_unit(id, m).type = m.layout.type
    BY <1>7, <1>9
  <1>11. Carries(o, id, m)
    BY <1>1, <1>2, <1>4, <1>5, <1>6, <1>8, <1>9, Zenon DEF Carries
  <1> QED
    BY <1>1, <1>5, <1>9, <1>10, <1>11, Zenon

(* So does every buffer that begins with the same octets. *)
LEMMA BeginsAlike ==
  ASSUME NEW m, WellFormed(m), NEW id, NEW o, Carries(o, id, m),
         NEW b \in Seq(Octets), Len(b) >= 6 + size(m),
         \A i \in 1 .. 6 + size(m) : b[i] = o[i]
  PROVE  Carries(b, id, m)
  <1>1. PICK z \in 3 .. 266 : z = size(m)
    BY Sizes
  <1>2. /\ 1 \in 1 .. 6 + z /\ 2 \in 1 .. 6 + z /\ 3 \in 1 .. 6 + z
        /\ 4 \in 1 .. 6 + z /\ 5 \in 1 .. 6 + z /\ 6 \in 1 .. 6 + z
        /\ \A i \in 1 .. z : 6 + i \in 1 .. 6 + z
    OBVIOUS
  <1>3. \A i \in 1 .. 6 + z : b[i] = o[i]
    BY <1>1
  <1>4. /\ b[1] = o[1] /\ b[2] = o[2] /\ b[3] = o[3] /\ b[4] = o[4] /\ b[5] = o[5] /\ b[6] = o[6]
        /\ \A i \in 1 .. z : b[6 + i] = o[6 + i]
    BY <1>2, <1>3, Zenon
  <1> QED
    BY <1>1, <1>4, Zenon DEF Carries

LEMMA Slice ==
  ASSUME NEW b \in Seq(Octets), NEW p \in Nat, NEW n \in Nat, p + n <= Len(b)
  PROVE  /\ SubSeq(b, p + 1, p + n) \in Seq(Octets)
         /\ Len(SubSeq(b, p + 1, p + n)) = n
         /\ \A i \in 1 .. n : SubSeq(b, p + 1, p + n)[i] = b[p + i]
  <1>1. PICK l \in Nat : l = Len(b) /\ p + n <= l
    OBVIOUS
  <1>2. \A i \in 1 .. l : b[i] \in Octets
    BY <1>1
  <1>3. SubSeq(b, p + 1, p + n) = [i \in 1 .. n |-> b[p + i]]
    OBVIOUS
  <1>4. \A i \in 1 .. n : p + i \in 1 .. l
    BY <1>1
  <1>5. [i \in 1 .. n |-> b[p + i]] \in [1 .. n -> Octets]
    BY <1>2, <1>4
  <1> QED
    BY <1>3, <1>5, TypedFunction

(* A constructor that counts or converts leaves a message's members alone. *)
LEMMA MembersKept ==
  ASSUME NEW m, WellFormed(m), m.layout # exception_response
  PROVE  Members(m.layout, m.fields, m.values) = m.fields
  <1>1. PICK n \in Nat : /\ n = Len(m.fields) /\ DOMAIN m.fields = 1 .. n
                         /\ m.fields = [i \in 1 .. n |-> m.fields[i]]
    BY DEF WellFormed
  <1>2. CASE m.layout \in {write_single_coil_request, write_single_coil_response}
    <2>1. m.fields[2] \in {on, off}
      BY <1>2 DEF WellFormed
    <2>2. Members(m.layout, m.fields, m.values) =
             [m.fields EXCEPT ![2] = IF m.fields[2] = on THEN on ELSE off]
      BY <1>2 DEF Members
    <2>3. (IF m.fields[2] = on THEN on ELSE off) = m.fields[2]
      BY <2>1
    <2> QED
      BY <1>1, <2>2, <2>3
  <1>3. CASE /\ m.layout \notin {write_single_coil_request, write_single_coil_response}
             /\ m.layout = read_write_registers_request
    <2>1. m.fields[4] = Len(m.values)
      BY <1>3 DEF WellFormed
    <2>2. Members(m.layout, m.fields, m.values) = [m.fields EXCEPT ![4] = Len(m.values)]
      BY <1>3 DEF Members
    <2> QED
      BY <1>1, <2>1, <2>2
  <1>4. CASE /\ m.layout \notin {write_single_coil_request, write_single_coil_response}
             /\ m.layout # read_write_registers_request
    BY <1>4 DEF Members
  <1> QED
    BY <1>2, <1>3, <1>4

(* What follows the header, by position. *)
Laid(m, b, v, k, n) ==
  /\ b[7] = m.unit_id /\ b[8] = m.layout.code
  /\ \A i \in 1 .. k : /\ b[8 + (2 * i - 1)] = Hi(m.fields[i])
                       /\ b[8 + 2 * i] = Lo(m.fields[i])
  /\ m.layout.width # 0 => /\ b[9 + 2 * k] = n
                           /\ \A i \in 1 .. n : b[9 + 2 * k + i] = v[i]

LEMMA CarriedAt ==
  ASSUME NEW m, WellFormed(m), m.layout # exception_response, NEW id, NEW b, Carries(b, id, m),
         NEW s \in Seq(Octets), NEW v \in Seq(Octets), NEW k \in 0 .. 4, NEW n \in 0 .. 255,
         Shape(m, s, v, k, n)
  PROVE  Laid(m, b, v, k, n)
  <1>1. PICK z \in 3 .. 266 :
           /\ z = size(m) /\ z = 2 + 2 * k + (IF m.layout.width = 0 THEN 0 ELSE 1 + n)
           /\ \A i \in 1 .. z : b[6 + i] = s[i]
    BY Sizes DEF Carries, Shape
  <1>2. 1 \in 1 .. z /\ 2 \in 1 .. z /\ 6 + 1 = 7 /\ 6 + 2 = 8
    OBVIOUS
  <1>3. b[7] = s[1] /\ b[8] = s[2]
    BY <1>1, <1>2
  <1>4. ASSUME NEW i \in 1 .. k
        PROVE  b[8 + (2 * i - 1)] = Hi(m.fields[i]) /\ b[8 + 2 * i] = Lo(m.fields[i])
    <2>1. PICK w \in Nat : w = IF m.layout.width = 0 THEN 0 ELSE 1 + n
      OBVIOUS
    <2>2. z = 2 + 2 * k + w
      BY <1>1, <2>1, Zenon
    <2>3. /\ 2 + (2 * i - 1) \in 1 .. z /\ 6 + (2 + (2 * i - 1)) = 8 + (2 * i - 1)
          /\ 2 + 2 * i \in 1 .. z /\ 6 + (2 + 2 * i) = 8 + 2 * i
      BY <2>2
    <2>4. b[8 + (2 * i - 1)] = s[2 + (2 * i - 1)] /\ b[8 + 2 * i] = s[2 + 2 * i]
      BY <1>1, <2>3
    <2> QED
      BY <2>4, Zenon DEF Shape
  <1>5. ASSUME m.layout.width # 0
        PROVE  b[9 + 2 * k] = n /\ \A i \in 1 .. n : b[9 + 2 * k + i] = v[i]
    <2>1. /\ z = 2 + 2 * k + (1 + n)
          /\ s[3 + 2 * k] = n /\ \A i \in 1 .. n : s[3 + 2 * k + i] = v[i]
      BY <1>1, <1>5, Zenon DEF Shape
    <2>2. 3 + 2 * k \in 1 .. z /\ 6 + (3 + 2 * k) = 9 + 2 * k
      BY <2>1
    <2>3. ASSUME NEW i \in 1 .. n PROVE b[9 + 2 * k + i] = v[i]
      <3>1. 3 + 2 * k + i \in 1 .. z /\ 6 + (3 + 2 * k + i) = 9 + 2 * k + i
        BY <2>1
      <3>2. b[9 + 2 * k + i] = s[3 + 2 * k + i]
        BY <1>1, <3>1
      <3> QED
        BY <2>1, <3>2, Zenon
    <2>4. b[9 + 2 * k] = s[3 + 2 * k]
      BY <1>1, <2>2
    <2> QED
      BY <2>1, <2>3, <2>4, Zenon
  <1>6. b[7] = m.unit_id /\ b[8] = m.layout.code
    BY <1>3, Zenon DEF Shape
  <1> QED
    BY <1>4, <1>5, <1>6, Zenon DEF Laid

LEMMA ParseArithmetic ==
  /\ \A k \in 0 .. 4 : /\ 6 + 3 + 2 * k = 9 + 2 * k /\ 9 + 2 * k - 1 = 8 + 2 * k
                       /\ 8 \in Nat /\ 2 * k \in Nat /\ 9 + 2 * k \in Nat
                       /\ 6 + (2 + 2 * k + 0) = 8 + 2 * k
  /\ \A k \in 0 .. 4, n \in 0 .. 255 :
        6 + (2 + 2 * k + (1 + n)) = 9 + 2 * k + n
  /\ \A l \in Nat, k \in 0 .. 4, n \in 0 .. 255 :
        9 + 2 * k + n <= l => ~(9 + 2 * k > l) /\ 8 + 2 * k <= l
  /\ \A l \in Nat, k \in 0 .. 4 : l >= 8 + 2 * k => 8 + 2 * k <= l
  /\ \A l \in Nat, k \in 0 .. 4, n \in 0 .. 255 :
        l >= 9 + 2 * k + n => 9 + 2 * k + n <= l
  OBVIOUS

(* The octets of the values divide into values. *)
LEMMA Quotient ==
  \A j \in Nat : 1 * ((1 * j) \div 1) = 1 * j /\ 2 * ((2 * j) \div 2) = 2 * j
  OBVIOUS

(* The members are read back. *)
LEMMA FieldsRead ==
  ASSUME NEW m, WellFormed(m), NEW b \in Seq(Octets), NEW k \in 0 .. 4, k = Len(m.fields),
         8 + 2 * k <= Len(b),
         \A i \in 1 .. k : /\ b[8 + (2 * i - 1)] = Hi(m.fields[i])
                           /\ b[8 + 2 * i] = Lo(m.fields[i])
  PROVE  OctetsToWords(SubSeq(b, 9, 8 + 2 * k)) = m.fields
  <1>1. PICK q \in Nat : q = 2 * k /\ 8 + q <= Len(b)
    BY ParseArithmetic
  <1>2. PICK f \in Seq(Octets) : /\ f = SubSeq(b, 8 + 1, 8 + q) /\ Len(f) = q
                                 /\ \A i \in 1 .. q : f[i] = b[8 + i]
    <2>1. 8 \in Nat
      OBVIOUS
    <2>2. /\ SubSeq(b, 8 + 1, 8 + q) \in Seq(Octets)
          /\ Len(SubSeq(b, 8 + 1, 8 + q)) = q
          /\ \A i \in 1 .. q : SubSeq(b, 8 + 1, 8 + q)[i] = b[8 + i]
      BY <1>1, <2>1, Slice, SMTT(30)
    <2> QED
      BY <2>2, Zenon
  <1>3. \A i \in 1 .. k : f[2 * i - 1] = Hi(m.fields[i]) /\ f[2 * i] = Lo(m.fields[i])
    <2>1. \A i \in 1 .. k : 2 * i - 1 \in 1 .. q /\ 2 * i \in 1 .. q
      BY <1>1, Positions
    <2> QED
      BY <1>2, <2>1, Zenon
  <1>4. m.fields \in Seq(Words)
    BY DEF WellFormed
  <1>5. OctetsToWords(f) = m.fields
    BY <1>1, <1>2, <1>3, <1>4, WordsIn
  <1>6. 8 + 1 = 9
    OBVIOUS
  <1> QED
    BY <1>1, <1>2, <1>5, <1>6

(* So are the values. *)
LEMMA BodyRead ==
  ASSUME NEW b \in Seq(Octets), NEW p \in Nat, NEW n \in Nat, NEW v \in Seq(Octets),
         n = Len(v), p + n <= Len(b), \A i \in 1 .. n : b[p + i] = v[i]
  PROVE  SubSeq(b, p + 1, p + n) = v
  <1>1. PICK w \in Seq(Octets) : /\ w = SubSeq(b, p + 1, p + n) /\ Len(w) = n
                                 /\ \A i \in 1 .. n : w[i] = b[p + i]
    <2>1. /\ SubSeq(b, p + 1, p + n) \in Seq(Octets)
          /\ Len(SubSeq(b, p + 1, p + n)) = n
          /\ \A i \in 1 .. n : SubSeq(b, p + 1, p + n)[i] = b[p + i]
      BY Slice
    <2> QED
      BY <2>1, Zenon
  <1>2. Len(w) = Len(v) /\ \A i \in 1 .. Len(w) : w[i] = v[i]
    BY <1>1, Zenon
  <1>3. w = v
    BY <1>2, SeqEqual
  <1> QED
    BY <1>1, <1>3

LEMMA ValuesRead ==
  ASSUME NEW m, WellFormed(m), m.layout # exception_response
  PROVE  (IF m.layout.width = 2 THEN OctetsToWords(Body(m)) ELSE Body(m)) = m.values
  <1>1. CASE m.layout.width = 2
    <2>1. m.values \in Seq(Words)
      BY DEF WellFormed
    <2>2. Body(m) = WordsToOctets(m.values)
      BY <1>1 DEF Body
    <2>3. OctetsToWords(Body(m)) = m.values
      BY <2>1, <2>2, WordsOut, WordsIn
    <2> QED
      BY <1>1, <2>3
  <1>2. CASE m.layout.width # 2
    BY <1>2 DEF Body
  <1> QED
    BY <1>1, <1>2

(* The constructor from a buffer reads the message and no further. *)
LEMMA ParsePlain ==
  ASSUME NEW m, WellFormed(m), m.layout # exception_response, NEW id, NEW b, Carries(b, id, m)
  PROVE  LastRead(m.layout, b) = 6 + size(m) /\ parse(m.layout, b) = m
  <1>1. PICK s \in Seq(Octets), v \in Seq(Octets), k \in 0 .. 4, n \in 0 .. 255 :
           Shape(m, s, v, k, n)
    BY PlainShape
  <1>2. PICK l \in Nat : b \in Seq(Octets) /\ l = Len(b) /\ l >= 6 + size(m)
    BY DEF Carries
  <1>3. /\ b[7] = m.unit_id
        /\ \A i \in 1 .. k : /\ b[8 + (2 * i - 1)] = Hi(m.fields[i])
                             /\ b[8 + 2 * i] = Lo(m.fields[i])
        /\ m.layout.width # 0 => /\ b[9 + 2 * k] = n
                                 /\ \A i \in 1 .. n : b[9 + 2 * k + i] = v[i]
    <2>1. Laid(m, b, v, k, n)
      BY <1>1, CarriedAt
    <2> QED
      BY <2>1, Zenon DEF Laid
  <1>4. /\ m.layout.words = k /\ k = Len(m.fields) /\ v = Body(m) /\ n = Len(v)
        /\ size(m) = 2 + 2 * k + (IF m.layout.width = 0 THEN 0 ELSE 1 + n)
    BY <1>1 DEF WellFormed, Shape
  <1>5. CountAt(m.layout) = 9 + 2 * k /\ CountAt(m.layout) - 1 = 8 + 2 * k
    <2>1. CountAt(m.layout) = 6 + 3 + 2 * k
      BY <1>4 DEF CountAt, TCP_HEADER_SIZE
    <2> QED
      BY <2>1, ParseArithmetic
  <1>6. m = Message(m.layout, m.unit_id, m.fields, m.values)
    BY DEF WellFormed, Message
  <1>7. CASE m.layout.width = 0
    <2>1. size(m) = 2 + 2 * k + 0
      BY <1>4, <1>7, Zenon
    <2>2. LastRead(m.layout, b) = 8 + 2 * k
      <3>1. LastRead(m.layout, b) = CountAt(m.layout) - 1
        BY <1>7, Zenon DEF LastRead
      <3> QED
        BY <1>5, <3>1, Zenon
    <2>3. 6 + size(m) = 8 + 2 * k /\ 8 + 2 * k <= l
      <3>1. 6 + size(m) = 8 + 2 * k
        BY <2>1, ParseArithmetic
      <3>2. l >= 8 + 2 * k
        BY <1>2, <3>1, Zenon
      <3> QED
        BY <3>1, <3>2, ParseArithmetic
    <2>4. OctetsToWords(SubSeq(b, 9, 8 + 2 * k)) = m.fields
      BY <1>2, <1>3, <1>4, <2>3, FieldsRead
    <2>5. m.values = <<>>
      BY <1>7 DEF WellFormed
    <2>6. parse(m.layout, b) =
             Message(m.layout, b[7],
                     Members(m.layout, OctetsToWords(SubSeq(b, 9, CountAt(m.layout) - 1)), <<>>),
                     <<>>)
      BY <1>7 DEF parse
    <2> QED
      BY <1>3, <1>5, <1>6, <2>2, <2>3, <2>4, <2>5, <2>6, MembersKept
  <1>8. CASE m.layout.width # 0
    <2>1. size(m) = 2 + 2 * k + (1 + n)
      BY <1>4, <1>8, Zenon
    <2>2. 6 + size(m) = 9 + 2 * k + n
      BY <2>1, ParseArithmetic
    <2>3. 9 + 2 * k + n <= l
      BY <1>2, <2>2, ParseArithmetic
    <2>4. ~(9 + 2 * k > l) /\ 8 + 2 * k <= l
      BY <2>3, ParseArithmetic
    <2>5. m.layout.width * (n \div m.layout.width) = n
      <3>1. PICK j \in Nat : j = Len(m.values) /\ n = m.layout.width * j
        <4>1. n = m.layout.width * Len(m.values)
          BY <1>1, <1>8, Zenon DEF Shape
        <4>2. m.values \in Seq(Words)
          BY DEF WellFormed
        <4>3. Len(m.values) \in Nat
          BY <4>2
        <4> QED
          BY <4>1, <4>3, Zenon
      <3>2. m.layout.width \in {1, 2}
        BY <1>8, LayoutValues DEF WellFormed, Layouts
      <3> QED
        BY <3>1, <3>2, Quotient
    <2>6. LastRead(m.layout, b) = 9 + 2 * k + n
      <3>1. LastRead(m.layout, b) =
               CountAt(m.layout) + m.layout.width * (b[CountAt(m.layout)] \div m.layout.width)
        <4>1. ~(CountAt(m.layout) > Len(b))
          BY <1>2, <1>5, <2>4, Zenon
        <4> QED
          BY <1>8, <4>1, ZenonT(40) DEF LastRead
      <3> QED
        BY <1>3, <1>5, <1>8, <2>5, <3>1
    <2>7. OctetsToWords(SubSeq(b, 9, 8 + 2 * k)) = m.fields
      BY <1>2, <1>3, <1>4, <2>4, FieldsRead
    <2>8. PICK p \in Nat, q \in Nat : p = 9 + 2 * k /\ q = n
      BY ParseArithmetic, SmallNumbers
    <2>9. (IF m.layout.width = 2 THEN OctetsToWords(SubSeq(b, p + 1, p + q))
           ELSE SubSeq(b, p + 1, p + q)) = m.values
      <3>1. /\ v = Body(m) /\ q = Len(v) /\ p + q <= Len(b)
            /\ \A i \in 1 .. q : b[p + i] = v[i]
        BY <1>2, <1>3, <1>4, <1>8, <2>3, <2>8, Zenon
      <3>2. SubSeq(b, p + 1, p + q) = v
        BY <1>2, <3>1, BodyRead
      <3> QED
        BY <3>1, <3>2, ValuesRead
    <2>10. parse(m.layout, b) =
              Message(m.layout, b[7],
                      Members(m.layout, OctetsToWords(SubSeq(b, 9, CountAt(m.layout) - 1)),
                              m.values),
                      m.values)
      <3>1. CountAt(m.layout) = p /\ LastRead(m.layout, b) = p + q
        BY <1>5, <2>6, <2>8, Zenon
      <3> QED
        BY <1>8, <2>9, <3>1 DEF parse
    <2> QED
      BY <1>3, <1>5, <1>6, <2>2, <2>6, <2>7, <2>10, MembersKept
  <1> QED
    BY <1>7, <1>8

-----------------------------------------------------------------------------
(* What is found in a buffer that carries a message *)

LEMMA CodeArithmetic ==
  /\ \A c \in 1 .. 127 : c % 128 = c /\ ~(c >= 128)
  /\ \A c \in 0 .. 127 : (128 + c) % 128 = c /\ 128 + c >= 128
  OBVIOUS

LEMMA EnoughOctets ==
  \A l \in Nat, z \in 3 .. 266 : l >= 6 + z => ~(l < 8) /\ ~(9 > l) /\ ~(6 + z > l)
  OBVIOUS

LEMMA Room ==
  ASSUME NEW m, WellFormed(m), NEW id, NEW b, Carries(b, id, m)
  PROVE  ~(Len(b) < 8) /\ ~(9 > Len(b)) /\ ~(6 + size(m) > Len(b))
  <1>1. PICK l \in Nat, z \in 3 .. 266 : l = Len(b) /\ z = size(m) /\ l >= 6 + z
    <2>1. PICK z \in 3 .. 266 : z = size(m)
      BY Sizes
    <2>2. PICK l \in Nat : l = Len(b) /\ l >= 6 + size(m)
      BY DEF Carries
    <2> QED
      BY <2>1, <2>2
  <1> QED
    BY <1>1, EnoughOctets

(* A plain message is found as that message and as no other. *)
LEMMA FoundPlain ==
  ASSUME NEW m, WellFormed(m), m.layout # exception_response, NEW id, NEW b, Carries(b, id, m),
         NEW u, u = DataUnit(m.layout.type, b)
  PROVE  /\ unit_id(u) = m.unit_id
         /\ function_code(u) = m.layout.code /\ ~is_exception(u)
         /\ \A l \in Layouts : pdu(u, l) = IF l = m.layout THEN m ELSE Failure("nullopt")
  <1>0. u.buffer = b /\ u.type = m.layout.type
    BY DEF DataUnit
  <1>1. b[7] = m.unit_id /\ b[8] = m.layout.code
    <2>1. PICK s \in Seq(Octets), v \in Seq(Octets), k \in 0 .. 4, n \in 0 .. 255 :
             Shape(m, s, v, k, n)
      BY PlainShape
    <2>2. Laid(m, b, v, k, n)
      BY <2>1, CarriedAt
    <2> QED
      BY <2>2 DEF Laid
  <1>2. m.layout \in PlainLayouts /\ m.layout.code \in 1 .. 127
    BY LayoutValues DEF WellFormed, Layouts
  <1>3. unit_id(u) = m.unit_id
    BY <1>0, <1>1 DEF unit_id
  <1>4. function_code(u) = m.layout.code /\ ~is_exception(u)
    BY <1>0, <1>1, <1>2, CodeArithmetic DEF function_code, is_exception
  <1>5. ~(Len(b) < 8) /\ ~(6 + size(m) > Len(b))
    BY Room
  <1>6. ASSUME NEW l \in Layouts
        PROVE  pdu(u, l) = IF l = m.layout THEN m ELSE Failure("nullopt")
    <2>1. CASE l = exception_response
      BY <1>0, <1>4, <1>5, <2>1 DEF pdu
    <2>2. CASE l = m.layout
      <3>1. LastRead(l, b) = 6 + size(m) /\ parse(l, b) = m
        BY <2>2, ParsePlain
      <3>2. ~(LastRead(l, b) > Len(b))
        BY <1>5, <3>1
      <3>3. pdu(u, l) = parse(l, b)
        <4>1. ~(is_exception(u) # (l = exception_response))
          BY <1>4, <2>2 DEF is_exception
        <4>2. ~(function_code(u) # l.code) /\ ~(u.type # l.type)
          BY <1>0, <1>4, <2>2
        <4> QED
          BY <1>0, <1>5, <3>2, <4>1, <4>2, Zenon DEF pdu
      <3> QED
        BY <2>2, <3>1, <3>3
    <2>3. CASE l # exception_response /\ l # m.layout
      <3>1. l.code # m.layout.code \/ l.type # m.layout.type
        BY <1>2, <2>3, LayoutValues DEF Layouts
      <3> QED
        BY <1>0, <1>4, <1>5, <2>3, <3>1 DEF pdu
    <2> QED
      BY <2>1, <2>2, <2>3
  <1> QED
    BY <1>3, <1>4, <1>6

(* An exception is found as an exception and as no other message. *)
LEMMA FoundException ==
  ASSUME NEW m, WellFormed(m), m.layout = exception_response, NEW id, NEW b, Carries(b, id, m),
         NEW u, u = DataUnit(m.layout.type, b)
  PROVE  /\ unit_id(u) = m.unit_id /\ exception_code(u) = m.fields[2]
         /\ function_code(u) = m.fields[1] /\ is_exception(u)
         /\ \A l \in Layouts : pdu(u, l) = IF l = m.layout THEN m ELSE Failure("nullopt")
  <1>0. u.buffer = b /\ u.type = "response" /\ exception_response.type = "response"
    BY LayoutValues DEF DataUnit
  <1>1. b[7] = m.unit_id /\ b[8] = 128 + m.fields[1] /\ b[9] = m.fields[2]
    <2>1. PICK s : s = serialize(m)
      OBVIOUS
    <2>2. size(m) = 3 /\ s[1] = m.unit_id /\ s[2] = 128 + m.fields[1] /\ s[3] = m.fields[2]
      BY <2>1, ExceptionShape
    <2>3. \A i \in 1 .. 3 : b[6 + i] = s[i]
      BY <2>1, <2>2 DEF Carries
    <2>4. 1 \in 1 .. 3 /\ 2 \in 1 .. 3 /\ 3 \in 1 .. 3 /\ 6 + 1 = 7 /\ 6 + 2 = 8 /\ 6 + 3 = 9
      OBVIOUS
    <2>5. b[6 + 1] = s[1] /\ b[6 + 2] = s[2] /\ b[6 + 3] = s[3]
      BY <2>3, <2>4, Zenon
    <2> QED
      BY <2>2, <2>4, <2>5
  <1>2. m.fields[1] \in 0 .. 127 /\ m.values = <<>> /\ m.fields = <<m.fields[1], m.fields[2]>>
    BY DEF WellFormed
  <1>3. unit_id(u) = m.unit_id
    BY <1>0, <1>1 DEF unit_id
  <1>4. (128 + m.fields[1]) % 128 = m.fields[1] /\ 128 + m.fields[1] >= 128
    BY <1>2, CodeArithmetic
  <1>5. function_code(u) = m.fields[1] /\ is_exception(u) /\ exception_code(u) = m.fields[2]
    BY <1>0, <1>1, <1>4 DEF function_code, is_exception, exception_code
  <1>6. ~(Len(b) < 8) /\ ~(9 > Len(b))
    BY Room
  <1>7. ASSUME NEW l \in Layouts
        PROVE  pdu(u, l) = IF l = m.layout THEN m ELSE Failure("nullopt")
    <2>1. CASE l = exception_response
      <3>1. LastRead(l, b) = 9
        BY <2>1 DEF LastRead, TCP_HEADER_SIZE
      <3>2. parse(l, b) = Message(l, b[7], <<b[8] % 128, b[9]>>, <<>>)
        BY <2>1 DEF parse
      <3>3. parse(l, b) = Message(m.layout, m.unit_id, m.fields, m.values)
        BY <1>1, <1>2, <1>4, <2>1, <3>2, Zenon
      <3>4. m = Message(m.layout, m.unit_id, m.fields, m.values)
        BY DEF WellFormed, Message
      <3>5. pdu(u, l) = parse(l, b)
        BY <1>0, <1>5, <1>6, <2>1, <3>1 DEF pdu
      <3> QED
        BY <2>1, <3>3, <3>4, <3>5
    <2>2. CASE l # exception_response
      BY <1>0, <1>5, <1>6, <2>2 DEF pdu
    <2> QED
      BY <2>1, <2>2
  <1> QED
    BY <1>3, <1>5, <1>7

(* What one side writes the other reads: pdu finds in the data unit of any *)
(* message that its struct can hold, under any transaction id, that very   *)
(* message, and from_buffer refuses none.                                  *)
THEOREM RoundTrip ==
  ASSUME NEW m, WellFormed(m), NEW id \in Words
  PROVE  LET b == tcp_data_unit(id, m).buffer
         IN  /\ from_buffer(b, Len(b), m.layout.type) = tcp_data_unit(id, m)
             /\ pdu(tcp_data_unit(id, m), m.layout) = m
  <1>1. PICK b : b = tcp_data_unit(id, m).buffer
    OBVIOUS
  <1>2. Carries(b, id, m) /\ Len(b) = 6 + size(m)
    BY <1>1, UnitCarries
  <1>3. tcp_data_unit(id, m) = DataUnit(m.layout.type, b)
    BY <1>1 DEF tcp_data_unit, DataUnit
  <1>4. PICK z \in 3 .. 266 : z = size(m)
    BY Sizes
  <1>5. LengthField(b) = z
    BY <1>2, <1>4, HeaderArithmetic DEF LengthField, Carries
  <1>6. ~(6 + z <= 6) /\ ~(6 + z - 6 < z)
    OBVIOUS
  <1>7. from_buffer(b, Len(b), m.layout.type) = DataUnit(m.layout.type, b)
    BY <1>2, <1>4, <1>5, <1>6 DEF from_buffer, TCP_HEADER_SIZE
  <1>8. m.layout \in Layouts
    BY DEF WellFormed
  <1>9. pdu(DataUnit(m.layout.type, b), m.layout) = m
    <2>1. CASE m.layout = exception_response
      BY <1>2, <1>8, <2>1, FoundException
    <2>2. CASE m.layout # exception_response
      BY <1>2, <1>8, <2>2, FoundPlain
    <2> QED
      BY <2>1, <2>2
  <1> QED
    BY <1>1, <1>3, <1>7, <1>9
=============================================================================
