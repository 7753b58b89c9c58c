--------------------------- MODULE EndToEndProofs ---------------------------
(***************************************************************************)
(* Theorems about client and server together: whatever tcp_session does is *)
(* something TcpClient allows its server, so what is proved of TcpClient   *)
(* holds here; and on a connection on which no read or write has ended     *)
(* inside a message every call gets the answer to its own request.         *)
(***************************************************************************)
EXTENDS EndToEnd, SequenceTheorems, FiniteSetTheorems, TLAPS

(* The theorems about the client, with this server at the other end. *)
P == INSTANCE TcpClientHistoryProofs WITH srv <- Pending

-----------------------------------------------------------------------------
(* C and P instantiate the same client *)

LEMMA SameUnits ==
  /\ C!Piece = P!Piece
  /\ \A i, q, l : C!Header(i, q, l) = P!Header(i, q, l)
  /\ \A q, l : C!Answers(q, l) = P!Answers(q, l)
  /\ C!Fragments = P!Fragments
  /\ \A q : C!Clean(q) <=> P!Clean(q)
  BY DEF C!Piece, P!Piece, C!Header, P!Header, C!Answers, P!Answers,
         C!Fragments, P!Fragments, C!Ids, P!Ids, C!Clean, P!Clean

LEMMA SameInit == C!Init <=> P!Init
  BY DEF C!Init, P!Init, C!Empty, P!Empty

LEMMA SameCalls ==
  \A r :
      /\ C!create_request(r) <=> P!create_request(r)
      /\ C!send_request(r) <=> P!send_request(r)
      /\ C!RequestStep(r) <=> P!RequestStep(r)
      /\ C!WriteDone(r) <=> P!WriteDone(r)
      /\ C!WriteTimesOut(r) <=> P!WriteTimesOut(r)
      /\ \A c : C!GetConnection(r, c) <=> P!GetConnection(r, c)
  <1> USE DEF C!clientVars, P!clientVars, C!poolVars, P!poolVars,
              C!netVars, P!netVars, C!ghostVars, P!ghostVars, C!goto, P!goto,
              C!Ids, P!Ids, C!Piece, P!Piece, C!Header, P!Header, C!Empty, P!Empty
  <1>1. \A r, how, e, u : C!Leave(r, how, e, u) <=> P!Leave(r, how, e, u)
    BY DEF C!Leave, P!Leave
  <1>2. \A r, e, u : C!Return(r, e, u) <=> P!Return(r, e, u)
    BY <1>1 DEF C!Return, P!Return
  <1>3. \A r : /\ C!create_request(r) <=> P!create_request(r)
               /\ C!send_request(r) <=> P!send_request(r)
    BY DEF C!create_request, P!create_request, C!send_request, P!send_request
  <1>4. \A r, c : C!GetConnection(r, c) <=> P!GetConnection(r, c)
    BY DEF C!GetConnection, P!GetConnection, C!Reconnected, P!Reconnected
  <1>5. \A r, c : C!GetDeadConnection(r, c) <=> P!GetDeadConnection(r, c)
    BY <1>2 DEF C!GetDeadConnection, P!GetDeadConnection
  <1>6. \A r : C!Written(r) <=> P!Written(r)
    BY DEF C!Written, P!Written
  <1>7. \A r : /\ C!WriteDone(r) <=> P!WriteDone(r)
               /\ C!WriteTimesOut(r) <=> P!WriteTimesOut(r)
    BY <1>2, <1>6 DEF C!WriteDone, P!WriteDone, C!WriteTimesOut, P!WriteTimesOut
  <1>8. \A r, h : C!HeaderRead(r, h) <=> P!HeaderRead(r, h)
    BY <1>2 DEF C!HeaderRead, P!HeaderRead
  <1>9. \A u : C!Remainders(u) = P!Remainders(u)
    BY DEF C!Remainders, P!Remainders
  <1>10. \A r : C!ReadHeader(r) <=> P!ReadHeader(r)
    BY <1>8, <1>9 DEF C!ReadHeader, P!ReadHeader
  <1>11. \A r : C!ReadBody(r) <=> P!ReadBody(r)
    BY <1>2, <1>9 DEF C!ReadBody, P!ReadBody, C!Stale, P!Stale
  <1>12. \A r : /\ C!PoolStopped(r) <=> P!PoolStopped(r)
                /\ C!ClearFails(r) <=> P!ClearFails(r)
                /\ C!ClearRead(r) <=> P!ClearRead(r)
                /\ C!WriteFails(r) <=> P!WriteFails(r)
                /\ C!ReadEmpty(r) <=> P!ReadEmpty(r)
                /\ C!ReadFails(r) <=> P!ReadFails(r)
                /\ C!ReadTimesOut(r) <=> P!ReadTimesOut(r)
    BY <1>1, <1>2
    DEF C!PoolStopped, P!PoolStopped, C!ClearFails, P!ClearFails, C!ClearRead, P!ClearRead,
        C!WriteFails, P!WriteFails, C!ReadEmpty, P!ReadEmpty, C!ReadFails, P!ReadFails,
        C!ReadTimesOut, P!ReadTimesOut
  <1>13. \A r : C!Acquire(r) <=> P!Acquire(r)
    BY <1>4, <1>5 DEF C!Acquire, P!Acquire
  <1>14. \A r : C!RequestStep(r) <=> P!RequestStep(r)
    BY <1>7, <1>10, <1>11, <1>12, <1>13 DEF C!RequestStep, P!RequestStep
  <1> QED
    BY <1>3, <1>4, <1>7, <1>14

LEMMA SameServer ==
  /\ C!set_config <=> P!set_config
  /\ \A c :
        /\ \A l : C!ServerAnswers(c, l) <=> P!ServerAnswers(c, l)
        /\ \A i, j : C!ServerForgets(c, i, j) <=> P!ServerForgets(c, i, j)
        /\ \A u : C!ServerGarbles(c, u) <=> P!ServerGarbles(c, u)
        /\ C!Arrives(c) <=> P!Arrives(c)
        /\ C!Disconnects(c) <=> P!Disconnects(c)
  <1> USE DEF C!clientVars, P!clientVars, C!poolVars, P!poolVars,
              C!netVars, P!netVars, C!ghostVars, P!ghostVars
  <1>1. C!set_config <=> P!set_config
    BY DEF C!set_config, P!set_config, C!InFlight, P!InFlight
  <1>2. \A c, l : C!ServerAnswers(c, l) <=> P!ServerAnswers(c, l)
    BY SameUnits DEF C!ServerAnswers, P!ServerAnswers
  <1>3. \A c, i, j : C!ServerForgets(c, i, j) <=> P!ServerForgets(c, i, j)
    BY DEF C!ServerForgets, P!ServerForgets
  <1>4. \A c, u : C!ServerGarbles(c, u) <=> P!ServerGarbles(c, u)
    BY DEF C!ServerGarbles, P!ServerGarbles
  <1>5. \A c : /\ C!Arrives(c) <=> P!Arrives(c)
               /\ C!Disconnects(c) <=> P!Disconnects(c)
    BY DEF C!Arrives, P!Arrives, C!Disconnects, P!Disconnects
  <1> QED
    BY <1>1, <1>2, <1>3, <1>4, <1>5

LEMMA SameNext == C!Next <=> P!Next
  <1>1. C!Environment <=> P!Environment
    BY SameCalls, SameServer, SameUnits DEF C!Environment, P!Environment
  <1> QED
    BY <1>1, SameCalls DEF C!Next, P!Next
-----------------------------------------------------------------------------
(* Types of the session's variables, and its load *)

(* A request is with the handler only while the session handles, and the   *)
(* session that reads or handles has a connection.                         *)
SessionTypes ==
    /\ session \in [Connections -> {"none", "reading", "handling", "deaf"}]
    /\ begun \in [Connections -> BOOLEAN]
    /\ inbox \in [Connections -> Seq(Requests)]
    /\ job \in [Connections -> Requests \cup {Null}]
    /\ torn \in [Connections -> BOOLEAN]
    /\ \A c \in Connections :
          /\ job[c] # Null => session[c] = "handling"
          /\ session[c] \in {"reading", "handling"} => up[c]

(* The units that are to be read from a connection, and those that may     *)
(* still come of the requests the server has.                              *)
Stream(c) == Len(rx[c]) + Len(wire[c])
Duty(c) == 2 * Len(inbox[c]) + (IF begun[c] THEN 2 ELSE 0)
           + (IF session[c] = "handling" THEN 2 ELSE 0)

Writers == {r \in Requests : pc[r] \in P!Reads \cup P!Ended}

(* A request makes two units at most. *)
Loaded == \A c \in Connections : Stream(c) + Duty(c) <= 2 * Cardinality(Writers)

(* What the server has, with and without a request at the handler. *)
LEMMA PendingValue ==
  ASSUME SessionTypes, NEW c \in Connections
  PROVE  /\ Pending[c] \in Seq(Requests)
         /\ job[c] = Null => Pending[c] = inbox[c]
         /\ job[c] # Null => /\ Pending[c] = <<job[c]>> \o inbox[c]
                             /\ Pending[c] # <<>>
                             /\ Head(Pending[c]) = job[c]
                             /\ Tail(Pending[c]) = inbox[c]
  <1>1. Pending[c] = (IF job[c] = Null THEN <<>> ELSE <<job[c]>>) \o inbox[c]
    BY DEF Pending
  <1>2. inbox[c] \in Seq(Requests)
    BY DEF SessionTypes
  <1>3. CASE job[c] = Null
    BY <1>1, <1>2, <1>3, ConcatEmptySeq
  <1>4. CASE job[c] # Null
    <2>1. job[c] \in Requests /\ <<job[c]>> \in Seq(Requests)
      BY <1>4 DEF SessionTypes
    <2>2. Pending[c] = <<job[c]>> \o inbox[c]
      BY <1>1, <1>4
    <2>3. /\ Pending[c] \in Seq(Requests)
          /\ Len(Pending[c]) = Len(inbox[c]) + 1
          /\ Pending[c][1] = job[c]
          /\ \A i \in 1 .. Len(inbox[c]) : Pending[c][i + 1] = inbox[c][i]
      BY <1>2, <2>1, <2>2, ConcatProperties
    <2>4. Pending[c] # <<>> /\ Head(Pending[c]) = job[c]
      BY <2>3, <1>2
    <2>5. Tail(Pending[c]) = inbox[c]
      <3>1. /\ Tail(Pending[c]) \in Seq(Requests)
            /\ Len(Tail(Pending[c])) = Len(inbox[c])
            /\ \A i \in 1 .. Len(inbox[c]) : Tail(Pending[c])[i] = Pending[c][i + 1]
        BY <1>2, <2>3, <2>4, HeadTailProperties
      <3> QED
        <4>1. PICK t : t = Tail(Pending[c])
          OBVIOUS
        <4>2. t \in Seq(Requests) /\ Len(t) = Len(inbox[c])
          BY <3>1, <4>1, Zenon
        <4>3. \A i \in 1 .. Len(t) : t[i] = inbox[c][i]
          BY <2>3, <3>1, <4>1, <4>2, Zenon
        <4> QED
          BY <1>2, <4>1, <4>2, <4>3, SeqEqual
    <2> QED
      BY <1>4, <2>2, <2>3, <2>4, <2>5
  <1> QED
    BY <1>3, <1>4

(* The first element and the rest. *)
LEMMA FirstAndRest ==
  ASSUME NEW S, NEW u \in Seq(S), u # <<>>
  PROVE  /\ Len(u) \in Nat \ {0}
         /\ SubSeq(u, 1, 0) = <<>>
         /\ SubSeq(u, 1, 1) = <<Head(u)>>
         /\ SubSeq(u, 2, Len(u)) = Tail(u)
         /\ Tail(u) \in Seq(S) /\ <<>> \o Tail(u) = Tail(u)
         /\ <<Head(u)>> \o Tail(u) = u
  <1>1. /\ Len(u) \in Nat \ {0} /\ Head(u) = u[1] /\ u[1] \in S
        /\ Tail(u) \in Seq(S) /\ Len(Tail(u)) = Len(u) - 1
        /\ \A i \in 1 .. Len(u) - 1 : Tail(u)[i] = u[i + 1]
    BY HeadTailProperties, EmptySeq
  <1>2. SubSeq(u, 1, 0) = <<>>
    OBVIOUS
  <1>3. SubSeq(u, 1, 1) = <<Head(u)>>
    <2>1. /\ SubSeq(u, 1, 1) \in Seq(S) /\ Len(SubSeq(u, 1, 1)) = 1
          /\ SubSeq(u, 1, 1)[1] = u[1]
      BY <1>1, SubSeqProperties
    <2>2. <<Head(u)>> \in Seq(S) /\ Len(<<Head(u)>>) = 1 /\ <<Head(u)>>[1] = u[1]
      BY <1>1
    <2>3. \A i \in 1 .. 1 : SubSeq(u, 1, 1)[i] = <<Head(u)>>[i]
      BY <2>1, <2>2
    <2> QED
      BY <2>1, <2>2, <2>3, SeqEqual
  <1>4. SubSeq(u, 2, Len(u)) = Tail(u)
    BY <1>1
  <1>5. <<>> \o Tail(u) = Tail(u)
    BY <1>1, ConcatEmptySeq
  <1>6. <<Head(u)>> \o Tail(u) = u
    BY <1>1
  <1> QED
    BY <1>1, <1>2, <1>3, <1>4, <1>5, <1>6

(* A step of the session changes what the server has of its connection. *)
LEMMA PendingStep ==
  ASSUME NEW c \in Connections,
         \A d \in Connections \ {c} : inbox'[d] = inbox[d] /\ job'[d] = job[d]
  PROVE  /\ Pending' = [Pending EXCEPT ![c] = Pending'[c]]
         /\ \A d \in Connections \ {c} : Pending'[d] = Pending[d]
         /\ DOMAIN Pending = Connections
         /\ Pending'[c] = Pending[c] => Pending' = Pending
  BY DEF Pending

(* Every step of the client, the network and the session keeps the types   *)
(* of the session's variables.                                             *)
LEMMA SessionTypesStep ==
  ASSUME P!TypeOK, P!Holding, SessionTypes, [Next]_vars
  PROVE  SessionTypes'
  <1> USE EndToEndAssumption DEF vars, callVars, sessionVars
  <1>0. up \in [Connections -> BOOLEAN]
    BY DEF P!TypeOK
  <1>1. ASSUME NEW r \in Requests, ClientAlone(r) PROVE SessionTypes'
    BY <1>1 DEF ClientAlone, SessionTypes
  <1>2. ASSUME NEW r \in Requests, RequestReaches(r) PROVE SessionTypes'
    <2>1. connection[r] \in Connections
      BY <1>2 DEF RequestReaches, P!TypeOK, P!Holding, P!InFlight
    <2>2. Append(inbox[connection[r]], r) \in Seq(Requests)
      BY <2>1 DEF SessionTypes
    <2>3. up' = up
      BY <1>2 DEF RequestReaches, C!WriteDone, C!WriteTimesOut, C!Written, C!netVars
    <2> QED
      BY <1>2, <2>1, <2>2, <2>3 DEF RequestReaches, SessionTypes
  <1>3. ASSUME NEW r \in Requests, NEW c \in Connections, Connects(r, c)
        PROVE  SessionTypes'
    <2>1. \A d \in Connections : d # c => up'[d] = up[d]
      BY <1>0, <1>3 DEF Connects, C!GetConnection, C!Reconnected, C!netVars
    <2>2. PICK s \in {"reading", "deaf"} : session' = [session EXCEPT ![c] = s]
      BY <1>3 DEF Connects
    <2>3. /\ begun' = [begun EXCEPT ![c] = FALSE] /\ inbox' = [inbox EXCEPT ![c] = <<>>]
          /\ job' = [job EXCEPT ![c] = Null] /\ torn' = [torn EXCEPT ![c] = FALSE]
          /\ up'[c]
      BY <1>3 DEF Connects
    <2>4. <<>> \in Seq(Requests) /\ FALSE \in BOOLEAN /\ Null \in Requests \cup {Null}
          /\ s \in {"none", "reading", "handling", "deaf"}
      OBVIOUS
    <2>5. /\ session' \in [Connections -> {"none", "reading", "handling", "deaf"}]
          /\ begun' \in [Connections -> BOOLEAN] /\ torn' \in [Connections -> BOOLEAN]
      BY <2>2, <2>3, <2>4 DEF SessionTypes
    <2>6. inbox' \in [Connections -> Seq(Requests)] /\ job' \in [Connections -> Requests \cup {Null}]
      BY <2>3, <2>4 DEF SessionTypes
    <2>7. ASSUME NEW d \in Connections
          PROVE  /\ job'[d] # Null => session'[d] = "handling"
                 /\ session'[d] \in {"reading", "handling"} => up'[d]
      <3>1. CASE d = c
        BY <2>2, <2>3, <3>1 DEF SessionTypes
      <3>2. CASE d # c
        <4>1. job'[d] = job[d] /\ session'[d] = session[d] /\ up'[d] = up[d]
          BY <2>1, <2>2, <2>3, <3>2 DEF SessionTypes
        <4> QED
          BY <4>1 DEF SessionTypes
      <3> QED
        BY <3>1, <3>2
    <2> QED
      BY <2>5, <2>6, <2>7 DEF SessionTypes
  <1>4. CASE set_config
    BY <1>4 DEF set_config, SessionTypes
  <1>5. ASSUME NEW c \in Connections, Disconnects(c) PROVE SessionTypes'
    <2>1. \A d \in Connections : d # c => up'[d] = up[d]
      BY <1>0, <1>5 DEF Disconnects, C!Disconnects
    <2> QED
      BY <1>5, <2>1 DEF Disconnects, SessionTypes
  <1>6. ASSUME NEW c \in Connections, Arrives(c) PROVE SessionTypes'
    BY <1>6 DEF Arrives, C!Arrives, SessionTypes
  <1>7. ASSUME NEW c \in Connections, NEW s \in {"reading", "handling", "deaf"},
               NEW q \in Requests \cup {Null}, goto(c, s, q),
               s = "handling" \/ q = Null, session[c] \in {"reading", "handling"},
               inbox' \in [Connections -> Seq(Requests)],
               begun' \in [Connections -> BOOLEAN], torn' \in [Connections -> BOOLEAN],
               up' = up
        PROVE  SessionTypes'
    BY <1>7 DEF goto, SessionTypes
  <1>8. ASSUME NEW c \in Connections, SessionReads(c) PROVE SessionTypes'
    <2>1. PICK n \in 0 .. Len(inbox[c]), cut \in BOOLEAN : Takes(c, n, cut) /\ Understood(c, n, cut)
      BY <1>8 DEF SessionReads
    <2>2. inbox[c] \in Seq(Requests) /\ SubSeq(inbox[c], n + 1, Len(inbox[c])) \in Seq(Requests)
      BY EndToEndAssumption, P!SuffixInSeq DEF SessionTypes
    <2>3. /\ inbox' \in [Connections -> Seq(Requests)]
          /\ begun' \in [Connections -> BOOLEAN] /\ torn' \in [Connections -> BOOLEAN]
      BY <2>1, <2>2 DEF Takes, SessionTypes
    <2>4. n > 0 => Head(inbox[c]) \in Requests
      BY <2>2
    <2>5. \E s \in {"reading", "handling", "deaf"}, q \in Requests \cup {Null} :
             goto(c, s, q) /\ (s = "handling" \/ q = Null)
      BY <2>1, <2>4 DEF Takes, Understood
    <2> QED
      BY <1>7, <1>8, <2>3, <2>5 DEF SessionReads
  <1>9. ASSUME NEW c \in Connections,
               \/ \E l \in ServerLengths : HandlerReplies(c, l)
               \/ WritesPart(c) \/ HandlerThrows(c)
        PROVE  SessionTypes'
    <2>1. /\ session[c] = "handling" /\ up' = up
          /\ goto(c, "reading", Null) \/ goto(c, "deaf", Null)
          /\ inbox' = inbox /\ begun' = begun /\ torn' \in [Connections -> BOOLEAN]
      BY <1>9 DEF HandlerReplies, WritesPart, HandlerThrows, SessionTypes
    <2> QED
      BY <1>7, <2>1 DEF SessionTypes
  <1>10. CASE UNCHANGED vars
    BY <1>10 DEF SessionTypes
  <1> QED
    BY <1>1, <1>2, <1>3, <1>4, <1>5, <1>6, <1>8, <1>9, <1>10
    DEF Next, ClientStep, SessionStep

-----------------------------------------------------------------------------
(* The refinement *)

(* The bound on fragments never binds: the server may write one whenever   *)
(* it has something to answer.                                             *)
BoundSuffices == MaxGarbled >= 2 * Cardinality(Requests)

LEMMA WritersBound ==
  /\ IsFiniteSet(Writers)
  /\ Cardinality(Writers) \in Nat /\ Cardinality(Requests) \in Nat
  /\ Cardinality(Writers) <= Cardinality(Requests)
  <1>1. Writers \subseteq Requests /\ IsFiniteSet(Requests)
    BY EndToEndAssumption DEF Writers
  <1> QED
    BY <1>1, FS_Subset, FS_CardinalityType

LEMMA LoadNat ==
  ASSUME P!TypeOK, SessionTypes, NEW c \in Connections
  PROVE  /\ Len(rx[c]) \in Nat /\ Len(wire[c]) \in Nat /\ Len(inbox[c]) \in Nat
         /\ Stream(c) \in Nat /\ Duty(c) \in Nat
         /\ session[c] = "handling" => Duty(c) >= 2
  <1>1. Len(rx[c]) \in Nat /\ Len(wire[c]) \in Nat /\ Len(inbox[c]) \in Nat
    BY DEF P!TypeOK, SessionTypes
  <1>2. PICK x \in Nat, w \in Nat, i \in Nat :
           x = Len(rx[c]) /\ w = Len(wire[c]) /\ i = Len(inbox[c])
    BY <1>1
  <1>3. PICK b \in {0, 2}, h \in {0, 2} :
           /\ b = (IF begun[c] THEN 2 ELSE 0) /\ h = (IF session[c] = "handling" THEN 2 ELSE 0)
    OBVIOUS
  <1>4. Stream(c) = x + w /\ Duty(c) = 2 * i + b + h
    BY <1>2, <1>3 DEF Stream, Duty
  <1>5. Stream(c) \in Nat /\ Duty(c) \in Nat /\ (h = 2 => Duty(c) >= 2)
    BY <1>4
  <1> QED
    BY <1>1, <1>3, <1>5

LEMMA LoadNatNext ==
  (P!TypeOK /\ SessionTypes)' =>
      (\A c \in Connections : Stream(c) \in Nat /\ Duty(c) \in Nat)'
  <1>1. P!TypeOK /\ SessionTypes =>
           \A c \in Connections : Stream(c) \in Nat /\ Duty(c) \in Nat
    BY LoadNat
  <1> QED
    BY <1>1, PTL

(* What the session does to the requests of its connection is to lose some *)
(* of them, to answer the first, or to write a fragment.                   *)
LEMMA SessionRefines ==
  ASSUME P!TypeOK, SessionTypes, Loaded, BoundSuffices,
         NEW c \in Connections, SessionStep(c)
  PROVE  \/ UNCHANGED C!vars
         \/ \E l \in ServerLengths : C!ServerAnswers(c, l)
         \/ \E i \in 0 .. Len(Pending[c]) - 1 :
               \E j \in i + 2 .. Len(Pending[c]) + 1 : C!ServerForgets(c, i, j)
         \/ torn'[c] /\ MaxGarbled > 0 /\ \E u \in C!Fragments : C!ServerGarbles(c, u)
  <1> DEFINE Others == \A d \in Connections \ {c} : inbox'[d] = inbox[d] /\ job'[d] = job[d]
  <1> USE EndToEndAssumption
          DEF callVars, C!vars, C!clientVars, C!poolVars, C!netVars, C!ghostVars
  <1>0. inbox[c] \in Seq(Requests) /\ Len(inbox[c]) \in Nat
    BY DEF SessionTypes
  <1>1. ASSUME SessionReads(c)
        PROVE  \/ UNCHANGED C!vars
               \/ \E i \in 0 .. Len(Pending[c]) - 1 :
                     \E j \in i + 2 .. Len(Pending[c]) + 1 : C!ServerForgets(c, i, j)
    <2>1. PICK n \in 0 .. Len(inbox[c]), cut \in BOOLEAN : Takes(c, n, cut) /\ Understood(c, n, cut)
      BY <1>1 DEF SessionReads
    <2>2. /\ process = "up" /\ UNCHANGED <<callVars, wire>> /\ job[c] = Null
          /\ Pending[c] = inbox[c]
      BY <1>1, PendingValue DEF SessionReads, SessionTypes
    <2>3. PICK s, q : goto(c, s, q) /\ (q = Null \/ (q = Head(inbox[c]) /\ n > 0))
      BY <2>1 DEF Understood, Takes
    <2>4. Others
      BY <2>1, <2>3 DEF Takes, goto, SessionTypes
    <2>5. job'[c] = q /\ inbox'[c] = SubSeq(inbox[c], n + 1, Len(inbox[c]))
      BY <2>1, <2>3 DEF Takes, goto, SessionTypes
    <2>6. /\ Pending' = [Pending EXCEPT ![c] = Pending'[c]] /\ DOMAIN Pending = Connections
          /\ Pending'[c] = (IF q = Null THEN <<>> ELSE <<q>>) \o inbox'[c]
      BY <2>4, <2>5, PendingStep DEF Pending
    <2>7. inbox'[c] \in Seq(Requests)
      BY <1>0, <2>5, EndToEndAssumption, P!SuffixInSeq
    <2>8. ASSUME Pending'[c] = inbox[c] PROVE UNCHANGED C!vars
      <3>1. Pending' = Pending
        BY <2>2, <2>4, <2>8, PendingStep
      <3> QED
        BY <2>2, <3>1
    <2>9. ASSUME NEW i \in 0 .. Len(inbox[c]) - 1, NEW j \in i + 2 .. Len(inbox[c]) + 1,
                 Pending'[c] = SubSeq(inbox[c], 1, i) \o SubSeq(inbox[c], j, Len(inbox[c]))
          PROVE  C!ServerForgets(c, i, j)
      BY <2>2, <2>6, <2>9 DEF C!ServerForgets
    <2>10. CASE q = Null /\ n = 0
      <3>1. inbox'[c] = inbox[c]
        BY <1>0, <2>5, <2>10
      <3> QED
        BY <2>6, <2>7, <2>8, <2>10, <3>1, ConcatEmptySeq
    <2>11. CASE q = Null /\ n > 0
      <3>1. SubSeq(inbox[c], 1, 0) = <<>>
        BY <1>0
      <3>2. Pending'[c] = SubSeq(inbox[c], 1, 0) \o SubSeq(inbox[c], n + 1, Len(inbox[c]))
        BY <2>5, <2>6, <2>11, <3>1
      <3>3. 0 \in 0 .. Len(inbox[c]) - 1 /\ n + 1 \in 0 + 2 .. Len(inbox[c]) + 1
        BY <1>0, <2>11
      <3>4. C!ServerForgets(c, 0, n + 1)
        BY <2>9, <3>2, <3>3
      <3> QED
        BY <2>2, <3>3, <3>4
    <2>12. CASE q # Null
      <3>1. q = Head(inbox[c]) /\ n > 0 /\ Len(inbox[c]) >= 1
        BY <1>0, <2>3, <2>12
      <3>2. Pending'[c] = <<Head(inbox[c])>> \o SubSeq(inbox[c], n + 1, Len(inbox[c]))
        BY <2>5, <2>6, <2>12, <3>1
      <3>3. CASE n = 1
        <4>1. <<Head(inbox[c])>> \o Tail(inbox[c]) = inbox[c]
          BY <1>0, <3>1
        <4>2. SubSeq(inbox[c], 2, Len(inbox[c])) = Tail(inbox[c])
          BY <1>0, <3>1
        <4> QED
          BY <2>8, <3>2, <3>3, <4>1, <4>2
      <3>4. CASE n > 1
        <4>1. SubSeq(inbox[c], 1, 1) = <<Head(inbox[c])>>
          <5>1. inbox[c] # <<>>
            BY <3>1
          <5> QED
            BY <1>0, <5>1, FirstAndRest
        <4>2. 1 \in 0 .. Len(inbox[c]) - 1 /\ n + 1 \in 1 + 2 .. Len(inbox[c]) + 1
          BY <1>0, <3>4
        <4>3. C!ServerForgets(c, 1, n + 1)
          BY <2>9, <3>2, <4>1, <4>2
        <4> QED
          BY <2>2, <4>2, <4>3
      <3> QED
        BY <3>1, <3>3, <3>4
    <2> QED
      BY <2>3, <2>10, <2>11, <2>12
  <1>2. ASSUME goto(c, "reading", Null) \/ goto(c, "deaf", Null), inbox' = inbox
        PROVE  /\ Pending' = [Pending EXCEPT ![c] = inbox[c]] /\ DOMAIN Pending = Connections
               /\ job[c] = Null => Pending' = Pending
    <2>1. Others /\ job'[c] = Null
      BY <1>2 DEF goto, SessionTypes
    <2>2. Pending'[c] = <<>> \o inbox[c]
      BY <1>2, <2>1 DEF Pending
    <2>3. Pending'[c] = inbox[c]
      BY <1>0, <2>2, ConcatEmptySeq
    <2>4. Pending' = [Pending EXCEPT ![c] = inbox[c]] /\ DOMAIN Pending = Connections
      BY <2>1, <2>3, PendingStep
    <2> QED
      BY <2>4, PendingValue DEF Pending
  <1>3. ASSUME NEW l \in ServerLengths, HandlerReplies(c, l)
        PROVE  C!ServerAnswers(c, l)
    <2>1. Head(Pending[c]) = job[c] /\ Tail(Pending[c]) = inbox[c] /\ Pending[c] # <<>>
      BY <1>3, PendingValue DEF HandlerReplies
    <2>2. Pending' = [Pending EXCEPT ![c] = inbox[c]]
      BY <1>2, <1>3 DEF HandlerReplies
    <2> QED
      BY <1>3, <2>1, <2>2 DEF HandlerReplies, C!ServerAnswers
  <1>4. ASSUME WritesPart(c)
        PROVE  torn'[c] /\ MaxGarbled > 0 /\ \E u \in C!Fragments : C!ServerGarbles(c, u)
    <2>1. PICK u \in {C!Piece} \cup {C!Header(tid[q], Null, "fits") : q \in {job[c]} \ {Null}} :
             wire' = [wire EXCEPT ![c] = Append(@, u)]
      BY <1>4 DEF WritesPart
    <2>2. u \in C!Fragments
      <3>1. \A q \in Requests : tid[q] \in C!Ids
        BY DEF P!TypeOK, P!Ids, C!Ids
      <3> QED
        BY <2>1, <3>1 DEF C!Fragments, SessionTypes
    <2>3. Len(wire[c]) + Len(rx[c]) < MaxGarbled /\ MaxGarbled > 0
      <3>1. PICK x \in Nat, w \in Nat : x = Len(rx[c]) /\ w = Len(wire[c])
        BY LoadNat
      <3>2. PICK d \in Nat, n \in Nat, m \in Nat :
               d = Duty(c) /\ n = Cardinality(Writers) /\ m = Cardinality(Requests)
        BY WritersBound, LoadNat
      <3>3. n <= m /\ 2 * m <= MaxGarbled
        BY <3>2, WritersBound DEF BoundSuffices
      <3>4. d >= 2
        BY <1>4, <3>2, LoadNat DEF WritesPart
      <3>5. Stream(c) = x + w
        BY <3>1 DEF Stream
      <3>6. (x + w) + d <= 2 * n
        BY <3>2, <3>5 DEF Loaded
      <3>7. w + x < MaxGarbled /\ MaxGarbled > 0
        BY <3>3, <3>4, <3>6
      <3> QED
        BY <3>1, <3>7
    <2>4. torn'[c]
      BY <1>4 DEF WritesPart, SessionTypes
    <2>5. \/ Pending' = Pending
          \/ Pending[c] # <<>> /\ Pending' = [Pending EXCEPT ![c] = Tail(Pending[c])]
      BY <1>2, <1>4, PendingValue DEF WritesPart
    <2>6. C!ServerGarbles(c, u)
      BY <1>4, <2>1, <2>3, <2>5 DEF WritesPart, C!ServerGarbles
    <2> QED
      BY <2>2, <2>3, <2>4, <2>6
  <1>5. ASSUME HandlerThrows(c)
        PROVE  \/ UNCHANGED C!vars
               \/ \E i \in 0 .. Len(Pending[c]) - 1 :
                     \E j \in i + 2 .. Len(Pending[c]) + 1 : C!ServerForgets(c, i, j)
    <2>1. process = "up" /\ UNCHANGED <<callVars, wire>>
      BY <1>5 DEF HandlerThrows
    <2>2. CASE job[c] = Null
      BY <1>2, <1>5, <2>1, <2>2 DEF HandlerThrows
    <2>3. CASE job[c] # Null
      <3>1. /\ Pending' = [Pending EXCEPT ![c] = Tail(Pending[c])] /\ Pending[c] # <<>>
            /\ Pending[c] \in Seq(Requests) /\ DOMAIN Pending = Connections
        BY <1>2, <1>5, <2>3, PendingValue DEF HandlerThrows
      <3>2. Tail(Pending[c]) = SubSeq(Pending[c], 1, 0) \o SubSeq(Pending[c], 2, Len(Pending[c]))
        BY <3>1, FirstAndRest
      <3>3. C!ServerForgets(c, 0, 2)
        <4>1. Pending' = [Pending EXCEPT ![c] =
                             SubSeq(Pending[c], 1, 0) \o SubSeq(Pending[c], 2, Len(Pending[c]))]
          BY <3>1, <3>2
        <4> QED
          BY <2>1, <4>1 DEF C!ServerForgets
      <3>4. Len(Pending[c]) \in Nat /\ Len(Pending[c]) >= 1
        BY <3>1, FirstAndRest
      <3>5. 0 \in 0 .. Len(Pending[c]) - 1 /\ 2 \in 0 + 2 .. Len(Pending[c]) + 1
        BY <3>4
      <3> QED
        BY <3>3, <3>5
    <2> QED
      BY <2>2, <2>3
  <1> QED
    BY <1>1, <1>3, <1>4, <1>5 DEF SessionStep

(* Every step is one of the client with an arbitrary server. *)
LEMMA RefinementStep ==
  ASSUME P!TypeOK, SessionTypes, Loaded, BoundSuffices, [Next]_vars
  PROVE  [C!Next]_(C!vars)
  <1>1. ASSUME NEW r \in Requests, ClientStep(r) PROVE C!Next
    BY <1>1 DEF ClientStep, ClientAlone, RequestReaches, Connects,
                C!Next, C!Environment, C!RequestStep, C!Acquire
  <1>2. ASSUME set_config PROVE C!Next
    BY <1>2 DEF set_config, C!Next, C!Environment
  <1>3. ASSUME NEW c \in Connections, Arrives(c) \/ Disconnects(c) PROVE C!Next
    BY <1>3 DEF Arrives, Disconnects, C!Next, C!Environment
  <1>4. ASSUME NEW c \in Connections, SessionStep(c) PROVE [C!Next]_(C!vars)
    BY <1>4, SessionRefines DEF C!Next, C!Environment
  <1>5. ASSUME UNCHANGED vars PROVE UNCHANGED C!vars
    <2>1. Pending' = Pending
      BY <1>5 DEF vars, sessionVars, Pending
    <2> QED
      BY <1>5, <2>1 DEF vars, callVars, C!vars, C!clientVars, C!poolVars, C!netVars, C!ghostVars
  <1> QED
    BY <1>1, <1>2, <1>3, <1>4, <1>5 DEF Next

-----------------------------------------------------------------------------
(* The load *)

(* The set of those who have written only grows. *)
LEMMA WritersGrow ==
  ASSUME P!TypeOK, Writers \subseteq Writers'
  PROVE  /\ Cardinality(Writers) \in Nat /\ Cardinality(Writers)' \in Nat
         /\ Cardinality(Writers) <= Cardinality(Writers)'
         /\ \A r \in Writers' \ Writers : Cardinality(Writers) + 1 <= Cardinality(Writers)'
  <1>1. Writers' \subseteq Requests
    BY DEF Writers
  <1>2. IsFiniteSet(Writers') /\ IsFiniteSet(Writers)
    BY <1>1, EndToEndAssumption, FS_Subset
  <1>3. /\ Cardinality(Writers) \in Nat /\ Cardinality(Writers') \in Nat
        /\ Cardinality(Writers) <= Cardinality(Writers')
    BY <1>2, FS_Subset, FS_CardinalityType
  <1>4. ASSUME NEW r \in Writers' \ Writers
        PROVE  Cardinality(Writers) + 1 <= Cardinality(Writers')
    <2>1. IsFiniteSet(Writers \cup {r}) /\ Cardinality(Writers \cup {r}) = Cardinality(Writers) + 1
      BY <1>2, <1>4, FS_AddElement
    <2>2. Writers \cup {r} \subseteq Writers'
      BY <1>4
    <2> QED
      BY <1>2, <2>1, <2>2, FS_Subset
  <1> QED
    BY <1>3, <1>4

(* A step that neither adds a request nor makes more of it than two units. *)
LEMMA LoadKept ==
  ASSUME P!TypeOK, SessionTypes, Loaded, P!TypeOK', SessionTypes', Writers \subseteq Writers',
         NEW c \in Connections,
         NEW x \in Nat, NEW d \in Nat, Stream(c)' <= x, Duty(c)' <= d,
         x + d <= Stream(c) + Duty(c)
  PROVE  Stream(c)' + Duty(c)' <= 2 * Cardinality(Writers)'
  <1>1. PICK n \in Nat, m \in Nat : n = Cardinality(Writers) /\ m = Cardinality(Writers)' /\ n <= m
    BY WritersGrow
  <1>2. PICK s \in Nat, t \in Nat, u \in Nat, v \in Nat :
           s = Stream(c) /\ t = Duty(c) /\ u = Stream(c)' /\ v = Duty(c)'
    BY LoadNat, LoadNatNext
  <1>3. s + t <= 2 * n
    BY <1>1, <1>2 DEF Loaded
  <1>4. u <= x /\ v <= d /\ x + d <= s + t
    BY <1>2
  <1>5. u + v <= 2 * m
    BY <1>1, <1>3, <1>4
  <1> QED
    BY <1>1, <1>2, <1>5

(* Steps of calls and of the network leave the session's share alone. *)
LEMMA StreamShrinks ==
  ASSUME P!TypeOK, SessionTypes, Loaded, P!TypeOK', SessionTypes', Writers \subseteq Writers',
         NEW c \in Connections, Stream(c)' <= Stream(c), Duty(c)' <= Duty(c)
  PROVE  Stream(c)' + Duty(c)' <= 2 * Cardinality(Writers)'
  <1>1. Stream(c) \in Nat /\ Duty(c) \in Nat
    BY LoadNat
  <1> QED
    BY <1>1, LoadKept

LEMMA LoadedStep ==
  ASSUME P!TypeOK, P!Holding, SessionTypes, Loaded, P!TypeOK', SessionTypes', [Next]_vars
  PROVE  Loaded'
  <1> USE DEF vars, callVars, sessionVars
  <1>0. ASSUME UNCHANGED pc PROVE Writers \subseteq Writers'
    BY <1>0 DEF Writers
  <1>1. ASSUME NEW r \in Requests,
               C!create_request(r) \/ C!send_request(r) \/ C!RequestStep(r)
        PROVE  /\ Writers \subseteq Writers'
               /\ \A c \in Connections : Stream(c)' <= Stream(c)
    <2>1. P!create_request(r) \/ P!send_request(r) \/ P!RequestStep(r)
      BY <1>1, SameCalls
    <2>2. pc[r] \in P!Reads \cup P!Ended => pc'[r] \in P!Reads \cup P!Ended
      BY <2>1, EndToEndAssumption, P!Footprint
    <2>3. \A q \in Requests \ {r} : pc'[q] = pc[q]
      BY <2>1, EndToEndAssumption, P!Footprint
    <2>4. \A k \in Connections : Len(rx'[k]) + Len(wire'[k]) <= Len(rx[k]) + Len(wire[k])
      BY <2>1, EndToEndAssumption, P!Footprint
    <2>5. Writers \subseteq Writers'
      BY <2>2, <2>3 DEF Writers
    <2> QED
      BY <2>4, <2>5 DEF Stream
  <1>2. ASSUME NEW c \in Connections, inbox'[c] = inbox[c], begun'[c] = begun[c],
               session'[c] = session[c]
        PROVE  Duty(c)' = Duty(c) /\ Duty(c)' <= Duty(c)
    BY <1>2, LoadNat DEF Duty
  <1>3. ASSUME NEW c \in Connections, inbox'[c] = <<>>, begun'[c] = FALSE,
               session'[c] # "handling"
        PROVE  Duty(c)' = 0 /\ Duty(c)' <= Duty(c)
    <2>1. Len(inbox'[c]) = 0
      BY <1>3
    <2>2. Duty(c)' = 0
      BY <1>3, <2>1 DEF Duty
    <2> QED
      BY <2>2, LoadNat
  <1>4. ASSUME NEW c \in Connections, rx'[c] = rx[c], wire'[c] = wire[c]
        PROVE  Stream(c)' = Stream(c) /\ Stream(c)' <= Stream(c)
    BY <1>4, LoadNat DEF Stream
  <1>5. ASSUME NEW r \in Requests, ClientAlone(r) PROVE Loaded'
    <2>1. /\ C!create_request(r) \/ C!send_request(r) \/ C!RequestStep(r)
          /\ UNCHANGED sessionVars
      BY <1>5 DEF ClientAlone
    <2>2. \A c \in Connections : Duty(c)' <= Duty(c)
      BY <1>2, <2>1
    <2> QED
      BY <1>1, <2>1, <2>2, StreamShrinks DEF Loaded
  <1>6. ASSUME NEW r \in Requests, RequestReaches(r) PROVE Loaded'
    <2>0. PICK c \in Connections : c = connection[r]
      BY <1>6 DEF RequestReaches, P!TypeOK, P!Holding, P!InFlight
    <2>1. /\ C!RequestStep(r) /\ pc[r] = "writing"
          /\ inbox' = [inbox EXCEPT ![c] = Append(inbox[c], r)]
          /\ UNCHANGED <<session, begun>>
      BY <1>6, <2>0 DEF RequestReaches, C!RequestStep
    <2>2. r \in Writers' \ Writers
      BY <1>6, <2>1 DEF RequestReaches, C!WriteDone, C!WriteTimesOut, C!Return, C!Leave, C!goto,
                        Writers, P!Reads, P!Ended, P!TypeOK
    <2>3. Writers \subseteq Writers' /\ \A d \in Connections : Stream(d)' <= Stream(d)
      BY <1>1, <2>1
    <2>4. ASSUME NEW d \in Connections, d # c
          PROVE  Stream(d)' + Duty(d)' <= 2 * Cardinality(Writers)'
      <3>1. Duty(d)' <= Duty(d)
        BY <1>2, <2>1, <2>4 DEF SessionTypes
      <3> QED
        BY <2>3, <3>1, StreamShrinks
    <2>5. Stream(c)' + Duty(c)' <= 2 * Cardinality(Writers)'
      <3>1. PICK n \in Nat, m \in Nat :
               n = Cardinality(Writers) /\ m = Cardinality(Writers)' /\ n + 1 <= m
        BY <2>2, <2>3, WritersGrow
      <3>2. PICK s \in Nat, t \in Nat, u \in Nat, v \in Nat :
               s = Stream(c) /\ t = Duty(c) /\ u = Stream(c)' /\ v = Duty(c)'
        BY LoadNat, LoadNatNext
      <3>3. s + t <= 2 * n /\ u <= s
        BY <2>3, <3>1, <3>2 DEF Loaded
      <3>4. v = t + 2
        <4>1. Len(inbox'[c]) = Len(inbox[c]) + 1
          BY <2>1 DEF SessionTypes
        <4>2. PICK i \in Nat : i = Len(inbox[c])
          BY LoadNat
        <4>3. PICK b \in {0, 2}, h \in {0, 2} :
                 /\ b = (IF begun[c] THEN 2 ELSE 0)
                 /\ h = (IF session[c] = "handling" THEN 2 ELSE 0)
          OBVIOUS
        <4>4. t = 2 * i + b + h
          BY <3>2, <4>2, <4>3 DEF Duty
        <4>5. v = 2 * (i + 1) + b + h
          BY <2>1, <3>2, <4>1, <4>2, <4>3 DEF Duty
        <4> QED
          BY <4>4, <4>5
      <3>5. u + v <= 2 * m
        BY <3>1, <3>3, <3>4
      <3> QED
        BY <3>1, <3>2, <3>5
    <2> QED
      BY <2>4, <2>5 DEF Loaded
  <1>7. ASSUME NEW r \in Requests, NEW c \in Connections, Connects(r, c) PROVE Loaded'
    <2>1. C!RequestStep(r)
      BY <1>7 DEF Connects, C!RequestStep, C!Acquire
    <2>2. \A d \in Connections : d # c => Duty(d)' <= Duty(d)
      BY <1>2, <1>7 DEF Connects, SessionTypes
    <2>3. Duty(c)' <= Duty(c)
      <3>1. inbox'[c] = <<>> /\ begun'[c] = FALSE /\ session'[c] # "handling"
        BY <1>7 DEF Connects, SessionTypes
      <3> QED
        BY <1>3, <3>1
    <2> QED
      BY <1>1, <2>1, <2>2, <2>3, StreamShrinks DEF Loaded
  <1>8. ASSUME set_config PROVE Loaded'
    <2>1. Writers \subseteq Writers'
      BY <1>8 DEF set_config, C!set_config, Writers, P!Reads, P!Ended
    <2>2. \A c \in Connections : Duty(c)' <= Duty(c)
      BY <1>3, <1>8 DEF set_config
    <2>3. ASSUME NEW c \in Connections PROVE Stream(c)' <= Stream(c)
      <3>1. rx'[c] = <<>> /\ wire'[c] = <<>>
        BY <1>8 DEF set_config, C!set_config
      <3>2. Stream(c)' = 0
        BY <3>1 DEF Stream
      <3> QED
        BY <3>2, LoadNat
    <2> QED
      BY <2>1, <2>2, <2>3, StreamShrinks DEF Loaded
  <1>9. ASSUME NEW c \in Connections, Arrives(c) PROVE Loaded'
    <2>1. /\ UNCHANGED <<pc, session, begun, inbox>> /\ wire[c] # <<>>
          /\ rx' = [rx EXCEPT ![c] = Append(rx[c], Head(wire[c]))]
          /\ wire' = [wire EXCEPT ![c] = Tail(wire[c])]
      BY <1>9 DEF Arrives, C!Arrives, C!clientVars
    <2>2. \A d \in Connections : Duty(d)' <= Duty(d)
      BY <1>2, <2>1
    <2>3. \A d \in Connections : d # c => Stream(d)' <= Stream(d)
      BY <1>4, <2>1 DEF P!TypeOK
    <2>4. Stream(c)' <= Stream(c)
      <3>1. rx[c] \in Seq(P!Units) /\ wire[c] \in Seq(P!Units) /\ Head(wire[c]) \in P!Units
        BY <2>1 DEF P!TypeOK
      <3>2. Len(Append(rx[c], Head(wire[c]))) = Len(rx[c]) + 1
        BY <3>1
      <3>3. Len(Tail(wire[c])) = Len(wire[c]) - 1
        BY <2>1, <3>1
      <3>4. rx'[c] = Append(rx[c], Head(wire[c])) /\ wire'[c] = Tail(wire[c])
        BY <2>1 DEF P!TypeOK
      <3>5. PICK x \in Nat, w \in Nat : x = Len(rx[c]) /\ w = Len(wire[c])
        BY LoadNat
      <3>6. Stream(c)' = (x + 1) + (w - 1) /\ Stream(c) = x + w
        BY <3>2, <3>3, <3>4, <3>5 DEF Stream
      <3> QED
        BY <3>6
    <2> QED
      BY <1>0, <2>1, <2>2, <2>3, <2>4, StreamShrinks DEF Loaded
  <1>10. ASSUME NEW c \in Connections, Disconnects(c) PROVE Loaded'
    <2>1. /\ UNCHANGED <<pc, rx>> /\ wire' = [wire EXCEPT ![c] = <<>>]
      BY <1>10 DEF Disconnects, C!Disconnects, C!clientVars
    <2>2. \A d \in Connections : d # c => Duty(d)' <= Duty(d)
      BY <1>2, <1>10 DEF Disconnects, SessionTypes
    <2>3. Duty(c)' <= Duty(c)
      BY <1>3, <1>10 DEF Disconnects, SessionTypes
    <2>4. \A d \in Connections : d # c => Stream(d)' <= Stream(d)
      BY <1>4, <2>1 DEF P!TypeOK
    <2>5. Stream(c)' <= Stream(c)
      <3>1. PICK x \in Nat, w \in Nat : x = Len(rx[c]) /\ w = Len(wire[c])
        BY LoadNat
      <3>2. wire'[c] = <<>> /\ Len(<<>>) = 0
        BY <2>1 DEF P!TypeOK
      <3>3. Stream(c)' = x + 0 /\ Stream(c) = x + w
        BY <2>1, <3>1, <3>2 DEF Stream
      <3> QED
        BY <3>3
    <2> QED
      BY <1>0, <2>1, <2>2, <2>3, <2>4, <2>5, StreamShrinks DEF Loaded
  <1>11. ASSUME NEW c \in Connections, SessionStep(c) PROVE Loaded'
    <2>1. UNCHANGED <<pc, rx>> /\ Writers \subseteq Writers'
      BY <1>0, <1>11 DEF SessionStep, SessionReads, HandlerReplies, WritesPart, HandlerThrows
    <2>2. ASSUME NEW d \in Connections, d # c
          PROVE  Stream(d)' + Duty(d)' <= 2 * Cardinality(Writers)'
      <3>1. /\ inbox'[d] = inbox[d] /\ begun'[d] = begun[d]
            /\ session'[d] = session[d] /\ wire'[d] = wire[d]
        BY <1>11, <2>2, SMTT(40)
           DEF SessionStep, SessionReads, Takes, Understood, HandlerReplies,
               WritesPart, HandlerThrows, goto, SessionTypes, P!TypeOK
      <3>2. Stream(d)' <= Stream(d) /\ Duty(d)' <= Duty(d)
        BY <1>2, <1>4, <2>1, <3>1
      <3> QED
        BY <2>1, <3>2, StreamShrinks
    <2>3. PICK x \in Nat, w \in Nat, i \in Nat :
             x = Len(rx[c]) /\ w = Len(wire[c]) /\ i = Len(inbox[c])
      BY LoadNat
    <2>4. Stream(c) = x + w
      BY <2>3 DEF Stream
    <2>5. CASE SessionReads(c)
      <3>1. PICK n \in 0 .. Len(inbox[c]), cut \in BOOLEAN :
               Takes(c, n, cut) /\ Understood(c, n, cut)
        BY <2>5 DEF SessionReads
      <3>2. session[c] = "reading" /\ wire' = wire
        BY <2>5 DEF SessionReads
      <3>3. Stream(c)' <= Stream(c)
        BY <1>4, <2>1, <3>2
      <3>4. PICK a \in {0, 2}, b \in {0, 2}, h \in {0, 2} :
               /\ a = (IF begun[c] THEN 2 ELSE 0)
               /\ b = (IF begun'[c] THEN 2 ELSE 0)
               /\ h = (IF session'[c] = "handling" THEN 2 ELSE 0)
        OBVIOUS
      <3>5. Duty(c) = 2 * i + a + 0
        BY <2>3, <3>2, <3>4 DEF Duty
      <3>6. Len(inbox'[c]) = i - n
        <4>1. inbox'[c] = SubSeq(inbox[c], n + 1, Len(inbox[c])) /\ inbox[c] \in Seq(Requests)
          BY <3>1 DEF Takes, SessionTypes
        <4>2. Len(SubSeq(inbox[c], n + 1, Len(inbox[c]))) = Len(inbox[c]) - n
          BY <4>1
        <4> QED
          BY <2>3, <4>1, <4>2
      <3>7. Duty(c)' = 2 * (i - n) + b + h
        BY <3>4, <3>6 DEF Duty
      <3>8. /\ n > 0 \/ begun[c]
            /\ begun'[c] = cut /\ (cut => n > 0)
            /\ session'[c] = "handling" => begun[c] \/ ~cut \/ n > 1
        <4>1. session'[c] = "handling" => begun[c] \/ ~cut \/ n > 1
          BY <3>1 DEF Understood, goto, SessionTypes
        <4> QED
          BY <3>1, <4>1 DEF Takes, SessionTypes
      <3>9. b + h <= 2 * n + a
        BY <3>4, <3>8
      <3>10. Duty(c)' <= Duty(c)
        <4>1. PICK m \in 0 .. i : m = n
          BY <2>3
        <4>2. Duty(c)' = 2 * (i - m) + b + h /\ b + h <= 2 * m + a
          BY <3>7, <3>9, <4>1
        <4> QED
          BY <3>5, <4>2
      <3>11. Stream(c)' + Duty(c)' <= 2 * Cardinality(Writers)'
        BY <2>1, <3>3, <3>10, StreamShrinks
      <3> QED
        BY <2>2, <3>11 DEF Loaded
    <2>6. ASSUME session[c] = "handling", session'[c] # "handling",
                 inbox'[c] = inbox[c], begun'[c] = begun[c],
                 NEW k \in 0 .. 2, Len(wire'[c]) <= w + k, Len(wire'[c]) \in Nat
          PROVE  Loaded'
      <3>1. PICK v \in Nat : v = Len(wire'[c]) /\ v <= w + k
        BY <2>6
      <3>2. Stream(c)' = x + v
        BY <2>1, <2>3, <3>1 DEF Stream
      <3>3. PICK b \in {0, 2} : b = (IF begun[c] THEN 2 ELSE 0)
        OBVIOUS
      <3>4. Duty(c) = 2 * i + b + 2 /\ Duty(c)' = 2 * i + b + 0
        BY <2>3, <2>6, <3>3 DEF Duty
      <3>5. /\ Stream(c)' <= x + w + k /\ Duty(c)' <= 2 * i + b
            /\ x + w + k + (2 * i + b) <= Stream(c) + Duty(c)
            /\ x + w + k \in Nat /\ 2 * i + b \in Nat
        BY <2>4, <3>1, <3>2, <3>4
      <3>6. Stream(c)' + Duty(c)' <= 2 * Cardinality(Writers)'
        BY <2>1, <3>5, LoadKept
      <3> QED
        BY <2>2, <3>6 DEF Loaded
    <2>7. wire[c] \in Seq(P!Units) /\ wire'[c] \in Seq(P!Units) /\ Len(wire'[c]) \in Nat
      BY DEF P!TypeOK
    <2>8. ASSUME NEW l \in ServerLengths, HandlerReplies(c, l) PROVE Loaded'
      <3>1. /\ session[c] = "handling" /\ session'[c] # "handling" /\ inbox' = inbox
            /\ begun' = begun /\ wire'[c] = wire[c] \o C!Answers(job[c], l)
        BY <2>8 DEF HandlerReplies, goto, SessionTypes, P!TypeOK
      <3>2. PICK h \in P!Units : C!Answers(job[c], l) \in {<<h>>, <<h, P!Piece>>}
        <4>1. job[c] \in Requests /\ l \in {"fits", "over", "zero"} /\ tid[job[c]] \in P!Ids
          BY <2>8, EndToEndAssumption DEF HandlerReplies, SessionTypes, P!TypeOK
        <4>2. P!Header(tid[job[c]], job[c], l) \in P!Units
          BY <4>1 DEF P!Header, P!Units
        <4> QED
          BY <4>2, SameUnits DEF P!Answers
      <3>3. Len(wire'[c]) <= w + 2
        <4>1. P!Piece \in P!Units
          BY EndToEndAssumption, P!UnitTypes
        <4>2. /\ <<h>> \in Seq(P!Units) /\ <<h, P!Piece>> \in Seq(P!Units)
              /\ Len(<<h>>) = 1 /\ Len(<<h, P!Piece>>) = 2
          BY <4>1
        <4>3. /\ Len(wire[c] \o <<h>>) = Len(wire[c]) + 1
              /\ Len(wire[c] \o <<h, P!Piece>>) = Len(wire[c]) + 2
          BY <2>7, <4>2, ConcatProperties
        <4>4. Len(wire'[c]) = w + 1 \/ Len(wire'[c]) = w + 2
          BY <2>3, <3>1, <3>2, <4>3
        <4> QED
          BY <4>4
      <3>4. inbox'[c] = inbox[c] /\ begun'[c] = begun[c] /\ 2 \in 0 .. 2
        BY <3>1
      <3> QED
        BY <2>6, <2>7, <3>1, <3>3, <3>4
    <2>9. CASE WritesPart(c)
      <3>1. PICK u \in C!Fragments : wire'[c] = Append(wire[c], u)
        <4>1. \A q \in Requests : tid[q] \in C!Ids
          BY DEF P!TypeOK, P!Ids, C!Ids
        <4> QED
          BY <2>9, <4>1, SMTT(40) DEF WritesPart, P!TypeOK, C!Fragments, SessionTypes
      <3>2. Len(wire'[c]) <= w + 1
        <4>1. Len(Append(wire[c], u)) = Len(wire[c]) + 1
          <5>1. u \in P!Units
            BY EndToEndAssumption, SameUnits, P!FragmentUnits
          <5> QED
            BY <2>7, <5>1
        <4>2. Len(wire'[c]) = w + 1
          BY <2>3, <3>1, <4>1
        <4> QED
          BY <4>2
      <3>3. /\ session[c] = "handling" /\ session'[c] # "handling" /\ inbox' = inbox
            /\ begun' = begun
        BY <2>9 DEF WritesPart, goto, SessionTypes
      <3> QED
        BY <2>6, <2>7, <3>2, <3>3
    <2>10. CASE HandlerThrows(c)
      <3>1. /\ session[c] = "handling" /\ session'[c] # "handling" /\ inbox' = inbox
            /\ begun' = begun /\ wire' = wire
        BY <2>10 DEF HandlerThrows, goto, SessionTypes
      <3>2. Len(wire'[c]) = w
        BY <2>3, <3>1
      <3>3. Len(wire'[c]) <= w + 0
        BY <3>2
      <3> QED
        BY <2>6, <2>7, <3>1, <3>3
    <2> QED
      BY <1>11, <2>5, <2>8, <2>9, <2>10 DEF SessionStep
  <1>12. ASSUME UNCHANGED vars PROVE Loaded'
    BY <1>12 DEF Loaded, Stream, Duty, Writers
  <1> QED
    BY <1>5, <1>6, <1>7, <1>8, <1>9, <1>10, <1>11, <1>12 DEF Next, ClientStep

-----------------------------------------------------------------------------
(* Client and server together *)

Together == P!TypeOK /\ P!Holding /\ SessionTypes /\ Loaded

LEMMA TogetherInit == Init => C!Init /\ Together
  <1> SUFFICES ASSUME Init PROVE Together
    BY DEF Init
  <1>1. P!TypeOK /\ P!Holding
    <2>1. P!Init
      BY SameInit DEF Init
    <2> QED
      BY <2>1, EndToEndAssumption, P!TypeInit
  <1>2. SessionTypes
    BY DEF Init, SessionTypes
  <1>3. ASSUME NEW c \in Connections PROVE Stream(c) + Duty(c) <= 2 * Cardinality(Writers)
    <2>1. rx[c] = <<>> /\ wire[c] = <<>> /\ inbox[c] = <<>> /\ ~begun[c] /\ session[c] = "none"
      BY DEF Init, C!Init
    <2>2. Stream(c) = 0 /\ Duty(c) = 0
      BY <2>1 DEF Stream, Duty
    <2> QED
      BY <2>2, WritersBound
  <1> QED
    BY <1>1, <1>2, <1>3 DEF Together, Loaded

LEMMA TogetherStep ==
  ASSUME BoundSuffices, Together, [Next]_vars
  PROVE  Together' /\ [C!Next]_(C!vars) /\ [P!Next]_(P!vars)
  <1>1. [C!Next]_(C!vars)
    BY RefinementStep DEF Together
  <1>2. [P!Next]_(P!vars)
    <2>1. CASE C!Next
      BY <2>1, SameNext
    <2>2. CASE UNCHANGED C!vars
      BY <2>2 DEF C!vars, P!vars, C!clientVars, P!clientVars, C!poolVars, P!poolVars,
                  C!netVars, P!netVars, C!ghostVars, P!ghostVars
    <2> QED
      BY <1>1, <2>1, <2>2
  <1>3. P!TypeOK' /\ P!Holding'
    BY <1>2, EndToEndAssumption, P!TypeStep DEF Together
  <1>4. SessionTypes'
    BY SessionTypesStep DEF Together
  <1>5. Loaded'
    BY <1>3, <1>4, LoadedStep DEF Together
  <1> QED
    BY <1>1, <1>2, <1>3, <1>4, <1>5 DEF Together

LEMMA TogetherInvariant ==
  ASSUME BoundSuffices
  PROVE  Spec => []Together
  <1>1. Together /\ [Next]_vars => Together'
    BY TogetherStep
  <1> QED
    BY <1>1, TogetherInit, PTL DEF Spec

(* A tcp_session at the other end of every connection (reads that split or *)
(* join requests, answers written in part, exceptions, connections nobody  *)
(* serves) is a server TcpClient allows, whatever the requests, calls and  *)
(* connections: what is proved of the client holds with this server.       *)
THEOREM SessionIsAServer == BoundSuffices => (Spec => ImplementsClient)
  <1> SUFFICES ASSUME BoundSuffices PROVE Spec => ImplementsClient
    OBVIOUS
  <1>1. Together /\ [Next]_vars => [C!Next]_(C!vars)
    BY TogetherStep
  <1> QED
    BY <1>1, TogetherInit, TogetherInvariant, PTL DEF Spec, ImplementsClient, C!Spec

-----------------------------------------------------------------------------
(* Connections on which no message is torn *)

(* What holds of the session, and what is proved of the client. *)
Known == Together /\ P!Exclusive /\ P!Origin /\ P!Book

LEMMA KnownInvariant ==
  ASSUME BoundSuffices
  PROVE  Spec => []Known
  <1>1. Init => P!Init
    BY SameInit DEF Init
  <1>2. Together /\ [Next]_vars => [P!Next]_(P!vars)
    BY TogetherStep
  <1>3. Spec => P!Spec
    BY <1>1, <1>2, TogetherInvariant, PTL DEF Spec, P!Spec
  <1>4. P!Spec => [](P!TypeOK /\ P!Holding /\ P!Exclusive /\ P!Origin /\ P!Book)
    BY EndToEndAssumption, P!BookInvariant
  <1> QED
    BY <1>3, <1>4, TogetherInvariant, PTL DEF Known

(* Until a read or a write ends inside a message, the session is never in  *)
(* the middle of a request, handles only what was sent, and leaves the     *)
(* stream of answers as its reader expects it.                             *)
Whole(c) ==
    ~torn[c] =>
        /\ ~begun[c]
        /\ session[c] = "handling" => job[c] # Null
        /\ process = "up" => P!Aligned(c)

(* Where nothing is torn the server has written no fragment. *)
LEMMA NothingTornIntact ==
  ASSUME Together, BoundSuffices, [Next]_vars, NEW k \in Connections, ~torn'[k]
  PROVE  UNCHANGED P!vars \/ P!Intact(k)
  <1>0. P!TypeOK /\ SessionTypes /\ Loaded
    BY DEF Together
  <1>1. ASSUME NEW r \in Requests, ClientStep(r) PROVE P!Intact(k)
    <2>1. C!create_request(r) \/ C!send_request(r) \/ C!RequestStep(r)
      BY <1>1 DEF ClientStep, ClientAlone, RequestReaches, Connects, C!RequestStep, C!Acquire
    <2> QED
      BY <2>1, SameCalls DEF P!Intact
  <1>2. ASSUME set_config PROVE P!Intact(k)
    BY <1>2, SameServer DEF set_config, P!Intact
  <1>3. ASSUME NEW c \in Connections, Arrives(c) \/ Disconnects(c) PROVE P!Intact(k)
    BY <1>3, SameServer DEF Arrives, Disconnects, P!Intact
  <1>4. ASSUME NEW c \in Connections, SessionStep(c) PROVE UNCHANGED P!vars \/ P!Intact(k)
    <2>1. CASE UNCHANGED C!vars
      BY <2>1 DEF C!vars, P!vars, C!clientVars, P!clientVars, C!poolVars, P!poolVars,
                  C!netVars, P!netVars, C!ghostVars, P!ghostVars
    <2>2. CASE \/ \E l \in ServerLengths : C!ServerAnswers(c, l)
               \/ \E i \in 0 .. Len(Pending[c]) - 1 :
                     \E j \in i + 2 .. Len(Pending[c]) + 1 : C!ServerForgets(c, i, j)
      BY <2>2, SameServer DEF P!Intact
    <2>3. CASE torn'[c] /\ \E u \in C!Fragments : C!ServerGarbles(c, u)
      <3>1. c # k /\ \E u \in P!Fragments : P!ServerGarbles(c, u)
        BY <2>3, SameServer, SameUnits
      <3> QED
        BY <3>1 DEF P!Intact
    <2> QED
      BY <1>0, <1>4, <2>1, <2>2, <2>3, SessionRefines
  <1>5. ASSUME UNCHANGED vars PROVE UNCHANGED P!vars
    <2>1. Pending' = Pending
      BY <1>5 DEF vars, sessionVars, Pending
    <2> QED
      BY <1>5, <2>1 DEF vars, callVars, P!vars, P!clientVars, P!poolVars, P!netVars, P!ghostVars
  <1> QED
    BY <1>1, <1>2, <1>3, <1>4, <1>5 DEF Next

(* A connection made anew is aligned. *)
LEMMA FreshAligned ==
  ASSUME NEW k \in Connections, users'[k] = {}, rx'[k] = <<>>, wire'[k] = <<>>, Pending'[k] = <<>>
  PROVE  P!Aligned(k)'
  BY DEF P!Aligned, P!Quiet

LEMMA PendingEmpty ==
  ASSUME NEW k \in Connections, inbox'[k] = <<>>, job'[k] = Null
  PROVE  Pending'[k] = <<>>
  <1>1. Pending'[k] = <<>> \o <<>>
    BY DEF Pending
  <1>2. <<>> \o <<>> = <<>>
    OBVIOUS
  <1> QED
    BY <1>1, <1>2

(* Aligned connections stay so. *)
LEMMA WholeAligned ==
  ASSUME BoundSuffices, Known, [Next]_vars, NEW k \in Connections, Whole(k), ~torn'[k],
         process' = "up"
  PROVE  P!Aligned(k)'
  <1>0. /\ P!TypeOK /\ P!Holding /\ SessionTypes /\ P!Exclusive /\ P!Origin /\ P!Book
        /\ Together
    BY DEF Known, Together
  <1>1. CASE ~torn[k]
    <2>1. CASE UNCHANGED P!vars
      <3>1. process = "up" /\ P!Aligned(k)
        BY <1>1, <2>1 DEF P!vars, P!poolVars, Whole
      <3> QED
        BY <2>1, <3>1 DEF P!Aligned, P!Unspoilt, P!Clean, P!Quiet, P!AtHeader, P!AtBody, P!Own,
                          P!Header, P!Piece, P!vars, P!clientVars, P!netVars, P!ghostVars
    <2>2. CASE P!Intact(k)
      <3>1. process = "up"
        BY <2>2
        DEF P!Intact, P!create_request, P!send_request, P!set_config, P!RequestStep,
            P!PoolStopped, P!Acquire, P!GetConnection, P!GetDeadConnection, P!ClearFails,
            P!ClearRead, P!WriteDone, P!WriteFails, P!WriteTimesOut, P!ReadHeader, P!ReadBody,
            P!ReadEmpty, P!ReadFails, P!ReadTimesOut, P!ServerAnswers, P!ServerForgets,
            P!ServerGarbles, P!Arrives, P!Disconnects
      <3>2. P!Aligned(k)
        BY <1>1, <3>1 DEF Whole
      <3> QED
        BY <1>0, <2>2, <3>1, <3>2, EndToEndAssumption, P!AlignedStep
    <2> QED
      BY <1>0, <2>1, <2>2, NothingTornIntact
  <1>2. CASE torn[k]
    <2>1. CASE \E r \in Requests, c \in Connections : Connects(r, c)
      <3>1. PICK r \in Requests, c \in Connections : Connects(r, c)
        BY <2>1
      <3>2. c = k
        BY <1>0, <1>2, <3>1 DEF Connects, SessionTypes
      <3>3. inbox'[k] = <<>> /\ job'[k] = Null
        BY <1>0, <3>1, <3>2 DEF Connects, SessionTypes
      <3>4. users'[k] = {} /\ rx'[k] = <<>> /\ wire'[k] = <<>>
        BY <1>0, <3>1, <3>2 DEF Connects, C!GetConnection, C!Reconnected, C!netVars, P!TypeOK
      <3> QED
        BY <3>3, <3>4, PendingEmpty, FreshAligned
    <2>2. CASE set_config
      BY <2>2, PendingEmpty, FreshAligned DEF set_config, C!set_config
    <2>3. ASSUME ~(\E r \in Requests, c \in Connections : Connects(r, c)), ~set_config
          PROVE  torn'[k]
      BY <1>0, <1>2, <2>3
      DEF Next, vars, ClientStep, ClientAlone, RequestReaches, Disconnects, Arrives, SessionStep,
          SessionReads, Takes, HandlerReplies, WritesPart, HandlerThrows, sessionVars, SessionTypes
    <2> QED
      BY <2>1, <2>2, <2>3
  <1> QED
    BY <1>1, <1>2

LEMMA WholeStep ==
  ASSUME BoundSuffices, Known, \A c \in Connections : Whole(c), [Next]_vars,
         NEW k \in Connections
  PROVE  Whole(k)'
  <1>0. SessionTypes /\ SessionTypes'
    BY TogetherStep DEF Known, Together
  <1> SUFFICES ASSUME ~torn'[k]
               PROVE  ~begun'[k] /\ (session'[k] = "handling" => job'[k] # Null)
    BY WholeAligned DEF Whole
  <1>1. ~torn[k] => ~begun[k] /\ (session[k] = "handling" => job[k] # Null)
    BY DEF Whole
  <1>2. ASSUME NEW r \in Requests, ClientAlone(r) \/ RequestReaches(r)
        PROVE  UNCHANGED <<session, begun, job, torn>>
    BY <1>2 DEF ClientAlone, RequestReaches, sessionVars
  <1>3. ASSUME NEW r \in Requests, NEW c \in Connections, Connects(r, c)
        PROVE  ~begun'[k] /\ (session'[k] = "handling" => job'[k] # Null)
    BY <1>0, <1>1, <1>3 DEF Connects, SessionTypes
  <1>4. ASSUME set_config
        PROVE  ~begun'[k] /\ (session'[k] = "handling" => job'[k] # Null)
    BY <1>4 DEF set_config
  <1>5. ASSUME NEW c \in Connections, Disconnects(c)
        PROVE  ~begun'[k] /\ (session'[k] = "handling" => job'[k] # Null)
    BY <1>0, <1>1, <1>5 DEF Disconnects, SessionTypes
  <1>6. ASSUME NEW c \in Connections, SessionStep(c)
        PROVE  ~begun'[k] /\ (session'[k] = "handling" => job'[k] # Null)
    <2>1. CASE c # k
      <3>1. /\ session'[k] = session[k] /\ job'[k] = job[k]
            /\ begun'[k] = begun[k] /\ torn'[k] = torn[k]
        BY <1>0, <1>6, <2>1
        DEF SessionStep, SessionReads, Takes, Understood, HandlerReplies, WritesPart,
            HandlerThrows, goto, SessionTypes
      <3> QED
        BY <1>1, <3>1
    <2>2. CASE c = k /\ SessionReads(c)
      <3>1. PICK n \in 0 .. Len(inbox[k]), cut \in BOOLEAN :
               Takes(k, n, cut) /\ Understood(k, n, cut)
        BY <2>2 DEF SessionReads
      <3>2. ~torn[k] /\ ~cut /\ begun'[k] = cut
        BY <1>0, <3>1 DEF Takes, SessionTypes
      <3>3. ~begun[k]
        BY <1>1, <3>2
      <3>4. goto(k, "handling", Head(inbox[k]))
        BY <3>1, <3>2, <3>3 DEF Understood
      <3>5. Head(inbox[k]) \in Requests
        <4>1. inbox[k] \in Seq(Requests) /\ Len(inbox[k]) \in Nat /\ n > 0
          BY <1>0, <3>1, <3>3 DEF Takes, SessionTypes
        <4> QED
          BY <4>1
      <3>6. job'[k] = Head(inbox[k])
        BY <1>0, <3>4 DEF goto, SessionTypes
      <3> QED
        BY <3>2, <3>5, <3>6, EndToEndAssumption
    <2>3. CASE c = k /\ ~SessionReads(c)
      <3>1. session'[k] # "handling" /\ begun' = begun
        BY <1>0, <1>6, <2>3
        DEF SessionStep, HandlerReplies, WritesPart, HandlerThrows, goto, SessionTypes
      <3>2. torn'[k] = torn[k] \/ torn'[k]
        BY <1>0, <1>6, <2>3
        DEF SessionStep, HandlerReplies, WritesPart, HandlerThrows, SessionTypes
      <3> QED
        BY <1>1, <3>1, <3>2
    <2> QED
      BY <2>1, <2>2, <2>3
  <1>7. ASSUME NEW c \in Connections, Arrives(c) PROVE UNCHANGED <<session, begun, job, torn>>
    BY <1>7 DEF Arrives, sessionVars
  <1>8. ASSUME UNCHANGED vars PROVE UNCHANGED <<session, begun, job, torn>>
    BY <1>8 DEF vars, sessionVars
  <1> QED
    BY <1>1, <1>2, <1>3, <1>4, <1>5, <1>6, <1>7, <1>8 DEF Next, ClientStep

LEMMA WholeInvariant ==
  ASSUME BoundSuffices
  PROVE  Spec => [](Known /\ \A c \in Connections : Whole(c))
  <1>1. Init => \A c \in Connections : Whole(c)
    BY DEF Init, Whole, C!Init, P!Aligned, P!Quiet, Pending
  <1>2. Known /\ (\A c \in Connections : Whole(c)) /\ [Next]_vars
           => (\A c \in Connections : Whole(c))'
    BY WholeStep
  <1> QED
    BY <1>1, <1>2, KnownInvariant, PTL DEF Spec

(* On a healthy connection a call that succeeds returns the handler's      *)
(* answer to its own request.                                              *)
THEOREM OwnAnswerWhenHealthy == BoundSuffices => (Spec => HealthyOwnAnswer)
  <1> SUFFICES ASSUME BoundSuffices PROVE Spec => HealthyOwnAnswer
    OBVIOUS
  <1>1. ASSUME Known, \A c \in Connections : Whole(c), [Next]_vars, NEW r \in Requests,
               result[r] = "none", result'[r] = "success", Healthy(r)
        PROVE  response'[r].of = r
    <2>0. /\ P!TypeOK /\ P!Holding /\ P!Exclusive /\ P!Origin /\ P!Book /\ [P!Next]_(P!vars)
      BY <1>1, TogetherStep DEF Known, Together
    <2>1. pc[r] = "readBody" /\ process = "up" /\ response'[r] = response[r]
      BY <1>1, <2>0, EndToEndAssumption, P!Outcome
    <2>2. connection[r] \in Connections /\ ~torn[connection[r]]
      BY <1>1, <2>0 DEF P!TypeOK, Healthy
    <2>3. P!Aligned(connection[r])
      BY <1>1, <2>1, <2>2 DEF Whole
    <2>4. \A q \in earlier[r] : P!Clean(q)
      BY <1>1, SameUnits DEF Healthy
    <2>5. response[r].of = r
      BY <2>0, <2>1, <2>3, <2>4, EndToEndAssumption, P!OwnBody
    <2> QED
      BY <2>1, <2>5
  <1>2. Known /\ (\A c \in Connections : Whole(c)) /\ [Next]_vars =>
           [\A r \in Requests :
               result[r] = "none" /\ result'[r] = "success" /\ Healthy(r)
               => response'[r].of = r]_vars
    BY <1>1
  <1> QED
    BY <1>2, WholeInvariant, PTL DEF Spec, HealthyOwnAnswer

-----------------------------------------------------------------------------
(* Where the request of a waiting call is *)

(* With the server, or answered and the whole answer under way. *)
InOnePlace(q, c) ==
    \/ Pending[c] = <<q>> /\ rx[c] \o wire[c] = <<>>
    \/ /\ Pending[c] = <<>>
       /\ \E l \in ServerLengths : rx[c] \o wire[c] = C!Answers(q, l)

(* HealthyInOnePlace in terms of the connection. *)
Served(c) ==
    session[c] \in {"reading", "handling"} /\ ~torn[c] /\ P!Unspoilt(c) =>
        \A q \in users[c] :
            connection[q] = c /\ pc[q] = "readHeader" => InOnePlace(q, c)

(* After a use of a destroyed object nobody is left to serve. *)
Stopped == process # "up" => \A c \in Connections : session[c] = "none"

LEMMA StoppedStep ==
  ASSUME P!TypeOK, P!Holding, Stopped, [Next]_vars
  PROVE  Stopped'
  <1>1. ASSUME NEW r \in Requests, ClientStep(r) PROVE process = "up" /\ process' = "up"
    <2>1. C!create_request(r) \/ C!send_request(r) \/ C!RequestStep(r)
      BY <1>1 DEF ClientStep, ClientAlone, RequestReaches, Connects, C!RequestStep, C!Acquire
    <2> QED
      BY <2>1, SameCalls, EndToEndAssumption, P!Footprint
  <1>2. ASSUME set_config PROVE Stopped'
    BY <1>2 DEF set_config, Stopped
  <1>3. ASSUME NEW c \in Connections, SessionStep(c) \/ Arrives(c) \/ Disconnects(c)
        PROVE  process = "up" /\ process' = "up"
    BY <1>3 DEF SessionStep, SessionReads, HandlerReplies, WritesPart, HandlerThrows, callVars,
                Arrives, C!Arrives, Disconnects, C!Disconnects, C!poolVars
  <1>4. ASSUME UNCHANGED vars PROVE Stopped'
    BY <1>4 DEF Stopped, vars, callVars, sessionVars
  <1> QED
    BY <1>1, <1>2, <1>3, <1>4 DEF Next, Stopped

(* The arrival of a unit does not change what there is to read. *)
LEMMA MovedUnit ==
  ASSUME NEW S, NEW x \in Seq(S), NEW w \in Seq(S), w # <<>>
  PROVE  Append(x, Head(w)) \o Tail(w) = x \o w
  <1>1. /\ Head(w) \in S /\ Tail(w) \in Seq(S) /\ <<Head(w)>> \in Seq(S)
        /\ <<Head(w)>> \o Tail(w) = w
    BY FirstAndRest, HeadTailProperties
  <1>2. Append(x, Head(w)) = x \o <<Head(w)>>
    BY <1>1, AppendIsConcat
  <1>3. (x \o <<Head(w)>>) \o Tail(w) = x \o (<<Head(w)>> \o Tail(w))
    BY <1>1, ConcatAssociative
  <1> QED
    BY <1>1, <1>2, <1>3

(* A step that touches neither the streams of c nor their readers. *)
LEMMA ServedFrame ==
  ASSUME NEW c \in Connections, Served(c), users[c] \subseteq Requests,
         session'[c] = session[c], torn'[c] = torn[c],
         rx'[c] \o wire'[c] = rx[c] \o wire[c], Pending'[c] = Pending[c],
         users'[c] = users[c],
         \A q \in users[c] :
            /\ pc'[q] = pc[q] /\ connection'[q] = connection[q] /\ tid'[q] = tid[q]
            /\ response'[q] = response[q] /\ result'[q] = result[q]
  PROVE  Served(c)'
  <1>1. P!Unspoilt(c)' <=> P!Unspoilt(c)
    BY DEF P!Unspoilt, P!Clean
  <1>2. \A q \in users[c] : \A l : C!Answers(q, l)' = C!Answers(q, l)
    BY DEF C!Answers, C!Header, C!Piece
  <1>3. \A q \in users[c] : InOnePlace(q, c)' <=> InOnePlace(q, c)
    BY <1>2 DEF InOnePlace
  <1> QED
    BY <1>1, <1>3 DEF Served

(* A step of a call that reaches no server. *)
LEMMA ServedCall ==
  ASSUME Known, Known', NEW r \in Requests, NEW c \in Connections, Served(c), Whole(c),
         P!create_request(r) \/ P!send_request(r) \/ P!RequestStep(r),
         session'[c] = session[c], torn'[c] = torn[c],
         \/ connection[r] # c /\ connection'[r] # c
         \/ up'[c] = up[c] /\ Pending'[c] = Pending[c]
  PROVE  Served(c)'
  <1>0. /\ P!TypeOK /\ P!Holding /\ P!Exclusive /\ P!Exclusive' /\ P!Origin /\ P!Book
        /\ SessionTypes /\ P!CallTypes /\ P!NetTypes
    BY EndToEndAssumption, P!TypeParts DEF Known, Together
  <1>1. /\ process = "up" /\ process' = "up" /\ pc[r] \notin P!Ended
        /\ pc'[r] = "readHeader" => P!WriteDone(r) \/ (P!ReadBody(r) /\ P!Stale(r))
    BY <1>0, EndToEndAssumption, P!Footprint
  <1>2. \A q \in Requests \ {r} :
           /\ pc'[q] = pc[q] /\ connection'[q] = connection[q] /\ tid'[q] = tid[q]
           /\ response'[q] = response[q] /\ result'[q] = result[q]
    BY <1>0, EndToEndAssumption, P!Footprint
  <1>3. CASE connection[r] # c /\ connection'[r] # c
    <2>1. /\ rx'[c] = rx[c] /\ wire'[c] = wire[c] /\ Pending'[c] = Pending[c]
          /\ users'[c] = users[c]
      BY <1>0, <1>3, EndToEndAssumption, P!Footprint
    <2>2. r \notin users[c]
      BY <1>0, <1>1, <1>3, EndToEndAssumption, P!OnlyItsOwn
    <2>3. users[c] \subseteq Requests \ {r}
      BY <1>0, <2>2 DEF P!NetTypes
    <2> QED
      BY <1>2, <2>1, <2>3, ServedFrame
  <1>4. CASE connection[r] = c \/ connection'[r] = c
    <2> SUFFICES ASSUME session'[c] \in {"reading", "handling"}, ~torn'[c], P!Unspoilt(c)',
                        NEW q \in users'[c], connection'[q] = c, pc'[q] = "readHeader"
                 PROVE  FALSE
      BY DEF Served
    <2>1. q \in Requests /\ c # Null
      BY EndToEndAssumption DEF Known, Together, P!TypeOK
    <2>2. q = r
      BY <1>0, <1>1, <1>2, <1>4, <2>1 DEF P!Exclusive
    <2>3. CASE P!WriteDone(r)
      <3>1. connection[r] = c /\ up[c] /\ Pending[c] \in Seq(Requests)
        BY <1>0, <2>2, <2>3 DEF P!WriteDone, SessionTypes, P!NetTypes
      <3>2. Pending'[c] = Append(Pending[c], r)
        BY <1>0, <2>3, <3>1 DEF P!WriteDone, P!Written, P!NetTypes
      <3>3. Pending'[c] = Pending[c]
        BY <3>1
      <3>4. Len(Append(Pending[c], r)) = Len(Pending[c]) + 1 /\ Len(Pending[c]) \in Nat
        BY <3>1
      <3> QED
        BY <3>2, <3>3, <3>4
    <2>4. CASE P!ReadBody(r) /\ P!Stale(r)
      <3>1. /\ pc[r] = "readBody" /\ connection[r] = c /\ UNCHANGED users
        BY <2>2, <2>4 DEF P!ReadBody, P!ghostVars
      <3>2. P!Unspoilt(c)
        <4>1. ASSUME NEW p \in users[c] PROVE connection[p] = c \/ P!Clean(p)
          BY <1>0, <1>2, <3>1, <4>1, ZenonT(40) DEF P!Unspoilt, P!Clean, P!NetTypes
        <4> QED
          BY <4>1 DEF P!Unspoilt
      <3>3. r \in users[c]
        BY <1>0, <1>1, <3>1 DEF P!Book, P!Reads
      <3>4. response[r].of = r
        BY <1>1, <3>1, <3>2, <3>3 DEF Whole, P!Aligned, P!AtBody
      <3>5. response[r].id = tid[r]
        BY <1>0, <2>1, <3>4, EndToEndAssumption DEF P!Origin, P!Read
      <3>6. tid[r] \in Int
        BY <1>0 DEF P!CallTypes, P!Ids
      <3> QED
        BY <2>4, <3>5, <3>6 DEF P!Stale
    <2> QED
      BY <1>1, <2>2, <2>3, <2>4
  <1> QED
    BY <1>3, <1>4

(* A request written on a connection that is up: nothing else is there. *)
LEMMA ServedWritten ==
  ASSUME Known, Known', NEW r \in Requests, NEW c \in Connections, Served(c), Whole(c),
         RequestReaches(r)
  PROVE  Served(c)'
  <1>0. /\ P!TypeOK /\ P!Holding /\ P!Exclusive /\ P!Exclusive' /\ P!Origin /\ P!Book
        /\ SessionTypes /\ P!CallTypes /\ P!NetTypes
    BY EndToEndAssumption, P!TypeParts DEF Known, Together
  <1>1. /\ P!WriteDone(r) \/ P!WriteTimesOut(r)
        /\ UNCHANGED <<session, torn>> /\ pc[r] = "writing" /\ up[connection[r]]
    BY SameCalls DEF RequestReaches
  <1>2. P!RequestStep(r)
    BY <1>1 DEF P!RequestStep
  <1>3. process = "up" /\ process' = "up"
    BY <1>0, <1>2, EndToEndAssumption, P!Footprint
  <1>4. \A q \in Requests \ {r} :
           /\ pc'[q] = pc[q] /\ connection'[q] = connection[q] /\ tid'[q] = tid[q]
           /\ response'[q] = response[q] /\ result'[q] = result[q]
    BY <1>0, <1>2, EndToEndAssumption, P!Footprint
  <1>5. connection[r] \in Connections /\ connection'[r] \in {connection[r], Null}
    BY <1>0, <1>1
    DEF P!WriteDone, P!WriteTimesOut, P!Return, P!Leave, P!CallTypes, P!Holding, P!InFlight
  <1>6. CASE connection[r] # c
    <2>1. connection'[r] # c
      BY <1>5, <1>6, EndToEndAssumption
    <2> QED
      BY <1>1, <1>2, <1>6, <2>1, ServedCall
  <1>7. CASE connection[r] = c
    <2> SUFFICES ASSUME session'[c] \in {"reading", "handling"}, ~torn'[c], P!Unspoilt(c)',
                        NEW q \in users'[c], connection'[q] = c, pc'[q] = "readHeader"
                 PROVE  InOnePlace(q, c)'
      BY DEF Served
    <2>1. q \in Requests /\ c # Null
      BY EndToEndAssumption DEF Known, Together, P!TypeOK
    <2>2. q = r
      BY <1>0, <1>3, <1>4, <1>7, <2>1 DEF P!Exclusive
    <2>3. P!WriteDone(r)
      BY <1>0, <1>1, <2>1, <2>2
      DEF P!WriteTimesOut, P!Return, P!Leave, P!CallTypes
    <2>4. /\ users'[c] = users[c] \cup {r} /\ rx'[c] = rx[c] /\ wire'[c] = wire[c]
          /\ Pending'[c] = Append(Pending[c], r)
      BY <1>0, <1>1, <1>7, <2>3 DEF P!WriteDone, P!Written, P!NetTypes
    <2>5. \A p \in users[c] : p # r /\ p \in Requests /\ connection[p] = Null
      BY <1>0, <1>1, <1>3, <1>7, EndToEndAssumption, P!PredecessorsEnded
    <2>6. P!Unspoilt(c)
      BY <1>4, <2>1, <2>4, <2>5 DEF P!Unspoilt, P!Clean
    <2>7. P!Quiet(c)
      BY <1>1, <1>3, <2>1, <2>5, <2>6 DEF Whole, P!Aligned
    <2>8. Pending'[c] = <<r>> /\ rx'[c] \o wire'[c] = <<>>
      <3>1. Append(<<>>, r) = <<r>> /\ <<>> \o <<>> = <<>>
        OBVIOUS
      <3> QED
        BY <2>4, <2>7, <3>1 DEF P!Quiet
    <2> QED
      BY <2>2, <2>8 DEF InOnePlace
  <1> QED
    BY <1>6, <1>7

(* A session that serves its connection loses nothing: it takes the one    *)
(* request that is there, whole, and answers that one.                     *)
LEMMA ServedSession ==
  ASSUME Known, NEW c \in Connections, Served(c), Whole(c), SessionStep(c)
  PROVE  Served(c)'
  <1>0. P!TypeOK /\ SessionTypes
    BY DEF Known, Together
  <1> SUFFICES ASSUME session'[c] \in {"reading", "handling"}, ~torn'[c], P!Unspoilt(c)',
                      NEW q \in users'[c], connection'[q] = c, pc'[q] = "readHeader"
               PROVE  InOnePlace(q, c)'
    BY DEF Served
  <1>1. /\ process = "up" /\ UNCHANGED callVars /\ session[c] \in {"reading", "handling"}
    BY DEF SessionStep, SessionReads, HandlerReplies, WritesPart, HandlerThrows
  <1>2. ~torn[c]
    BY <1>0 DEF SessionStep, SessionReads, Takes, HandlerReplies, WritesPart, HandlerThrows,
                SessionTypes
  <1>3. q \in users[c] /\ connection[q] = c /\ pc[q] = "readHeader" /\ P!Unspoilt(c)
    BY <1>1 DEF callVars, P!Unspoilt, P!Clean
  <1>4. InOnePlace(q, c) /\ q \in Requests /\ q # Null
    BY <1>0, <1>1, <1>2, <1>3, EndToEndAssumption DEF Served, P!TypeOK
  <1>5. inbox[c] \in Seq(Requests) /\ ~begun[c] /\ (session[c] = "handling" => job[c] # Null)
    BY <1>0, <1>2 DEF Whole, SessionTypes
  <1>6. rx[c] \in Seq(P!Units) /\ wire[c] \in Seq(P!Units)
    BY <1>0 DEF P!TypeOK
  <1>7. CASE SessionReads(c)
    <2>1. PICK n \in 0 .. Len(inbox[c]), cut \in BOOLEAN : Takes(c, n, cut) /\ Understood(c, n, cut)
      BY <1>7 DEF SessionReads
    <2>2. ~cut
      BY <1>0, <2>1 DEF Takes, SessionTypes
    <2>3. n > 0 /\ Len(inbox[c]) \in Nat
      BY <1>5, <2>1 DEF Takes
    <2>4. Pending[c] = inbox[c]
      BY <1>0, <1>7, PendingValue DEF SessionReads, SessionTypes
    <2>5. inbox[c] = <<q>> /\ rx[c] \o wire[c] = <<>>
      <3>1. Len(<<>>) = 0
        OBVIOUS
      <3>2. Pending[c] # <<>>
        BY <2>3, <2>4, <3>1
      <3> QED
        BY <1>4, <2>4, <3>2 DEF InOnePlace
    <2>6. n = 1
      <3>1. Len(<<q>>) = 1
        OBVIOUS
      <3> QED
        BY <2>3, <2>5, <3>1
    <2>7. SubSeq(<<q>>, 2, Len(<<q>>)) = <<>> /\ Head(<<q>>) = q
      OBVIOUS
    <2>8. goto(c, "handling", q)
      BY <1>5, <2>1, <2>2, <2>5, <2>7 DEF Understood
    <2>9. inbox'[c] = <<>> /\ job'[c] = q
      BY <1>0, <2>1, <2>5, <2>6, <2>7, <2>8 DEF Takes, goto, SessionTypes
    <2>10. Pending'[c] = <<q>> \o <<>>
      BY <1>4, <2>9 DEF Pending
    <2>11. <<q>> \o <<>> = <<q>>
      OBVIOUS
    <2>12. rx'[c] \o wire'[c] = <<>>
      BY <1>7, <2>5 DEF SessionReads, callVars
    <2> QED
      BY <2>10, <2>11, <2>12 DEF InOnePlace
  <1>8. CASE \E l \in ServerLengths : HandlerReplies(c, l)
    <2>1. PICK l \in ServerLengths : HandlerReplies(c, l)
      BY <1>8
    <2>2. /\ job[c] # Null /\ wire'[c] = wire[c] \o C!Answers(job[c], l) /\ UNCHANGED <<tid, rx>>
          /\ inbox'[c] = inbox[c] /\ job'[c] = Null
      BY <1>0, <2>1 DEF HandlerReplies, goto, callVars, SessionTypes, P!TypeOK
    <2>3. Pending[c] # <<>> /\ Head(Pending[c]) = job[c] /\ Tail(Pending[c]) = inbox[c]
      BY <1>0, <2>2, PendingValue
    <2>4. Pending[c] = <<q>> /\ rx[c] \o wire[c] = <<>>
      BY <1>4, <2>3 DEF InOnePlace
    <2>5. Head(<<q>>) = q /\ Tail(<<q>>) = <<>>
      OBVIOUS
    <2>6. job[c] = q /\ inbox'[c] = <<>>
      BY <2>2, <2>3, <2>4, <2>5
    <2>7. Pending'[c] = <<>>
      BY <2>2, <2>6, PendingEmpty
    <2>8. C!Answers(q, l) \in Seq(P!Units)
      <3>1. P!Header(tid[q], q, l) \in P!Units /\ P!Piece \in P!Units
        BY <1>0, <1>4, <2>1, EndToEndAssumption, P!UnitTypes DEF P!TypeOK, P!Header, P!Units
      <3>2. /\ <<P!Header(tid[q], q, l)>> \in Seq(P!Units)
            /\ <<P!Header(tid[q], q, l), P!Piece>> \in Seq(P!Units)
        BY <3>1
      <3>3. C!Answers(q, l) = P!Answers(q, l)
        BY SameUnits
      <3> QED
        BY <3>2, <3>3 DEF P!Answers
    <2>9. rx[c] \o (wire[c] \o C!Answers(q, l)) = (rx[c] \o wire[c]) \o C!Answers(q, l)
      <3>1. PICK x \in Seq(P!Units), w \in Seq(P!Units), a \in Seq(P!Units) :
               x = rx[c] /\ w = wire[c] /\ a = C!Answers(q, l)
        BY <1>6, <2>8
      <3>2. (x \o w) \o a = x \o (w \o a)
        BY ConcatAssociative
      <3> QED
        BY <3>1, <3>2
    <2>10. <<>> \o C!Answers(q, l) = C!Answers(q, l)
      BY <2>8, ConcatEmptySeq
    <2>11. rx'[c] \o wire'[c] = C!Answers(q, l)
      BY <2>2, <2>4, <2>6, <2>9, <2>10
    <2>12. C!Answers(q, l)' = C!Answers(q, l)
      BY <2>2 DEF C!Answers, C!Header, C!Piece
    <2> QED
      BY <2>7, <2>11, <2>12 DEF InOnePlace
  <1>9. CASE WritesPart(c)
    BY <1>0, <1>9 DEF WritesPart, SessionTypes
  <1>10. CASE HandlerThrows(c)
    BY <1>0, <1>10 DEF HandlerThrows, goto, SessionTypes
  <1> QED
    BY <1>7, <1>8, <1>9, <1>10 DEF SessionStep

LEMMA ServedStep ==
  ASSUME BoundSuffices, Known, Known', [Next]_vars, NEW c \in Connections, Served(c), Whole(c)
  PROVE  Served(c)'
  <1>0. /\ P!TypeOK /\ P!Holding /\ SessionTypes /\ users[c] \subseteq Requests
        /\ rx[c] \in Seq(P!Units) /\ wire[c] \in Seq(P!Units)
    BY DEF Known, Together, P!TypeOK
  <1>1. ASSUME NEW r \in Requests, ClientAlone(r) PROVE Served(c)'
    <2>1. P!create_request(r) \/ P!send_request(r) \/ P!RequestStep(r)
      BY <1>1, SameCalls DEF ClientAlone
    <2>2. session' = session /\ torn' = torn /\ up' = up /\ Pending' = Pending
      BY <1>1 DEF ClientAlone, sessionVars, Pending
    <2> QED
      BY <2>1, <2>2, ServedCall
  <1>2. ASSUME NEW r \in Requests, RequestReaches(r) PROVE Served(c)'
    BY <1>2, ServedWritten
  <1>3. ASSUME NEW r \in Requests, NEW k \in Connections, Connects(r, k) PROVE Served(c)'
    <2>1. CASE c = k
      <3>1. users'[c] = {}
        BY <1>0, <1>3, <2>1 DEF Connects, C!GetConnection, C!Reconnected, C!netVars, P!TypeOK
      <3> QED
        BY <3>1 DEF Served
    <2>2. CASE c # k
      <3>1. P!RequestStep(r)
        BY <1>3, SameCalls DEF Connects, P!RequestStep, P!Acquire
      <3>2. connection[r] # c /\ connection'[r] # c
        BY <1>0, <1>3, <2>2, EndToEndAssumption
        DEF Connects, C!GetConnection, P!Holding, P!InFlight, P!TypeOK
      <3>3. session'[c] = session[c] /\ torn'[c] = torn[c]
        BY <1>0, <1>3, <2>2 DEF Connects, SessionTypes
      <3> QED
        BY <3>1, <3>2, <3>3, ServedCall
    <2> QED
      BY <2>1, <2>2
  <1>4. ASSUME set_config PROVE Served(c)'
    BY <1>4 DEF set_config, Served
  <1>5. ASSUME NEW k \in Connections, k # c,
               SessionStep(k) \/ Arrives(k) \/ Disconnects(k)
        PROVE  Served(c)'
    <2>1. /\ UNCHANGED <<pc, connection, tid, response, result, users>>
      BY <1>5 DEF SessionStep, SessionReads, HandlerReplies, WritesPart, HandlerThrows, callVars,
                  Arrives, C!Arrives, Disconnects, C!Disconnects, C!clientVars, C!ghostVars
    <2>2. rx'[c] = rx[c] /\ wire'[c] = wire[c]
      BY <1>0, <1>5
      DEF SessionStep, SessionReads, HandlerReplies, WritesPart, HandlerThrows, callVars,
          Arrives, C!Arrives, Disconnects, C!Disconnects, P!TypeOK
    <2>3. /\ session'[c] = session[c] /\ torn'[c] = torn[c]
          /\ inbox'[c] = inbox[c] /\ job'[c] = job[c]
      BY <1>0, <1>5
      DEF SessionStep, SessionReads, Takes, Understood, HandlerReplies, WritesPart, HandlerThrows,
          goto, Arrives, Disconnects, sessionVars, SessionTypes
    <2>4. Pending'[c] = Pending[c]
      BY <2>3 DEF Pending
    <2> QED
      BY <1>0, <2>1, <2>2, <2>3, <2>4, ServedFrame
  <1>6. ASSUME SessionStep(c) PROVE Served(c)'
    BY <1>6, ServedSession
  <1>7. ASSUME Arrives(c) PROVE Served(c)'
    <2>1. /\ wire[c] # <<>> /\ UNCHANGED <<pc, connection, tid, response, result, users>>
          /\ UNCHANGED sessionVars
          /\ rx'[c] = Append(rx[c], Head(wire[c])) /\ wire'[c] = Tail(wire[c])
      BY <1>0, <1>7 DEF Arrives, C!Arrives, C!clientVars, C!ghostVars, P!TypeOK
    <2>2. rx'[c] \o wire'[c] = rx[c] \o wire[c]
      BY <1>0, <2>1, MovedUnit
    <2>3. Pending'[c] = Pending[c]
      BY <2>1 DEF sessionVars, Pending
    <2> QED
      BY <1>0, <2>1, <2>2, <2>3, ServedFrame DEF sessionVars
  <1>8. ASSUME Disconnects(c) PROVE Served(c)'
    BY <1>0, <1>8 DEF Disconnects, Served, SessionTypes
  <1>9. ASSUME UNCHANGED vars PROVE Served(c)'
    <2>1. Pending' = Pending
      BY <1>9 DEF vars, sessionVars, Pending
    <2> QED
      BY <1>0, <1>9, <2>1, ServedFrame DEF vars, callVars, sessionVars
  <1> QED
    BY <1>1, <1>2, <1>3, <1>4, <1>5, <1>6, <1>7, <1>8, <1>9 DEF Next, ClientStep

(* On a healthy connection that a session serves, the request of a call    *)
(* that waits is with the server or its whole answer is under way, and     *)
(* nothing else is.                                                        *)
THEOREM InOnePlaceWhenHealthy == BoundSuffices => (Spec => []HealthyInOnePlace)
  <1> SUFFICES ASSUME BoundSuffices PROVE Spec => []HealthyInOnePlace
    OBVIOUS
  <1> DEFINE Inv == Known /\ \A c \in Connections : Whole(c)
             Serve == Stopped /\ \A c \in Connections : Served(c)
  <1>1. Init => Serve
    BY DEF Init, C!Init, Served, Stopped
  <1>2. Inv /\ Inv' /\ Serve /\ [Next]_vars => Serve'
    BY ServedStep, StoppedStep DEF Known, Together
  <1>3. ASSUME Inv, Serve PROVE HealthyInOnePlace
    <2>0. P!TypeOK /\ P!Holding /\ P!Origin /\ P!Book /\ P!Exclusive /\ SessionTypes
      BY <1>3 DEF Known, Together
    <2> SUFFICES ASSUME NEW r \in Requests, pc[r] = "readHeader", Healthy(r),
                        session[connection[r]] \notin {"none", "deaf"}
                 PROVE  InOnePlace(r, connection[r])
      BY DEF HealthyInOnePlace, InOnePlace
    <2>1. PICK c \in Connections : c = connection[r] /\ ~torn[c]
      BY <2>0 DEF Healthy, P!TypeOK
    <2>2. session[c] \in {"reading", "handling"}
      BY <2>0, <2>1 DEF SessionTypes
    <2>3. users[c] \subseteq earlier[r] \cup {r}
      BY <2>0, <2>1 DEF P!Origin, P!Reading
    <2>4. P!Unspoilt(c)
      BY <2>1, <2>3, SameUnits DEF P!Unspoilt, Healthy
    <2>5. CASE process = "up"
      <3>1. r \in users[c]
        BY <2>0, <2>1, <2>5 DEF P!Book, P!Reads
      <3> QED
        BY <1>3, <2>1, <2>2, <2>4, <3>1 DEF Served
    <2> QED
      BY <1>3, <2>2, <2>5 DEF Stopped
  <1>4. Spec => []Inv
    BY WholeInvariant
  <1> QED
    BY <1>1, <1>2, <1>3, <1>4, PTL DEF Spec
=============================================================================
