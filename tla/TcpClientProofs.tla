--------------------------- MODULE TcpClientProofs ---------------------------
(***************************************************************************)
(* Theorems about TcpClient, for every set of requests and connections and *)
(* every width of the transaction id.                                      *)
(***************************************************************************)
EXTENDS TcpClient, SequenceTheorems, TLAPS

-----------------------------------------------------------------------------
(* Sequences over a set of units *)

(* What is left after the first i elements, for clear_buffer and reads. *)
LEMMA SuffixInSeq ==
  ASSUME NEW S, NEW u \in Seq(S), NEW i \in Nat
  PROVE  SubSeq(u, i + 1, Len(u)) \in Seq(S)
  <1>1. \A j \in i + 1 .. Len(u) : u[j] \in S
    OBVIOUS
  <1> QED
    BY <1>1, SubSeqProperties

(* Reading from the middle of a message leaves units of the same kind. *)
LEMMA RemaindersInSeq ==
  ASSUME NEW S, Piece \in S, NEW u \in Seq(S), NEW v \in Remainders(u)
  PROVE  v \in Seq(S)
  <1>1. \A i \in 1 .. Len(u) : SubSeq(u, i + 1, Len(u)) \in Seq(S)
    BY SuffixInSeq
  <1>2. <<Piece>> \in Seq(S)
    OBVIOUS
  <1> QED
    BY <1>1, <1>2, ConcatProperties DEF Remainders

(* What is left when a stretch in the middle is lost. *)
LEMMA GapInSeq ==
  ASSUME NEW S, NEW u \in Seq(S),
         NEW i \in 0 .. Len(u) - 1, NEW j \in i + 2 .. Len(u) + 1
  PROVE  SubSeq(u, 1, i) \o SubSeq(u, j, Len(u)) \in Seq(S)
  <1>1. \A k \in 1 .. Len(u) : u[k] \in S
    OBVIOUS
  <1>2. SubSeq(u, 1, i) \in Seq(S)
    BY <1>1, SubSeqProperties
  <1>3. SubSeq(u, j, Len(u)) \in Seq(S)
    BY <1>1, SubSeqProperties
  <1> QED
    BY <1>2, <1>3, ConcatProperties

-----------------------------------------------------------------------------
(* Types *)

(* The variables of the calls and of the pool ... *)
CallTypes ==
    /\ transaction_id_ \in Ids
    /\ pc \in [Requests -> Places]
    /\ tid \in [Requests -> Ids]
    /\ connection \in [Requests -> Connections \cup {Null}]
    /\ available \in [Requests -> Nat]
    /\ response \in [Requests -> [id : Ids \cup {-1}, of : Requests \cup {Null}]]
    /\ result \in [Requests -> Results]
    /\ idle \subseteq Connections
    /\ configs \in 0 .. MaxConfigs
    /\ process \in {"up", "undefined"}

(* ... and those of the connections. *)
NetTypes ==
    /\ up \in [Connections -> BOOLEAN]
    /\ rx \in [Connections -> Seq(Units)]
    /\ wire \in [Connections -> Seq(Units)]
    /\ srv \in [Connections -> Seq(Requests)]
    /\ users \in [Connections -> SUBSET Requests]
    /\ earlier \in [Requests -> SUBSET Requests]

LEMMA TypeParts == TypeOK <=> CallTypes /\ NetTypes
  BY DEF TypeOK, CallTypes, NetTypes

(* A call has a connection exactly while it is between get_connection and  *)
(* the release.                                                            *)
Holding == \A r \in Requests : InFlight(r) <=> connection[r] # Null

LEMMA UnitTypes ==
  /\ Piece \in Units
  /\ Empty \in [id : Ids \cup {-1}, of : Requests \cup {Null}]
  BY DEF Piece, Units, Empty

(* Fragments are units that answer nobody. *)
LEMMA FragmentUnits == \A u \in Fragments : u \in Units /\ u.of = Null
  BY DEF Fragments, Piece, Header, Units

(* Every variable starts in its type. *)
LEMMA TypeInit == Init => TypeOK /\ Holding
  <1> SUFFICES ASSUME Init PROVE TypeOK /\ Holding
    OBVIOUS
  <1> USE ClientAssumption DEF Init
  <1>1. transaction_id_ \in Ids /\ 0 \in Ids
    BY DEF Ids
  <1>2. NetTypes
    BY DEF NetTypes
  <1>3. CallTypes
    BY <1>1, UnitTypes DEF CallTypes, Places, Results
  <1>4. Holding
    BY DEF Holding, InFlight
  <1> QED
    BY <1>2, <1>3, <1>4, TypeParts

(* Leaving send_request keeps the types and gives up the connection. *)
LEMMA LeaveTypes ==
  ASSUME CallTypes, Holding, NEW r \in Requests, NEW how \in {"returned", "threw"},
         NEW e \in Results,
         NEW u \in [id : Ids \cup {-1}, of : Requests \cup {Null}],
         Leave(r, how, e, u)
  PROVE  CallTypes' /\ Holding'
  <1>1. CallTypes'
    BY DEF Leave, goto, CallTypes, Places
  <1>2. Holding'
    BY DEF Leave, goto, CallTypes, Holding, InFlight
  <1> QED
    BY <1>1, <1>2

(* Every way out with an error is such a departure. *)
LEMMA FailureTypes ==
  ASSUME CallTypes, Holding, NEW r \in Requests,
         \/ \E e \in Results : Return(r, e, Empty)
         \/ Leave(r, "threw", "exception", Empty)
  PROVE  CallTypes' /\ Holding'
  BY LeaveTypes, UnitTypes DEF Return, Results

(* Sending the request keeps the types of the connections. *)
LEMMA WrittenTypes ==
  ASSUME NetTypes, CallTypes, Holding, NEW r \in Requests, InFlight(r), Written(r)
  PROVE  NetTypes'
  <1>1. connection[r] \in Connections
    BY DEF CallTypes, Holding
  <1>2. Append(srv[connection[r]], r) \in Seq(Requests)
    BY <1>1, AppendProperties DEF NetTypes
  <1> QED
    BY <1>1, <1>2 DEF Written, NetTypes

(* Every step keeps every variable in its type. *)
LEMMA TypeStep == TypeOK /\ Holding /\ [Next]_vars => TypeOK' /\ Holding'
  <1> SUFFICES ASSUME CallTypes, NetTypes, Holding, [Next]_vars
               PROVE  CallTypes' /\ NetTypes' /\ Holding'
    BY DEF TypeOK, CallTypes, NetTypes
  <1> USE DEF vars, clientVars, poolVars, netVars, ghostVars
  <1>1. ASSUME NEW r \in Requests, create_request(r)
         PROVE CallTypes' /\ NetTypes' /\ Holding'
    <2>1. (transaction_id_ + 1) % IdMod \in Ids
      BY ClientAssumption DEF CallTypes, Ids
    <2>2. CallTypes' /\ Holding'
      BY <1>1, <2>1 DEF create_request, goto, CallTypes, Places, Holding, InFlight
    <2> QED
      BY <1>1, <2>2 DEF create_request, NetTypes
  <1>2. ASSUME NEW r \in Requests, send_request(r)
         PROVE CallTypes' /\ NetTypes' /\ Holding'
    BY <1>2 DEF send_request, goto, CallTypes, NetTypes, Places, Holding, InFlight
  <1>3. CASE set_config
    <2>1. CallTypes'
      BY <1>3, ClientAssumption DEF set_config, CallTypes, Places
    <2>2. NetTypes'
      BY <1>3 DEF set_config, NetTypes
    <2>3. Holding'
      BY <1>3 DEF set_config, CallTypes, Holding, InFlight
    <2> QED
      BY <2>1, <2>2, <2>3
  <1>4. ASSUME NEW r \in Requests, PoolStopped(r)
         PROVE CallTypes' /\ NetTypes' /\ Holding'
    <2>1. CallTypes' /\ Holding'
      BY <1>4, FailureTypes DEF PoolStopped, Results
    <2> QED
      BY <1>4, <2>1 DEF PoolStopped, NetTypes
  <1>5. ASSUME NEW r \in Requests, NEW c \in Connections, GetConnection(r, c)
         PROVE CallTypes' /\ NetTypes' /\ Holding'
    <2>1. NetTypes'
      <3>1. CASE Reconnected(c)
        BY <3>1 DEF Reconnected, NetTypes
      <3>2. CASE UNCHANGED <<netVars, ghostVars>>
        BY <3>2 DEF NetTypes
      <3> QED
        BY <1>5, <3>1, <3>2 DEF GetConnection
    <2>2. Len(rx'[c]) \in Nat
      BY <2>1 DEF NetTypes
    <2>3. CallTypes' /\ Holding'
      BY <1>5, <2>2, ClientAssumption
      DEF GetConnection, goto, CallTypes, Places, Holding, InFlight
    <2> QED
      BY <2>1, <2>3
  <1>6. ASSUME NEW r \in Requests, NEW c \in Connections, GetDeadConnection(r, c)
         PROVE CallTypes' /\ NetTypes' /\ Holding'
    <2>1. CallTypes' /\ Holding'
      BY <1>6, FailureTypes DEF GetDeadConnection, Results
    <2> QED
      BY <1>6, <2>1 DEF GetDeadConnection, NetTypes
  <1>7. ASSUME NEW r \in Requests, ClearFails(r)
         PROVE CallTypes' /\ NetTypes' /\ Holding'
    <2>1. CallTypes' /\ Holding'
      BY <1>7, FailureTypes DEF ClearFails, Results
    <2> QED
      BY <1>7, <2>1 DEF ClearFails, NetTypes
  <1>8. ASSUME NEW r \in Requests, ClearRead(r)
         PROVE CallTypes' /\ NetTypes' /\ Holding'
    <2>1. connection[r] \in Connections /\ available[r] \in Nat
      BY <1>8 DEF ClearRead, CallTypes, Holding, InFlight
    <2>2. NetTypes'
      BY <1>8, <2>1, SuffixInSeq DEF ClearRead, NetTypes
    <2> QED
      BY <1>8, <2>2 DEF ClearRead, goto, CallTypes, Places, Holding, InFlight
  <1>9. ASSUME NEW r \in Requests, WriteDone(r)
         PROVE CallTypes' /\ NetTypes' /\ Holding'
    <2>1. NetTypes'
      BY <1>9, WrittenTypes DEF WriteDone, InFlight
    <2> QED
      BY <1>9, <2>1 DEF WriteDone, goto, CallTypes, Places, Holding, InFlight
  <1>10. ASSUME NEW r \in Requests, WriteFails(r)
         PROVE CallTypes' /\ NetTypes' /\ Holding'
    <2>1. CallTypes' /\ Holding'
      BY <1>10, FailureTypes DEF WriteFails, Results
    <2> QED
      BY <1>10, <2>1 DEF WriteFails, NetTypes
  <1>11. ASSUME NEW r \in Requests, WriteTimesOut(r)
         PROVE CallTypes' /\ NetTypes' /\ Holding'
    <2>1. NetTypes'
      BY <1>11, WrittenTypes DEF WriteTimesOut, InFlight, NetTypes
    <2>2. CallTypes' /\ Holding'
      BY <1>11, FailureTypes DEF WriteTimesOut, Results
    <2> QED
      BY <2>1, <2>2
  <1>12. ASSUME NEW r \in Requests, ReadHeader(r)
         PROVE CallTypes' /\ NetTypes' /\ Holding'
    <2>1. connection[r] \in Connections /\ rx[connection[r]] \in Seq(Units)
      BY <1>12 DEF ReadHeader, CallTypes, NetTypes, Holding, InFlight
    <2>2. NetTypes'
      <3>1. PICK u \in Seq(Units) : rx' = [rx EXCEPT ![connection[r]] = u]
        BY <1>12, <2>1, RemaindersInSeq, UnitTypes, HeadTailProperties DEF ReadHeader
      <3> QED
        BY <1>12, <2>1, <3>1 DEF ReadHeader, NetTypes
    <2>3. ASSUME NEW h, h.id \in Ids \cup {-1}, h.of \in Requests \cup {Null},
                 HeaderRead(r, h)
          PROVE  CallTypes' /\ Holding'
      <3>1. CASE h.len = "over"
        BY <2>3, <3>1, FailureTypes DEF HeaderRead, Results
      <3>2. CASE h.len # "over"
        <4>1. [id |-> h.id, of |-> h.of] \in [id : Ids \cup {-1}, of : Requests \cup {Null}]
          BY <2>3
        <4>2. PICK where \in {"readEmpty", "readBody"} : pc' = [pc EXCEPT ![r] = where]
          BY <2>3, <3>2 DEF HeaderRead, goto
        <4>3. /\ response' = [response EXCEPT ![r] = [id |-> h.id, of |-> h.of]]
              /\ UNCHANGED <<transaction_id_, tid, connection, available, result, poolVars>>
          BY <2>3, <3>2 DEF HeaderRead
        <4>4. CallTypes'
          BY <4>1, <4>2, <4>3 DEF CallTypes, Places
        <4>5. Holding'
          BY <1>12, <4>2, <4>3 DEF ReadHeader, CallTypes, Holding, InFlight
        <4> QED
          BY <4>4, <4>5
      <3> QED
        BY <3>1, <3>2
    <2>4. Head(rx[connection[r]]) # Piece => Head(rx[connection[r]]) \in Units
      BY <1>12, <2>1, HeadTailProperties DEF ReadHeader
    <2> QED
      BY <1>12, <2>2, <2>3, <2>4 DEF ReadHeader, Header, Units
  <1>13. ASSUME NEW r \in Requests, ReadBody(r)
         PROVE CallTypes' /\ NetTypes' /\ Holding'
    <2>1. connection[r] \in Connections /\ rx[connection[r]] \in Seq(Units)
      BY <1>13 DEF ReadBody, CallTypes, NetTypes, Holding, InFlight
    <2>2. NetTypes'
      <3>1. PICK u \in Seq(Units) : rx' = [rx EXCEPT ![connection[r]] = u]
        BY <1>13, <2>1, RemaindersInSeq, UnitTypes, HeadTailProperties DEF ReadBody
      <3> QED
        BY <1>13, <2>1, <3>1 DEF ReadBody, NetTypes
    <2>3. CASE Stale(r)
      BY <1>13, <2>2, <2>3 DEF ReadBody, goto, CallTypes, Places, Holding, InFlight
    <2>4. CASE ~Stale(r)
      <3>1. response[r] \in [id : Ids \cup {-1}, of : Requests \cup {Null}]
        BY DEF CallTypes
      <3> QED
        BY <1>13, <2>2, <2>4, <3>1, LeaveTypes DEF ReadBody, Return, Results
    <2> QED
      BY <2>3, <2>4
  <1>14. ASSUME NEW r \in Requests, ReadEmpty(r)
         PROVE CallTypes' /\ NetTypes' /\ Holding'
    <2>1. CallTypes' /\ Holding'
      BY <1>14, FailureTypes DEF ReadEmpty, Results
    <2> QED
      BY <1>14, <2>1 DEF ReadEmpty, NetTypes
  <1>15. ASSUME NEW r \in Requests, ReadFails(r)
         PROVE CallTypes' /\ NetTypes' /\ Holding'
    <2>1. CallTypes' /\ Holding'
      BY <1>15, FailureTypes DEF ReadFails, Results
    <2> QED
      BY <1>15, <2>1 DEF ReadFails, NetTypes
  <1>16. ASSUME NEW r \in Requests, ReadTimesOut(r)
         PROVE CallTypes' /\ NetTypes' /\ Holding'
    <2>1. CallTypes' /\ Holding'
      BY <1>16, FailureTypes DEF ReadTimesOut, Results
    <2> QED
      BY <1>16, <2>1 DEF ReadTimesOut, NetTypes
  <1>17. ASSUME NEW c \in Connections, NEW l \in ServerLengths, ServerAnswers(c, l)
         PROVE CallTypes' /\ NetTypes' /\ Holding'
    <2>1. Head(srv[c]) \in Requests /\ Tail(srv[c]) \in Seq(Requests)
      BY <1>17 DEF ServerAnswers, NetTypes
    <2>2. Header(tid[Head(srv[c])], Head(srv[c]), l) \in Units
      BY <2>1, ClientAssumption DEF CallTypes, Header, Units
    <2>3. Answers(Head(srv[c]), l) \in Seq(Units)
      BY <2>2, UnitTypes DEF Answers
    <2>4. NetTypes'
      BY <1>17, <2>1, <2>3, ConcatProperties DEF ServerAnswers, NetTypes
    <2> QED
      BY <1>17, <2>4 DEF ServerAnswers, CallTypes, Holding, InFlight
  <1>18. ASSUME NEW c \in Connections, Arrives(c)
         PROVE CallTypes' /\ NetTypes' /\ Holding'
    BY <1>18 DEF Arrives, CallTypes, NetTypes, Holding, InFlight
  <1>19. ASSUME NEW c \in Connections, Disconnects(c)
         PROVE CallTypes' /\ NetTypes' /\ Holding'
    BY <1>19 DEF Disconnects, CallTypes, NetTypes, Holding, InFlight
  <1>20. ASSUME NEW c \in Connections, NEW i \in 0 .. Len(srv[c]) - 1,
                NEW j \in i + 2 .. Len(srv[c]) + 1, ServerForgets(c, i, j)
         PROVE CallTypes' /\ NetTypes' /\ Holding'
    <2>1. SubSeq(srv[c], 1, i) \o SubSeq(srv[c], j, Len(srv[c])) \in Seq(Requests)
      BY GapInSeq DEF NetTypes
    <2>2. NetTypes'
      BY <1>20, <2>1 DEF ServerForgets, NetTypes
    <2> QED
      BY <1>20, <2>2 DEF ServerForgets, CallTypes, Holding, InFlight
  <1>21. ASSUME NEW c \in Connections, NEW u \in Fragments, ServerGarbles(c, u)
         PROVE CallTypes' /\ NetTypes' /\ Holding'
    <2>1. Append(wire[c], u) \in Seq(Units)
      BY FragmentUnits, AppendProperties DEF NetTypes
    <2>2. srv[c] # <<>> => Tail(srv[c]) \in Seq(Requests)
      BY DEF NetTypes
    <2>3. NetTypes'
      BY <1>21, <2>1, <2>2 DEF ServerGarbles, NetTypes
    <2> QED
      BY <1>21, <2>3 DEF ServerGarbles, CallTypes, Holding, InFlight
  <1>22. CASE UNCHANGED vars
    BY <1>22 DEF CallTypes, NetTypes, Holding, InFlight
  <1> QED
    BY <1>1, <1>2, <1>3, <1>4, <1>5, <1>6, <1>7, <1>8, <1>9, <1>10,
       <1>11, <1>12, <1>13, <1>14, <1>15, <1>16, <1>17, <1>18, <1>19,
       <1>20, <1>21, <1>22
    DEF Next, Environment, RequestStep, Acquire

LEMMA TypeInvariant == Spec => [](TypeOK /\ Holding)
  <1>1. TypeOK /\ Holding /\ [Next]_vars => (TypeOK /\ Holding)'
    BY TypeStep
  <1> QED
    BY <1>1, TypeInit, PTL DEF Spec

(* Every variable of the client keeps the type of its counterpart. *)
THEOREM TypeCorrect == Spec => []TypeOK
  BY TypeInvariant, PTL

-----------------------------------------------------------------------------
(* Exclusive use of connections *)

(* No connection has two holders, and the idle ones are those with none:   *)
(* ConnectionExclusive in the form that is inductive together with Holding *)
Exclusive ==
    process = "up" =>
        /\ \A r, q \in Requests :
              connection[r] # Null /\ connection[r] = connection[q] => r = q
        /\ \A c \in Connections :
              c \in idle <=> \A r \in Requests : connection[r] # c

(* Leaving send_request makes exactly its own connection idle. *)
LEMMA LeaveExclusive ==
  ASSUME CallTypes, Exclusive, process = "up",
         NEW r \in Requests, NEW how, NEW e, NEW u, Leave(r, how, e, u)
  PROVE  Exclusive'
  <1>1. /\ connection' = [connection EXCEPT ![r] = Null]
        /\ idle' = IF connection[r] = Null THEN idle ELSE idle \cup {connection[r]}
        /\ process' = process
    BY DEF Leave
  <1> QED
    BY <1>1, ClientAssumption DEF CallTypes, Exclusive

LEMMA FailureExclusive ==
  ASSUME CallTypes, Exclusive, process = "up", NEW r \in Requests,
         \/ \E e : Return(r, e, Empty)
         \/ Leave(r, "threw", "exception", Empty)
  PROVE  Exclusive'
  BY LeaveExclusive DEF Return

(* Every step keeps the use of connections exclusive. *)
LEMMA ExclusiveStep == TypeOK /\ Holding /\ Exclusive /\ [Next]_vars => Exclusive'
  <1> SUFFICES ASSUME CallTypes, Holding, Exclusive, [Next]_vars
               PROVE  Exclusive'
    BY TypeParts
  <1> USE DEF vars, clientVars, poolVars
  <1>1. ASSUME NEW r \in Requests, create_request(r)
         PROVE Exclusive'
    BY <1>1 DEF create_request, Exclusive
  <1>2. ASSUME NEW r \in Requests, send_request(r)
         PROVE Exclusive'
    BY <1>2 DEF send_request, Exclusive
  <1>3. CASE set_config
    <2>1. CASE \E r \in Requests : InFlight(r)
      BY <1>3, <2>1 DEF set_config, Exclusive
    <2>2. CASE ~ \E r \in Requests : InFlight(r)
      BY <1>3, <2>2, ClientAssumption DEF set_config, Holding, Exclusive
    <2> QED
      BY <2>1, <2>2
  <1>4. ASSUME NEW r \in Requests, PoolStopped(r)
         PROVE Exclusive'
    BY <1>4, FailureExclusive DEF PoolStopped
  <1>5. ASSUME NEW r \in Requests, NEW c \in Connections, GetConnection(r, c)
         PROVE Exclusive'
    <2>1. /\ process = "up" /\ process' = process
          /\ connection[r] = Null
          /\ connection' = [connection EXCEPT ![r] = c]
          /\ c \in idle /\ idle' = idle \ {c}
      BY <1>5 DEF GetConnection, Holding, InFlight
    <2> QED
      BY <2>1, ClientAssumption DEF CallTypes, Exclusive
  <1>6. ASSUME NEW r \in Requests, NEW c \in Connections, GetDeadConnection(r, c)
         PROVE Exclusive'
    BY <1>6, FailureExclusive DEF GetDeadConnection
  <1>7. ASSUME NEW r \in Requests, ClearFails(r)
         PROVE Exclusive'
    BY <1>7, FailureExclusive DEF ClearFails
  <1>8. ASSUME NEW r \in Requests, ClearRead(r)
         PROVE Exclusive'
    BY <1>8 DEF ClearRead, Exclusive
  <1>9. ASSUME NEW r \in Requests, WriteDone(r)
         PROVE Exclusive'
    BY <1>9 DEF WriteDone, Exclusive
  <1>10. ASSUME NEW r \in Requests, WriteFails(r)
         PROVE Exclusive'
    BY <1>10, FailureExclusive DEF WriteFails
  <1>11. ASSUME NEW r \in Requests, WriteTimesOut(r)
         PROVE Exclusive'
    BY <1>11, FailureExclusive DEF WriteTimesOut
  <1>12. ASSUME NEW r \in Requests, ReadHeader(r)
         PROVE Exclusive'
    <2>1. ASSUME NEW h, HeaderRead(r, h)
          PROVE  Exclusive'
      <3>1. CASE h.len = "over"
        BY <1>12, <2>1, <3>1, FailureExclusive DEF ReadHeader, HeaderRead
      <3>2. CASE h.len # "over"
        BY <2>1, <3>2 DEF HeaderRead, Exclusive
      <3> QED
        BY <3>1, <3>2
    <2> QED
      BY <1>12, <2>1 DEF ReadHeader
  <1>13. ASSUME NEW r \in Requests, ReadBody(r)
         PROVE Exclusive'
    <2>1. CASE Return(r, "success", response[r])
      BY <1>13, <2>1, LeaveExclusive DEF ReadBody, Return
    <2>2. CASE UNCHANGED <<connection, poolVars>>
      BY <2>2 DEF Exclusive
    <2> QED
      BY <1>13, <2>1, <2>2 DEF ReadBody
  <1>14. ASSUME NEW r \in Requests, ReadEmpty(r)
         PROVE Exclusive'
    BY <1>14, FailureExclusive DEF ReadEmpty
  <1>15. ASSUME NEW r \in Requests, ReadFails(r)
         PROVE Exclusive'
    BY <1>15, FailureExclusive DEF ReadFails
  <1>16. ASSUME NEW r \in Requests, ReadTimesOut(r)
         PROVE Exclusive'
    BY <1>16, FailureExclusive DEF ReadTimesOut
  <1>17. ASSUME NEW c \in Connections, NEW l \in ServerLengths, ServerAnswers(c, l)
         PROVE Exclusive'
    BY <1>17 DEF ServerAnswers, Exclusive
  <1>18. ASSUME NEW c \in Connections, Arrives(c)
         PROVE Exclusive'
    BY <1>18 DEF Arrives, Exclusive
  <1>19. ASSUME NEW c \in Connections, Disconnects(c)
         PROVE Exclusive'
    BY <1>19 DEF Disconnects, Exclusive
  <1>20. ASSUME NEW c \in Connections, NEW i, NEW j, ServerForgets(c, i, j)
         PROVE Exclusive'
    BY <1>20 DEF ServerForgets, Exclusive
  <1>21. ASSUME NEW c \in Connections, NEW u, ServerGarbles(c, u)
         PROVE Exclusive'
    BY <1>21 DEF ServerGarbles, Exclusive
  <1>22. CASE UNCHANGED vars
    BY <1>22 DEF Exclusive
  <1> QED
    BY <1>1, <1>2, <1>3, <1>4, <1>5, <1>6, <1>7, <1>8, <1>9, <1>10,
       <1>11, <1>12, <1>13, <1>14, <1>15, <1>16, <1>17, <1>18, <1>19,
       <1>20, <1>21, <1>22
    DEF Next, Environment, RequestStep, Acquire

LEMMA ExclusiveInvariant == Spec => [](TypeOK /\ Holding /\ Exclusive)
  <1>1. Init => Exclusive
    BY ClientAssumption DEF Init, Exclusive
  <1>2. TypeOK /\ Holding /\ Exclusive /\ [Next]_vars => Exclusive'
    BY ExclusiveStep
  <1> QED
    BY <1>1, <1>2, TypeInvariant, PTL DEF Spec

(* No path through send_request leaks a connection or releases it twice:   *)
(* every connection is idle or used by exactly one call.                   *)
THEOREM ConnectionsExclusive == Spec => []ConnectionExclusive
  <1>1. TypeOK /\ Holding /\ Exclusive => ConnectionExclusive
    <2> SUFFICES ASSUME TypeOK, Holding, Exclusive, process = "up",
                        NEW c \in Connections
                 PROVE  IF c \in idle
                        THEN {r \in Requests : InFlight(r) /\ connection[r] = c} = {}
                        ELSE \E r \in Requests :
                               {q \in Requests : InFlight(q) /\ connection[q] = c} = {r}
      BY DEF ConnectionExclusive
    <2>1. CASE c \in idle
      BY <2>1 DEF Exclusive
    <2>2. CASE c \notin idle
      <3>1. PICK r \in Requests : connection[r] = c
        BY <2>2 DEF Exclusive
      <3>2. {q \in Requests : InFlight(q) /\ connection[q] = c} = {r}
        BY <3>1, ClientAssumption DEF Exclusive, Holding
      <3> QED
        BY <2>2, <3>2
    <2> QED
      BY <2>1, <2>2
  <1> QED
    BY <1>1, ExclusiveInvariant, PTL

-----------------------------------------------------------------------------
(* Where answers come from *)

Sent == {q \in Requests : pc[q] # "new"}

(* Units that are no part of an answer, or the header of an answer to a    *)
(* request written on connection c.                                        *)
Genuine(c) ==
    {u \in Units : u.of # Null => u.of \in users[c] /\ u.id = tid[u.of]}

(* Only requests that have their id are written. *)
Settled ==
    /\ \A c \in Connections : users[c] \subseteq Sent
    /\ \A r \in Requests : earlier[r] \subseteq Sent

(* A connection carries only answers to what was written on it. *)
Streams ==
    \A c \in Connections :
        /\ rx[c] \in Seq(Genuine(c))
        /\ wire[c] \in Seq(Genuine(c))
        /\ srv[c] \in Seq(users[c])

(* While a call reads, nobody else writes on its connection. *)
Reading(r) ==
    pc[r] \in {"readHeader", "readBody", "readEmpty"} =>
        users[connection[r]] \subseteq earlier[r] \cup {r}

(* The answer a call has read is one to itself or to an earlier request. *)
Read(r) ==
    /\ response[r].of # Null =>
          /\ pc[r] \in {"readHeader", "readBody", "readEmpty", "returned"}
          /\ response[r].of \in earlier[r] \cup {r}
          /\ response[r].id = tid[response[r].of]
    /\ result[r] = "success" => pc[r] = "returned" /\ response[r].id >= tid[r]

Origin ==
    /\ Settled
    /\ Streams
    /\ \A r \in Requests : Reading(r) /\ Read(r)

LEMMA PieceGenuine == \A c \in Connections : Piece \in Genuine(c)
  BY UnitTypes DEF Genuine, Piece

(* Answers stay genuine when requests are added and ids do not change. *)
LEMMA GenuineGrows ==
  ASSUME NEW c \in Connections, users[c] \subseteq users'[c],
         \A q \in users[c] : tid'[q] = tid[q]
  PROVE  Genuine(c) \subseteq Genuine(c)'
  BY DEF Genuine

LEMMA StreamsGrow ==
  ASSUME Streams,
         \A c \in Connections :
            /\ users[c] \subseteq users'[c]
            /\ \A q \in users[c] : tid'[q] = tid[q]
            /\ rx'[c] \in Seq(Genuine(c))
            /\ wire'[c] \in Seq(Genuine(c))
            /\ srv'[c] \in Seq(users'[c])
  PROVE  Streams'
  <1> SUFFICES ASSUME NEW c \in Connections
               PROVE  /\ rx'[c] \in Seq(Genuine(c)')
                      /\ wire'[c] \in Seq(Genuine(c)')
                      /\ srv'[c] \in Seq(users'[c])
    BY DEF Streams
  <1>1. Genuine(c) \subseteq Genuine(c)'
    BY GenuineGrows
  <1> QED
    BY <1>1, SeqMonotonic

(* What a step of call r leaves alone. *)
LEMMA LocalStep ==
  ASSUME CallTypes, NetTypes, Origin, NEW r \in Requests,
         NEW where \in Places \ {"new"}, pc' = [pc EXCEPT ![r] = where],
         UNCHANGED <<tid, users, earlier>>,
         \A q \in Requests \ {r} :
            /\ connection'[q] = connection[q]
            /\ response'[q] = response[q]
            /\ result'[q] = result[q]
  PROVE  /\ Settled'
         /\ \A q \in Requests \ {r} : Reading(q)' /\ Read(q)'
  <1>1. Sent \subseteq Sent'
    BY DEF Sent, CallTypes
  <1>2. Settled'
    BY <1>1 DEF Origin, Settled
  <1>3. ASSUME NEW q \in Requests \ {r}
        PROVE  Reading(q)' /\ Read(q)'
    <2>1. Reading(q) /\ Read(q) /\ pc'[q] = pc[q]
      BY DEF Origin, CallTypes
    <2> QED
      BY <2>1 DEF Reading, Read
  <1> QED
    BY <1>2, <1>3

(* A call that fails has no answer. *)
LEMMA FailureOrigin ==
  ASSUME CallTypes, NetTypes, Origin, NEW r \in Requests,
         UNCHANGED <<users, earlier>>, Streams',
         \/ \E e \in Results \ {"success"} : Return(r, e, Empty)
         \/ Leave(r, "threw", "exception", Empty)
  PROVE  Origin'
  <1>1. PICK how \in {"returned", "threw"}, e \in Results \ {"success"} :
           Leave(r, how, e, Empty)
    BY DEF Return, Results
  <1>2. /\ pc' = [pc EXCEPT ![r] = how]
        /\ response' = [response EXCEPT ![r] = Empty]
        /\ result' = [result EXCEPT ![r] = e]
        /\ connection' = [connection EXCEPT ![r] = Null]
        /\ tid' = tid
    BY <1>1 DEF Leave, goto
  <1>3. Settled' /\ \A q \in Requests \ {r} : Reading(q)' /\ Read(q)'
    <2>1. how \in Places \ {"new"}
      BY DEF Places
    <2>2. \A q \in Requests \ {r} : /\ connection'[q] = connection[q]
                                    /\ response'[q] = response[q]
                                    /\ result'[q] = result[q]
      BY <1>2 DEF CallTypes
    <2> QED
      BY <1>2, <2>1, <2>2, LocalStep
  <1>4. Reading(r)' /\ Read(r)'
    BY <1>2 DEF CallTypes, Reading, Read, Empty
  <1> QED
    BY <1>3, <1>4 DEF Origin

LEMMA StreamsUnchanged ==
  ASSUME Streams, UNCHANGED <<rx, wire, srv, users, tid>>
  PROVE  Streams'
  BY DEF Streams, Genuine

(* Writing a request: its answer may come from now on, to nobody else. *)
LEMMA WrittenOrigin ==
  ASSUME CallTypes, NetTypes, Holding, Exclusive, Origin,
         process = "up", NEW r \in Requests, pc[r] = "writing", Written(r),
         NEW where \in Places \ {"new"}, pc' = [pc EXCEPT ![r] = where],
         tid' = tid,
         \A q \in Requests \ {r} :
            /\ connection'[q] = connection[q]
            /\ response'[q] = response[q]
            /\ result'[q] = result[q]
  PROVE  /\ Streams'
         /\ Settled'
         /\ \A q \in Requests \ {r} : Reading(q)' /\ Read(q)'
  <1>0. Settled /\ Streams /\ \A q \in Requests : Reading(q) /\ Read(q)
    BY DEF Origin
  <1>1. connection[r] \in Connections
    BY DEF CallTypes, Holding, InFlight
  <1>2. /\ users' = [users EXCEPT ![connection[r]] = @ \cup {r}]
        /\ earlier' = [earlier EXCEPT ![r] = users[connection[r]]]
        /\ UNCHANGED <<rx, wire>>
    BY DEF Written
  <1>3. \A c \in Connections : users[c] \subseteq users'[c]
    BY <1>2 DEF NetTypes
  <1>4. ASSUME NEW c \in Connections PROVE srv'[c] \in Seq(users'[c])
    <2>1. srv[c] \in Seq(users'[c])
      BY <1>0, <1>3, SeqMonotonic DEF Streams
    <2>2. srv'[c] = srv[c] \/ (c = connection[r] /\ srv'[c] = Append(srv[c], r))
      BY <1>1 DEF Written, NetTypes
    <2>3. c = connection[r] => r \in users'[c]
      BY <1>1, <1>2 DEF NetTypes
    <2>4. c = connection[r] => Append(srv[c], r) \in Seq(users'[c])
      BY <2>1, <2>3, AppendProperties
    <2> QED
      BY <2>1, <2>2, <2>4
  <1>5. Streams'
    BY <1>0, <1>2, <1>3, <1>4, StreamsGrow DEF Streams
  <1>6. Sent \subseteq Sent' /\ r \in Sent'
    BY DEF Sent, CallTypes
  <1>7. Settled'
    BY <1>0, <1>1, <1>2, <1>6 DEF Settled, NetTypes
  <1>8. ASSUME NEW q \in Requests \ {r} PROVE Reading(q)' /\ Read(q)'
    <2>1. Reading(q) /\ Read(q) /\ pc'[q] = pc[q] /\ earlier'[q] = earlier[q]
      BY <1>0, <1>2 DEF CallTypes, NetTypes
    <2>2. connection[q] # connection[r]
      BY <1>1, ClientAssumption DEF Exclusive
    <2>3. pc[q] \in {"readHeader", "readBody", "readEmpty"} =>
             users'[connection[q]] = users[connection[q]]
      BY <1>2, <2>2 DEF Holding, InFlight, CallTypes, NetTypes
    <2> QED
      BY <2>1, <2>3 DEF Reading, Read
  <1> QED
    BY <1>5, <1>7, <1>8

(* Every step keeps track of where answers come from. *)
LEMMA OriginStep ==
  TypeOK /\ Holding /\ Exclusive /\ Origin /\ [Next]_vars => Origin'
  <1> SUFFICES ASSUME CallTypes, NetTypes, Holding, Exclusive, Origin, [Next]_vars
               PROVE  Origin'
    BY TypeParts
  <1>0. Settled /\ Streams /\ \A r \in Requests : Reading(r) /\ Read(r)
    BY DEF Origin
  <1> USE DEF vars, clientVars, poolVars, netVars, ghostVars
  <1>1. ASSUME NEW r \in Requests, create_request(r)
         PROVE Origin'
    <2>1. /\ pc[r] = "new" /\ pc' = [pc EXCEPT ![r] = "created"]
          /\ tid' = [tid EXCEPT ![r] = transaction_id_]
          /\ UNCHANGED <<connection, response, result, rx, wire, srv, users, earlier>>
      BY <1>1 DEF create_request, goto
    <2>2. \A q \in Sent : tid'[q] = tid[q]
      BY <2>1 DEF Sent, CallTypes
    <2>3. Settled'
      BY <1>0, <2>1 DEF Settled, Sent, CallTypes
    <2>4. Streams'
      BY <1>0, <2>1, <2>2, StreamsGrow DEF Settled, Streams
    <2>5. ASSUME NEW q \in Requests PROVE Reading(q)' /\ Read(q)'
      <3>1. Reading(q) /\ Read(q) /\ earlier[q] \subseteq Sent
        BY <1>0 DEF Settled
      <3>2. pc'[q] = (IF q = r THEN "created" ELSE pc[q])
        BY <2>1 DEF CallTypes
      <3>3. Reading(q)'
        BY <2>1, <3>1, <3>2 DEF Reading
      <3>4. CASE q = r
        BY <2>1, <3>1, <3>2, <3>3, <3>4 DEF Read
      <3>5. CASE q # r
        <4>1. /\ pc'[q] = pc[q] /\ response'[q] = response[q]
              /\ result'[q] = result[q] /\ earlier'[q] = earlier[q]
          BY <2>1, <3>2, <3>5
        <4>2. tid'[q] = tid[q]
          BY <2>1, <3>5 DEF CallTypes
        <4>3. response[q].of # Null => tid'[response[q].of] = tid[response[q].of]
          BY <2>2, <3>1, <4>2 DEF Read
        <4> QED
          BY <3>1, <3>3, <4>1, <4>2, <4>3 DEF Read
      <3> QED
        BY <3>4, <3>5
    <2> QED
      BY <2>3, <2>4, <2>5 DEF Origin
  <1>2. ASSUME NEW r \in Requests, send_request(r)
         PROVE Origin'
    <2>1. /\ pc' = [pc EXCEPT ![r] = "waiting"]
          /\ UNCHANGED <<tid, connection, response, result, users, earlier>>
      BY <1>2 DEF send_request, goto
    <2>2. Streams'
      BY <1>2, <1>0, StreamsUnchanged DEF send_request
    <2>3. Settled' /\ \A q \in Requests \ {r} : Reading(q)' /\ Read(q)'
      BY <2>1, LocalStep DEF Places
    <2>4. Reading(r)' /\ Read(r)'
      BY <1>2, <1>0, <2>1 DEF send_request, CallTypes, Reading, Read
    <2> QED
      BY <2>2, <2>3, <2>4 DEF Origin
  <1>3. CASE set_config
    <2>1. Streams'
      BY <1>3 DEF set_config, Streams
    <2>2. Settled'
      BY <1>3, <1>0 DEF set_config, Settled, Sent
    <2>3. ASSUME NEW q \in Requests PROVE Reading(q)' /\ Read(q)'
      <3>1. /\ Reading(q) /\ Read(q)
            /\ pc'[q] = IF pc[q] = "waiting" THEN "orphaned" ELSE pc[q]
        BY <1>3, <1>0 DEF set_config
      <3>2. Read(q)'
        BY <1>3, <3>1 DEF set_config, Read
      <3>3. Reading(q)'
        BY <1>3, <3>1, ClientAssumption DEF set_config, Reading, Holding, InFlight, CallTypes
      <3> QED
        BY <3>2, <3>3
    <2> QED
      BY <2>1, <2>2, <2>3 DEF Origin
  <1>4. ASSUME NEW r \in Requests, PoolStopped(r)
         PROVE Origin'
    <2>1. tid' = tid
      BY <1>4 DEF PoolStopped, Return, Leave
    <2>2. Streams'
      BY <1>4, <2>1, <1>0, StreamsUnchanged DEF PoolStopped
    <2> QED
      BY <1>4, <2>2, FailureOrigin DEF PoolStopped, Results
  <1>5. ASSUME NEW r \in Requests, NEW c \in Connections, GetConnection(r, c)
         PROVE Origin'
    <2>1. PICK where \in {"writing", "clearing"} :
             /\ pc' = [pc EXCEPT ![r] = where]
             /\ connection' = [connection EXCEPT ![r] = c]
             /\ UNCHANGED <<tid, response, result, earlier>>
      BY <1>5 DEF GetConnection, Reconnected, goto
    <2>2. Streams'
      <3>1. CASE Reconnected(c)
        <4>1. ASSUME NEW d \in Connections, d # c
              PROVE  /\ rx'[d] = rx[d] /\ wire'[d] = wire[d]
                     /\ srv'[d] = srv[d] /\ Genuine(d)' = Genuine(d) /\ users'[d] = users[d]
          BY <2>1, <3>1, <4>1 DEF Reconnected, NetTypes, Genuine
        <4>2. rx'[c] = <<>> /\ wire'[c] = <<>> /\ srv'[c] = <<>>
          BY <3>1 DEF Reconnected, NetTypes
        <4>3. ASSUME NEW d \in Connections
              PROVE  /\ rx'[d] \in Seq(Genuine(d)')
                     /\ wire'[d] \in Seq(Genuine(d)')
                     /\ srv'[d] \in Seq(users'[d])
          <5>1. CASE d = c
            BY <4>2, <5>1, EmptySeq
          <5>2. CASE d # c
            BY <1>0, <4>1, <5>2 DEF Streams
          <5> QED
            BY <5>1, <5>2
        <4> QED
          BY <4>3 DEF Streams
      <3>2. CASE UNCHANGED <<netVars, ghostVars>>
        BY <1>0, <2>1, <3>2, StreamsUnchanged
      <3> QED
        BY <1>5, <3>1, <3>2 DEF GetConnection
    <2>3. \A d \in Connections : users'[d] = users[d] \/ (users'[d] = {} /\ d = c)
      BY <1>5 DEF GetConnection, Reconnected, NetTypes
    <2>4. Settled'
      BY <1>0, <2>1, <2>3 DEF Settled, Sent, CallTypes
    <2>5. ASSUME NEW q \in Requests PROVE Reading(q)' /\ Read(q)'
      <3>1. Reading(q) /\ Read(q)
        BY <1>0
      <3>2. CASE q = r
        BY <1>5, <2>1, <3>1, <3>2 DEF GetConnection, Reading, Read, CallTypes
      <3>3. CASE q # r
        <4>1. pc'[q] = pc[q] /\ connection'[q] = connection[q]
          BY <2>1, <3>3 DEF CallTypes
        <4>2. pc[q] \in {"readHeader", "readBody", "readEmpty"} =>
                 /\ connection[q] \in Connections
                 /\ users'[connection[q]] \subseteq users[connection[q]]
          BY <2>3 DEF Holding, InFlight, CallTypes
        <4> QED
          BY <2>1, <3>1, <4>1, <4>2 DEF Reading, Read
      <3> QED
        BY <3>2, <3>3
    <2> QED
      BY <2>2, <2>4, <2>5 DEF Origin
  <1>6. ASSUME NEW r \in Requests, NEW c \in Connections, GetDeadConnection(r, c)
         PROVE Origin'
    <2>1. tid' = tid
      BY <1>6 DEF GetDeadConnection, Return, Leave
    <2>2. Streams'
      BY <1>6, <2>1, <1>0, StreamsUnchanged DEF GetDeadConnection
    <2> QED
      BY <1>6, <2>2, FailureOrigin DEF GetDeadConnection, Results
  <1>7. ASSUME NEW r \in Requests, ClearFails(r)
         PROVE Origin'
    <2>1. tid' = tid
      BY <1>7 DEF ClearFails, Return, Leave
    <2>2. Streams'
      BY <1>7, <2>1, <1>0, StreamsUnchanged DEF ClearFails
    <2> QED
      BY <1>7, <2>2, FailureOrigin DEF ClearFails, Results
  <1>8. ASSUME NEW r \in Requests, ClearRead(r)
         PROVE Origin'
    <2>1. /\ pc' = [pc EXCEPT ![r] = "writing"]
          /\ UNCHANGED <<tid, connection, response, result, users, earlier>>
      BY <1>8 DEF ClearRead, goto
    <2>2. Streams'
      <3>1. connection[r] \in Connections /\ available[r] \in Nat
        BY <1>8 DEF ClearRead, CallTypes, Holding, InFlight
      <3>2. \A c \in Connections : rx'[c] \in Seq(Genuine(c))
        BY <1>8, <1>0, <3>1, SuffixInSeq DEF ClearRead, Streams, NetTypes
      <3> QED
        BY <1>8, <1>0, <2>1, <3>2, StreamsGrow DEF ClearRead, Streams
    <2>3. Settled' /\ \A q \in Requests \ {r} : Reading(q)' /\ Read(q)'
      BY <2>1, LocalStep DEF Places
    <2>4. Reading(r)' /\ Read(r)'
      BY <1>8, <1>0, <2>1 DEF ClearRead, CallTypes, Reading, Read
    <2> QED
      BY <2>2, <2>3, <2>4 DEF Origin
  <1>9. ASSUME NEW r \in Requests, WriteDone(r)
         PROVE Origin'
    <2>1. /\ pc[r] = "writing" /\ pc' = [pc EXCEPT ![r] = "readHeader"]
          /\ UNCHANGED <<tid, connection, response, result>>
      BY <1>9 DEF WriteDone, goto
    <2>2. Streams' /\ Settled' /\ \A q \in Requests \ {r} : Reading(q)' /\ Read(q)'
      BY <1>9, <2>1, WrittenOrigin DEF WriteDone, Places
    <2>3. connection[r] \in Connections
      BY <2>1 DEF CallTypes, Holding, InFlight
    <2>4. Reading(r)' /\ Read(r)'
      <3>1. /\ users'[connection[r]] = users[connection[r]] \cup {r}
            /\ earlier'[r] = users[connection[r]]
        BY <1>9, <2>3 DEF WriteDone, Written, NetTypes
      <3>2. pc'[r] = "readHeader" /\ Read(r)
        BY <1>0, <2>1 DEF CallTypes
      <3>3. response[r].of = Null /\ result[r] # "success"
        BY <2>1, <3>2 DEF Read
      <3> QED
        BY <2>1, <3>1, <3>2, <3>3 DEF Reading, Read
    <2> QED
      BY <2>2, <2>4 DEF Origin
  <1>10. ASSUME NEW r \in Requests, WriteFails(r)
         PROVE Origin'
    <2>1. tid' = tid
      BY <1>10 DEF WriteFails, Return, Leave
    <2>2. Streams'
      BY <1>10, <2>1, <1>0, StreamsUnchanged DEF WriteFails
    <2> QED
      BY <1>10, <2>2, FailureOrigin DEF WriteFails, Results
  <1>11. ASSUME NEW r \in Requests, WriteTimesOut(r)
         PROVE Origin'
    <2>1. /\ pc' = [pc EXCEPT ![r] = "returned"]
          /\ response' = [response EXCEPT ![r] = Empty]
          /\ result' = [result EXCEPT ![r] = "write_timeout"]
          /\ connection' = [connection EXCEPT ![r] = Null]
          /\ tid' = tid
      BY <1>11 DEF WriteTimesOut, Return, Leave, goto
    <2>2. CASE Written(r)
      <3>1. \A q \in Requests \ {r} : /\ connection'[q] = connection[q]
                                      /\ response'[q] = response[q]
                                      /\ result'[q] = result[q]
        BY <2>1 DEF CallTypes
      <3>2. Streams' /\ Settled' /\ \A q \in Requests \ {r} : Reading(q)' /\ Read(q)'
        BY <1>11, <2>1, <2>2, <3>1, WrittenOrigin DEF WriteTimesOut, Places
      <3>3. Reading(r)' /\ Read(r)'
        BY <2>1 DEF CallTypes, Reading, Read, Empty
      <3> QED
        BY <3>2, <3>3 DEF Origin
    <2>3. CASE UNCHANGED <<netVars, ghostVars>>
      BY <1>11, <1>0, <2>1, <2>3, StreamsUnchanged, FailureOrigin DEF WriteTimesOut, Results
    <2> QED
      BY <1>11, <2>2, <2>3 DEF WriteTimesOut
  <1>12. ASSUME NEW r \in Requests, ReadHeader(r)
         PROVE Origin'
    <2>1. connection[r] \in Connections /\ rx[connection[r]] \in Seq(Genuine(connection[r]))
      BY <1>12, <1>0 DEF ReadHeader, CallTypes, Holding, InFlight, Streams
    <2>2. tid' = tid
      BY <1>12 DEF ReadHeader, HeaderRead, Return, Leave
    <2>3. Streams'
      <3>1. PICK u \in Seq(Genuine(connection[r])) : rx' = [rx EXCEPT ![connection[r]] = u]
        BY <1>12, <2>1, RemaindersInSeq, PieceGenuine, HeadTailProperties DEF ReadHeader
      <3>2. \A c \in Connections : rx'[c] \in Seq(Genuine(c))
        BY <1>0, <2>1, <3>1 DEF Streams, NetTypes
      <3> QED
        BY <1>12, <1>0, <2>2, <3>2, StreamsGrow DEF ReadHeader, Streams
    <2>4. ASSUME NEW h, HeaderRead(r, h),
                 h.of # Null => h.of \in users[connection[r]] /\ h.id = tid[h.of]
          PROVE  Origin'
      <3>1. CASE h.len = "over"
        BY <1>12, <2>3, <2>4, <3>1, FailureOrigin DEF ReadHeader, HeaderRead, Results
      <3>2. CASE h.len # "over"
        <4>1. PICK where \in {"readEmpty", "readBody"} : pc' = [pc EXCEPT ![r] = where]
          BY <2>4, <3>2 DEF HeaderRead, goto
        <4>2. /\ response' = [response EXCEPT ![r] = [id |-> h.id, of |-> h.of]]
              /\ UNCHANGED <<tid, connection, result, users, earlier>>
          BY <1>12, <2>4, <3>2 DEF HeaderRead, ReadHeader
        <4>3. Settled' /\ \A q \in Requests \ {r} : Reading(q)' /\ Read(q)'
          <5>1. \A q \in Requests \ {r} : response'[q] = response[q]
            BY <4>2 DEF CallTypes
          <5> QED
            BY <4>1, <4>2, <5>1, LocalStep DEF Places
        <4>4. pc[r] = "readHeader" /\ Reading(r) /\ Read(r)
          BY <1>12, <1>0 DEF ReadHeader
        <4>5. response'[r] = [id |-> h.id, of |-> h.of] /\ pc'[r] = where
          BY <4>1, <4>2 DEF CallTypes
        <4>6. Reading(r)'
          BY <4>2, <4>4 DEF Reading
        <4>7. Read(r)'
          BY <2>4, <4>2, <4>4, <4>5 DEF Reading, Read
        <4> QED
          BY <2>3, <4>3, <4>6, <4>7 DEF Origin
      <3> QED
        BY <3>1, <3>2
    <2>5. rx[connection[r]] # <<>> => Head(rx[connection[r]]) \in Genuine(connection[r])
      BY <2>1, HeadTailProperties
    <2> QED
      BY <1>12, <2>4, <2>5 DEF ReadHeader, Header, Genuine
  <1>13. ASSUME NEW r \in Requests, ReadBody(r)
         PROVE Origin'
    <2>1. connection[r] \in Connections /\ rx[connection[r]] \in Seq(Genuine(connection[r]))
      BY <1>13, <1>0 DEF ReadBody, CallTypes, Holding, InFlight, Streams
    <2>2. tid' = tid
      BY <1>13 DEF ReadBody, HeaderRead, Return, Leave
    <2>3. Streams'
      <3>1. PICK u \in Seq(Genuine(connection[r])) : rx' = [rx EXCEPT ![connection[r]] = u]
        BY <1>13, <2>1, RemaindersInSeq, PieceGenuine, HeadTailProperties DEF ReadBody
      <3>2. \A c \in Connections : rx'[c] \in Seq(Genuine(c))
        BY <1>0, <2>1, <3>1 DEF Streams, NetTypes
      <3> QED
        BY <1>13, <1>0, <2>2, <3>2, StreamsGrow DEF ReadBody, Streams
    <2>4. /\ pc[r] = "readBody" /\ Reading(r) /\ Read(r)
          /\ UNCHANGED <<users, earlier>>
      BY <1>13, <1>0 DEF ReadBody
    <2>5. CASE Stale(r)
      <3>1. /\ pc' = [pc EXCEPT ![r] = "readHeader"]
            /\ UNCHANGED <<connection, response, result>>
        BY <1>13, <2>5 DEF ReadBody, goto
      <3>2. Settled' /\ \A q \in Requests \ {r} : Reading(q)' /\ Read(q)'
        BY <2>2, <2>4, <3>1, LocalStep DEF Places
      <3>3. Reading(r)' /\ Read(r)'
        BY <2>2, <2>4, <3>1 DEF CallTypes, Reading, Read
      <3> QED
        BY <2>3, <3>2, <3>3 DEF Origin
    <2>6. CASE ~Stale(r)
      <3>1. /\ pc' = [pc EXCEPT ![r] = "returned"]
            /\ response' = [response EXCEPT ![r] = response[r]]
            /\ result' = [result EXCEPT ![r] = "success"]
            /\ connection' = [connection EXCEPT ![r] = Null]
        BY <1>13, <2>6 DEF ReadBody, Return, Leave, goto
      <3>2. Settled' /\ \A q \in Requests \ {r} : Reading(q)' /\ Read(q)'
        <4>1. \A q \in Requests \ {r} : /\ connection'[q] = connection[q]
                                        /\ response'[q] = response[q]
                                        /\ result'[q] = result[q]
          BY <3>1 DEF CallTypes
        <4> QED
          BY <2>2, <2>4, <3>1, <4>1, LocalStep DEF Places
      <3>3. response[r].id >= tid[r]
        BY <2>6, ClientAssumption DEF Stale, CallTypes, Ids
      <3>4. Reading(r)' /\ Read(r)'
        BY <2>2, <2>4, <3>1, <3>3 DEF CallTypes, Reading, Read
      <3> QED
        BY <2>3, <3>2, <3>4 DEF Origin
    <2> QED
      BY <2>5, <2>6
  <1>14. ASSUME NEW r \in Requests, ReadEmpty(r)
         PROVE Origin'
    <2>1. tid' = tid
      BY <1>14 DEF ReadEmpty, Return, Leave
    <2>2. Streams'
      BY <1>14, <2>1, <1>0, StreamsUnchanged DEF ReadEmpty
    <2> QED
      BY <1>14, <2>2, FailureOrigin DEF ReadEmpty, Results
  <1>15. ASSUME NEW r \in Requests, ReadFails(r)
         PROVE Origin'
    <2>1. tid' = tid
      BY <1>15 DEF ReadFails, Return, Leave
    <2>2. Streams'
      BY <1>15, <2>1, <1>0, StreamsUnchanged DEF ReadFails
    <2> QED
      BY <1>15, <2>2, FailureOrigin DEF ReadFails, Results
  <1>16. ASSUME NEW r \in Requests, ReadTimesOut(r)
         PROVE Origin'
    <2>1. tid' = tid
      BY <1>16 DEF ReadTimesOut, Return, Leave
    <2>2. Streams'
      BY <1>16, <2>1, <1>0, StreamsUnchanged DEF ReadTimesOut
    <2> QED
      BY <1>16, <2>2, FailureOrigin DEF ReadTimesOut, Results
  <1>17. ASSUME NEW c \in Connections, NEW l \in ServerLengths, ServerAnswers(c, l)
         PROVE Origin'
    <2>1. Streams'
      <3>1. Head(srv[c]) \in users[c] /\ Tail(srv[c]) \in Seq(users[c])
        BY <1>17, <1>0, HeadTailProperties DEF ServerAnswers, Streams
      <3>2. Header(tid[Head(srv[c])], Head(srv[c]), l) \in Genuine(c)
        BY <3>1, ClientAssumption DEF CallTypes, NetTypes, Header, Units, Genuine
      <3>3. Answers(Head(srv[c]), l) \in Seq(Genuine(c))
        BY <3>2, PieceGenuine DEF Answers
      <3>4. wire[c] \o Answers(Head(srv[c]), l) \in Seq(Genuine(c))
        BY <1>0, <3>3, ConcatProperties DEF Streams
      <3>5. \A d \in Connections : /\ rx'[d] \in Seq(Genuine(d))
                                   /\ wire'[d] \in Seq(Genuine(d))
                                   /\ srv'[d] \in Seq(users'[d])
        BY <1>17, <1>0, <3>1, <3>4 DEF ServerAnswers, Streams, NetTypes
      <3> QED
        BY <1>17, <1>0, <3>5, StreamsGrow DEF ServerAnswers
    <2>2. Settled' /\ \A q \in Requests : Reading(q)' /\ Read(q)'
      BY <1>17, <1>0 DEF ServerAnswers, Settled, Sent, Reading, Read
    <2> QED
      BY <2>1, <2>2 DEF Origin
  <1>18. ASSUME NEW c \in Connections, Arrives(c)
         PROVE Origin'
    <2>1. Streams'
      <3>1. Head(wire[c]) \in Genuine(c) /\ Tail(wire[c]) \in Seq(Genuine(c))
        BY <1>18, <1>0, HeadTailProperties DEF Arrives, Streams
      <3>2. Append(rx[c], Head(wire[c])) \in Seq(Genuine(c))
        BY <1>0, <3>1, AppendProperties DEF Streams
      <3>3. \A d \in Connections : /\ rx'[d] \in Seq(Genuine(d))
                                   /\ wire'[d] \in Seq(Genuine(d))
                                   /\ srv'[d] \in Seq(users'[d])
        BY <1>18, <1>0, <3>1, <3>2 DEF Arrives, Streams, NetTypes
      <3> QED
        BY <1>18, <1>0, <3>3, StreamsGrow DEF Arrives
    <2>2. Settled' /\ \A q \in Requests : Reading(q)' /\ Read(q)'
      BY <1>18, <1>0 DEF Arrives, Settled, Sent, Reading, Read
    <2> QED
      BY <2>1, <2>2 DEF Origin
  <1>19. ASSUME NEW c \in Connections, Disconnects(c)
         PROVE Origin'
    <2>1. Streams'
      <3>1. \A d \in Connections : /\ rx'[d] \in Seq(Genuine(d))
                                   /\ wire'[d] \in Seq(Genuine(d))
                                   /\ srv'[d] \in Seq(users'[d])
        BY <1>19, <1>0 DEF Disconnects, Streams, NetTypes
      <3> QED
        BY <1>19, <1>0, <3>1, StreamsGrow DEF Disconnects
    <2>2. Settled' /\ \A q \in Requests : Reading(q)' /\ Read(q)'
      BY <1>19, <1>0 DEF Disconnects, Settled, Sent, Reading, Read
    <2> QED
      BY <2>1, <2>2 DEF Origin
  <1>20. ASSUME NEW c \in Connections, NEW i \in 0 .. Len(srv[c]) - 1,
                NEW j \in i + 2 .. Len(srv[c]) + 1, ServerForgets(c, i, j)
         PROVE Origin'
    <2>1. Streams'
      <3>1. SubSeq(srv[c], 1, i) \o SubSeq(srv[c], j, Len(srv[c])) \in Seq(users[c])
        BY <1>0, GapInSeq DEF Streams
      <3>2. \A d \in Connections : /\ rx'[d] \in Seq(Genuine(d))
                                   /\ wire'[d] \in Seq(Genuine(d))
                                   /\ srv'[d] \in Seq(users'[d])
        BY <1>20, <1>0, <3>1 DEF ServerForgets, Streams, NetTypes
      <3> QED
        BY <1>20, <1>0, <3>2, StreamsGrow DEF ServerForgets
    <2>2. Settled' /\ \A q \in Requests : Reading(q)' /\ Read(q)'
      BY <1>20, <1>0 DEF ServerForgets, Settled, Sent, Reading, Read
    <2> QED
      BY <2>1, <2>2 DEF Origin
  <1>21. ASSUME NEW c \in Connections, NEW u \in Fragments, ServerGarbles(c, u)
         PROVE Origin'
    <2>1. Streams'
      <3>1. u \in Genuine(c)
        BY FragmentUnits DEF Genuine
      <3>2. Append(wire[c], u) \in Seq(Genuine(c))
        BY <1>0, <3>1, AppendProperties DEF Streams
      <3>3. srv[c] # <<>> => Tail(srv[c]) \in Seq(users[c])
        BY <1>0, HeadTailProperties DEF Streams
      <3>4. \A d \in Connections : /\ rx'[d] \in Seq(Genuine(d))
                                   /\ wire'[d] \in Seq(Genuine(d))
                                   /\ srv'[d] \in Seq(users'[d])
        BY <1>21, <1>0, <3>2, <3>3 DEF ServerGarbles, Streams, NetTypes
      <3> QED
        BY <1>21, <1>0, <3>4, StreamsGrow DEF ServerGarbles
    <2>2. Settled' /\ \A q \in Requests : Reading(q)' /\ Read(q)'
      BY <1>21, <1>0 DEF ServerGarbles, Settled, Sent, Reading, Read
    <2> QED
      BY <2>1, <2>2 DEF Origin
  <1>22. CASE UNCHANGED vars
    <2>1. Streams'
      BY <1>22, <1>0, StreamsUnchanged
    <2>2. Settled' /\ \A q \in Requests : Reading(q)' /\ Read(q)'
      BY <1>22, <1>0 DEF Settled, Sent, Reading, Read
    <2> QED
      BY <2>1, <2>2 DEF Origin
  <1> QED
    BY <1>1, <1>2, <1>3, <1>4, <1>5, <1>6, <1>7, <1>8, <1>9, <1>10,
       <1>11, <1>12, <1>13, <1>14, <1>15, <1>16, <1>17, <1>18, <1>19,
       <1>20, <1>21, <1>22
    DEF Next, Environment, RequestStep, Acquire

LEMMA OriginInvariant == Spec => [](TypeOK /\ Holding /\ Exclusive /\ Origin)
  <1>1. Init => Origin
    <2> SUFFICES ASSUME Init PROVE Origin
      OBVIOUS
    <2>1. Settled /\ Streams
      BY DEF Init, Settled, Streams
    <2>2. \A r \in Requests : Reading(r) /\ Read(r)
      BY DEF Init, Reading, Read, Empty
    <2> QED
      BY <2>1, <2>2 DEF Origin
  <1>2. TypeOK /\ Holding /\ Exclusive /\ Origin /\ [Next]_vars => Origin'
    BY OriginStep
  <1> QED
    BY <1>1, <1>2, ExclusiveInvariant, PTL DEF Spec

(* A complete answer that send_request returns is the answer to its own    *)
(* request whenever the requests written earlier on the connection have    *)
(* smaller transaction ids.                                                *)
THEOREM OlderAnswersAreSkipped == Spec => []OlderAnswersSkipped
  <1>1. TypeOK /\ Origin => OlderAnswersSkipped
    <2> SUFFICES ASSUME TypeOK, Origin, NEW r \in Requests,
                        result[r] = "success", response[r].of # Null,
                        \A q \in earlier[r] : tid[q] < tid[r],
                        response[r].of # r
                 PROVE  FALSE
      BY DEF OlderAnswersSkipped
    <2>1. Read(r)
      BY DEF Origin
    <2>2. response[r].of \in earlier[r] /\ response[r].id = tid[response[r].of]
      BY <2>1 DEF Read
    <2>3. tid[response[r].of] < tid[r] /\ tid[response[r].of] >= tid[r]
      BY <2>1, <2>2 DEF Read
    <2>4. tid[response[r].of] \in Int /\ tid[r] \in Int
      BY <2>2, ClientAssumption DEF TypeOK, Ids
    <2> QED
      BY <2>3, <2>4
  <1> QED
    BY <1>1, OriginInvariant, PTL
=============================================================================
