----------------------- MODULE TcpClientHistoryProofs -----------------------
(***************************************************************************)
(* A call whose predecessors on the connection were all answered is        *)
(* answered too, by a server that writes whole answers: the proof of       *)
(* CleanHistoryOwnAnswer from the alignment of the octet stream.           *)
(***************************************************************************)
EXTENDS TcpClientProofs

Ended == {"returned", "threw"}
Reads == {"readHeader", "readBody", "readEmpty"}

(* Who has written on a connection reads from it or has left it, who reads *)
(* has written, and what was written on a connection before a request was  *)
(* over by then.                                                           *)
Book ==
    /\ \A c \in Connections : \A q \in users[c] :
          /\ pc[q] \in Reads \cup Ended
          /\ connection[q] \in {c, Null}
    /\ \A r \in Requests : \A q \in earlier[r] : q # r /\ pc[q] \in Ended
    /\ process = "up" =>
          \A r \in Requests : pc[r] \in Reads => r \in users[connection[r]]

(* Everybody who has written on c still holds it or got its own answer. *)
Unspoilt(c) == \A q \in users[c] : connection[q] = c \/ Clean(q)

Quiet(c) == rx[c] = <<>> /\ wire[c] = <<>> /\ srv[c] = <<>>

Own(r) == {Header(tid[r], r, l) : l \in {"fits", "over", "zero"}}

(* The reader at a header finds nothing yet, or its own answer. *)
AtHeader(r, c) ==
    \/ rx[c] = <<>> /\ wire[c] = <<>> /\ srv[c] \in {<<>>, <<r>>}
    \/ /\ srv[c] = <<>>
       /\ \E h \in Own(r) :
             \/ rx[c] = <<>> /\ wire[c] \in {<<h>>, <<h, Piece>>}
             \/ rx[c] = <<h>> /\ wire[c] \in {<<>>, <<Piece>>}
             \/ rx[c] = <<h, Piece>> /\ wire[c] = <<>>

(* The reader at a body has its own header and finds at most its own body. *)
AtBody(r, c) ==
    /\ srv[c] = <<>>
    /\ \/ rx[c] = <<>> /\ wire[c] \in {<<>>, <<Piece>>}
       \/ rx[c] = <<Piece>> /\ wire[c] = <<>>
    /\ response[r].of = r

(* As long as nobody has left an answer behind, the stream holds exactly   *)
(* what its reader expects.                                                *)
Aligned(c) ==
    Unspoilt(c) =>
        /\ (\A q \in users[c] : connection[q] # c) => Quiet(c)
        /\ \A q \in users[c] : connection[q] = c =>
              /\ pc[q] = "readHeader" => AtHeader(q, c)
              /\ pc[q] = "readBody" => AtBody(q, c)

(* The claim of CleanHistoryOwnAnswer for one call. *)
OwnAnswer(r) ==
    result[r] = "success" /\ (\A q \in earlier[r] : Clean(q)) => Clean(r)

History ==
    /\ process = "up" => \A c \in Connections : Aligned(c)
    /\ \A r \in Requests : OwnAnswer(r)

-----------------------------------------------------------------------------
(* The book *)

(* A step of a call that writes nothing keeps the book: it goes on reading *)
(* with its connection, or it leaves.                                      *)
LEMMA CallBook ==
  ASSUME CallTypes, NetTypes, Book, NEW r \in Requests, NEW where,
         pc' = [pc EXCEPT ![r] = where],
         UNCHANGED <<users, earlier, process>>,
         \A q \in Requests \ {r} : connection'[q] = connection[q],
         \/ where \in Ended /\ connection'[r] = Null
         \/ pc[r] \in Reads /\ where \in Reads /\ connection'[r] = connection[r]
         \/ pc[r] \notin Reads \cup Ended /\ where \notin Reads
  PROVE  Book'
  <1>1. ASSUME NEW c \in Connections, NEW q \in users'[c]
        PROVE  pc'[q] \in Reads \cup Ended /\ connection'[q] \in {c, Null}
    BY <1>1 DEF Book, CallTypes, NetTypes
  <1>2. ASSUME NEW p \in Requests, NEW q \in earlier'[p]
        PROVE  q # p /\ pc'[q] \in Ended
    BY <1>2 DEF Book, CallTypes, NetTypes, Ended, Reads
  <1>3. ASSUME process' = "up", NEW q \in Requests, pc'[q] \in Reads
        PROVE  q \in users'[connection'[q]]
    BY <1>3 DEF Book, CallTypes, Ended, Reads
  <1> QED
    BY <1>1, <1>2, <1>3 DEF Book

(* So does leaving with an error or with an answer. *)
LEMMA LeaveBook ==
  ASSUME CallTypes, NetTypes, Book, NEW r \in Requests, NEW how \in Ended,
         NEW e, NEW u, Leave(r, how, e, u), UNCHANGED <<users, earlier>>
  PROVE  Book'
  <1>1. /\ pc' = [pc EXCEPT ![r] = how]
        /\ connection' = [connection EXCEPT ![r] = Null]
        /\ process' = process
    BY DEF Leave, goto
  <1>2. \A q \in Requests \ {r} : connection'[q] = connection[q]
    BY <1>1 DEF CallTypes
  <1>3. connection'[r] = Null
    BY <1>1 DEF CallTypes
  <1> QED
    BY <1>1, <1>2, <1>3, CallBook

LEMMA FailureBook ==
  ASSUME CallTypes, NetTypes, Book, NEW r \in Requests, UNCHANGED <<users, earlier>>,
         \/ \E e : Return(r, e, Empty)
         \/ Leave(r, "threw", "exception", Empty)
  PROVE  Book'
  BY LeaveBook DEF Return, Ended

(* When a call writes, everybody who wrote before on its connection has    *)
(* left it.                                                                *)
LEMMA PredecessorsEnded ==
  ASSUME CallTypes, NetTypes, Holding, Exclusive, Book, process = "up",
         NEW r \in Requests, pc[r] = "writing",
         NEW q \in users[connection[r]]
  PROVE  q # r /\ q \in Requests /\ pc[q] \in Ended /\ connection[q] = Null
  <1>1. connection[r] \in Connections
    BY DEF CallTypes, Holding, InFlight
  <1>2. q \in Requests /\ pc[q] \in Reads \cup Ended /\ connection[q] \in {connection[r], Null}
    BY <1>1 DEF Book, NetTypes
  <1>3. q # r
    BY <1>2 DEF Reads, Ended
  <1>4. connection[q] = Null
    BY <1>1, <1>2, <1>3, ClientAssumption DEF Exclusive
  <1> QED
    BY <1>2, <1>3, <1>4 DEF Holding, InFlight, Reads

(* Writing enters the request in the book. *)
LEMMA WrittenBook ==
  ASSUME CallTypes, NetTypes, Holding, Exclusive, Book, process = "up",
         NEW r \in Requests, pc[r] = "writing", Written(r), NEW where,
         pc' = [pc EXCEPT ![r] = where],
         \/ where = "readHeader" /\ connection' = connection
         \/ where \in Ended /\ connection' = [connection EXCEPT ![r] = Null]
  PROVE  Book'
  <1>1. connection[r] \in Connections
    BY DEF CallTypes, Holding, InFlight
  <1>2. /\ users' = [users EXCEPT ![connection[r]] = @ \cup {r}]
        /\ earlier' = [earlier EXCEPT ![r] = users[connection[r]]]
    BY DEF Written
  <1>3. \A q \in users[connection[r]] : q # r /\ q \in Requests /\ pc[q] \in Ended
    BY PredecessorsEnded
  <1>4. ASSUME NEW c \in Connections, NEW q \in users'[c]
        PROVE  pc'[q] \in Reads \cup Ended /\ connection'[q] \in {c, Null}
    <2>1. q \in Requests /\ (q \in users[c] \/ (q = r /\ c = connection[r]))
      BY <1>1, <1>2, <1>4 DEF NetTypes
    <2>2. CASE q = r
      <3>1. c = connection[r]
        BY <2>1, <2>2 DEF Book, Reads, Ended
      <3>2. pc'[r] = where
        BY DEF CallTypes
      <3>3. connection'[r] = connection[r] \/ connection'[r] = Null
        BY DEF CallTypes
      <3> QED
        BY <2>2, <3>1, <3>2, <3>3 DEF Reads
    <2>3. CASE q # r
      <3>1. q \in users[c] /\ pc'[q] = pc[q] /\ connection'[q] = connection[q]
        BY <2>1, <2>3 DEF CallTypes
      <3> QED
        BY <3>1 DEF Book
    <2> QED
      BY <2>2, <2>3
  <1>5. ASSUME NEW p \in Requests, NEW q \in earlier'[p]
        PROVE  q # p /\ pc'[q] \in Ended
    <2>1. q # p /\ pc[q] \in Ended /\ q \in Requests
      BY <1>2, <1>3, <1>5 DEF Book, NetTypes
    <2>2. q # r
      BY <2>1 DEF Ended
    <2> QED
      BY <2>1, <2>2 DEF CallTypes
  <1>6. ASSUME NEW q \in Requests, pc'[q] \in Reads
        PROVE  q \in users'[connection'[q]]
    <2>1. CASE q = r
      <3>1. connection'[r] = connection[r]
        BY <1>6, <2>1 DEF CallTypes, Reads, Ended
      <3> QED
        BY <1>1, <1>2, <2>1, <3>1 DEF NetTypes
    <2>2. CASE q # r
      <3>1. pc[q] \in Reads /\ connection'[q] = connection[q]
        BY <1>6, <2>2 DEF CallTypes
      <3>2. q \in users[connection[q]] /\ connection[q] \in Connections
        BY <3>1 DEF Book, Holding, InFlight, Reads, CallTypes
      <3> QED
        BY <1>1, <1>2, <3>1, <3>2 DEF NetTypes
    <2> QED
      BY <2>1, <2>2
  <1> QED
    BY <1>4, <1>5, <1>6 DEF Book

(* Every step keeps the book. *)
LEMMA BookStep == TypeOK /\ Holding /\ Exclusive /\ Book /\ [Next]_vars => Book'
  <1> SUFFICES ASSUME CallTypes, NetTypes, Holding, Exclusive, Book, [Next]_vars
               PROVE  Book'
    BY TypeParts
  <1> USE DEF vars, clientVars, poolVars, netVars, ghostVars
  <1>1. ASSUME NEW r \in Requests, create_request(r) \/ send_request(r) \/ ClearRead(r)
        PROVE  Book'
    <2>1. PICK where : pc' = [pc EXCEPT ![r] = where] /\ where \notin Reads
      BY <1>1 DEF create_request, send_request, ClearRead, goto, Reads
    <2>2. pc[r] \notin Reads \cup Ended /\ UNCHANGED <<users, earlier, connection, process>>
      BY <1>1 DEF create_request, send_request, ClearRead, Reads, Ended
    <2> QED
      BY <2>1, <2>2, CallBook
  <1>2. CASE set_config
    <2>1. \A c \in Connections : users'[c] = {}
      BY <1>2 DEF set_config
    <2>2. \A q \in Requests : pc[q] \in Ended => pc'[q] \in Ended
      BY <1>2 DEF set_config, Ended
    <2>3. process' = "up" => \A q \in Requests : pc'[q] \notin Reads
      BY <1>2 DEF set_config, InFlight, Reads
    <2> QED
      BY <1>2, <2>1, <2>2, <2>3 DEF set_config, Book, NetTypes
  <1>3. ASSUME NEW r \in Requests,
               \/ PoolStopped(r) \/ ClearFails(r) \/ WriteFails(r)
               \/ ReadEmpty(r) \/ ReadFails(r) \/ ReadTimesOut(r)
        PROVE  Book'
    BY <1>3, FailureBook
    DEF PoolStopped, ClearFails, WriteFails, ReadEmpty, ReadFails, ReadTimesOut
  <1>4. ASSUME NEW r \in Requests, NEW c \in Connections, GetDeadConnection(r, c)
        PROVE  Book'
    BY <1>4, FailureBook DEF GetDeadConnection
  <1>5. ASSUME NEW r \in Requests, NEW c \in Connections, GetConnection(r, c)
        PROVE  Book'
    <2>1. PICK where \in {"writing", "clearing"} : pc' = [pc EXCEPT ![r] = where]
      BY <1>5 DEF GetConnection, goto
    <2>2. pc[r] = "waiting" /\ connection' = [connection EXCEPT ![r] = c] /\ earlier' = earlier
      BY <1>5 DEF GetConnection, Reconnected
    <2>3. \A d \in Connections : users'[d] \subseteq users[d]
      BY <1>5 DEF GetConnection, Reconnected, NetTypes
    <2>4. ASSUME NEW q \in Requests, pc'[q] \in Reads
          PROVE  q \in users'[connection'[q]]
      <3>1. q # r
        BY <2>1, <2>4 DEF CallTypes, Reads
      <3>2. pc[q] \in Reads /\ connection'[q] = connection[q]
        BY <2>1, <2>2, <2>4, <3>1 DEF CallTypes
      <3>3. /\ q \in users[connection[q]] /\ connection[q] \in Connections
            /\ connection[q] # c
        BY <1>5, <3>2 DEF GetConnection, Book, Holding, InFlight, Reads, CallTypes, Exclusive
      <3>4. \A d \in Connections : d # c => users'[d] = users[d]
        BY <1>5 DEF GetConnection, Reconnected, NetTypes
      <3> QED
        BY <3>2, <3>3, <3>4
    <2>5. ASSUME NEW d \in Connections, NEW q \in users'[d]
          PROVE  pc'[q] \in Reads \cup Ended /\ connection'[q] \in {d, Null}
      <3>1. q \in Requests /\ pc[q] \in Reads \cup Ended /\ connection[q] \in {d, Null}
        BY <2>3, <2>5 DEF Book, NetTypes
      <3>2. q # r
        BY <2>2, <3>1 DEF Reads, Ended
      <3> QED
        BY <2>1, <2>2, <3>1, <3>2 DEF CallTypes
    <2>6. ASSUME NEW p \in Requests, NEW q \in earlier'[p]
          PROVE  q # p /\ pc'[q] \in Ended
      <3>1. q \in Requests /\ q # p /\ pc[q] \in Ended
        BY <2>2, <2>6 DEF Book, NetTypes
      <3>2. q # r
        BY <2>2, <3>1 DEF Ended
      <3> QED
        BY <2>1, <3>1, <3>2 DEF CallTypes
    <2> QED
      BY <2>4, <2>5, <2>6 DEF Book
  <1>6. ASSUME NEW r \in Requests, WriteDone(r)
        PROVE  Book'
    BY <1>6, WrittenBook DEF WriteDone, goto
  <1>7. ASSUME NEW r \in Requests, WriteTimesOut(r)
        PROVE  Book'
    <2>1. CASE Written(r)
      BY <1>7, <2>1, WrittenBook DEF WriteTimesOut, Return, Leave, goto, Ended
    <2>2. CASE UNCHANGED <<netVars, ghostVars>>
      BY <1>7, <2>2, FailureBook DEF WriteTimesOut
    <2> QED
      BY <1>7, <2>1, <2>2 DEF WriteTimesOut
  <1>8. ASSUME NEW r \in Requests, ReadHeader(r)
        PROVE  Book'
    <2>1. pc[r] = "readHeader" /\ UNCHANGED <<users, earlier>>
      BY <1>8 DEF ReadHeader
    <2>2. ASSUME NEW h, HeaderRead(r, h)
          PROVE  Book'
      <3>1. CASE h.len = "over"
        BY <2>1, <2>2, <3>1, FailureBook DEF HeaderRead
      <3>2. CASE h.len # "over"
        <4>1. PICK where \in {"readEmpty", "readBody"} : pc' = [pc EXCEPT ![r] = where]
          BY <2>2, <3>2 DEF HeaderRead, goto
        <4>2. UNCHANGED <<connection, process>>
          BY <2>2, <3>2 DEF HeaderRead
        <4> QED
          BY <2>1, <4>1, <4>2, CallBook DEF Reads
      <3> QED
        BY <3>1, <3>2
    <2> QED
      BY <1>8, <2>2 DEF ReadHeader
  <1>9. ASSUME NEW r \in Requests, ReadBody(r)
        PROVE  Book'
    <2>1. pc[r] = "readBody" /\ UNCHANGED <<users, earlier>>
      BY <1>9 DEF ReadBody
    <2>2. CASE Stale(r)
      <3>1. pc' = [pc EXCEPT ![r] = "readHeader"] /\ UNCHANGED <<connection, process>>
        BY <1>9, <2>2 DEF ReadBody, goto
      <3> QED
        BY <2>1, <3>1, CallBook DEF Reads
    <2>3. CASE ~Stale(r)
      BY <1>9, <2>1, <2>3, LeaveBook DEF ReadBody, Return, Ended
    <2> QED
      BY <2>2, <2>3
  <1>10. ASSUME NEW c \in Connections,
                \/ \E l \in ServerLengths : ServerAnswers(c, l)
                \/ \E i, j : ServerForgets(c, i, j)
                \/ \E u : ServerGarbles(c, u)
                \/ Arrives(c) \/ Disconnects(c)
         PROVE  Book'
    <2>1. UNCHANGED <<pc, connection, users, earlier, process>>
      BY <1>10 DEF ServerAnswers, ServerForgets, ServerGarbles, Arrives, Disconnects
    <2> QED
      BY <2>1 DEF Book
  <1>11. CASE UNCHANGED vars
    BY <1>11 DEF Book
  <1> QED
    BY <1>1, <1>2, <1>3, <1>4, <1>5, <1>6, <1>7, <1>8, <1>9, <1>10, <1>11
    DEF Next, Environment, RequestStep, Acquire

-----------------------------------------------------------------------------
(* What one call touches *)

(* A step of a call leaves the other calls and the connections it does not *)
(* hold alone, and adds nothing to what there is to read.                  *)
LEMMA Footprint ==
  ASSUME TypeOK, Holding, NEW r \in Requests,
         create_request(r) \/ send_request(r) \/ RequestStep(r)
  PROVE  /\ process = "up" /\ process' = process /\ pc[r] \notin Ended
         /\ pc[r] \in Reads => pc'[r] \in Reads \cup Ended
         /\ pc'[r] = "readHeader" => WriteDone(r) \/ (ReadBody(r) /\ Stale(r))
         /\ \A q \in Requests \ {r} :
               /\ pc'[q] = pc[q] /\ connection'[q] = connection[q] /\ tid'[q] = tid[q]
               /\ response'[q] = response[q] /\ result'[q] = result[q]
         /\ \A k \in Connections :
               /\ connection[r] # k /\ connection'[r] # k =>
                     /\ rx'[k] = rx[k] /\ wire'[k] = wire[k]
                     /\ srv'[k] = srv[k] /\ users'[k] = users[k]
               /\ Len(rx'[k]) + Len(wire'[k]) <= Len(rx[k]) + Len(wire[k])
  <1> DEFINE Others == \A q \in Requests \ {r} :
                 /\ pc'[q] = pc[q] /\ connection'[q] = connection[q] /\ tid'[q] = tid[q]
                 /\ response'[q] = response[q] /\ result'[q] = result[q]
             Elsewhere == \A k \in Connections :
                 connection[r] # k /\ connection'[r] # k =>
                     /\ rx'[k] = rx[k] /\ wire'[k] = wire[k]
                     /\ srv'[k] = srv[k] /\ users'[k] = users[k]
             Shrinks == \A k \in Connections :
                 Len(rx'[k]) + Len(wire'[k]) <= Len(rx[k]) + Len(wire[k])
             Onward == /\ process = "up" /\ process' = process /\ pc[r] \notin Ended
                       /\ pc[r] \in Reads => pc'[r] \in Reads \cup Ended
             Back == pc'[r] = "readHeader" => WriteDone(r) \/ (ReadBody(r) /\ Stale(r))
             Goal == Others /\ Elsewhere /\ Shrinks /\ Onward /\ Back
  <1> SUFFICES Goal
    OBVIOUS
  <1>0. CallTypes /\ NetTypes
    BY TypeParts
  <1> USE <1>0 DEF vars, clientVars, poolVars, netVars, ghostVars
  <1>1. ASSUME UNCHANGED <<rx, wire>> PROVE Shrinks
    BY <1>1 DEF NetTypes
  <1>2. ASSUME NEW u \in Seq(Units), NEW n \in Nat
        PROVE  Len(SubSeq(u, n + 1, Len(u))) <= Len(u)
    OBVIOUS
  <1>3. ASSUME NEW u \in Seq(Units), NEW v \in Remainders(u)
        PROVE  v \in Seq(Units) /\ Len(v) <= Len(u)
    <2>1. PICK i \in 1 .. Len(u) :
             \/ v = SubSeq(u, i + 1, Len(u))
             \/ v = <<Piece>> \o SubSeq(u, i + 1, Len(u))
      BY <1>3 DEF Remainders
    <2>2. /\ SubSeq(u, i + 1, Len(u)) \in Seq(Units)
          /\ Len(SubSeq(u, i + 1, Len(u))) = Len(u) - i
      BY SuffixInSeq
    <2>3. <<Piece>> \in Seq(Units) /\ Len(<<Piece>>) = 1
      BY UnitTypes
    <2>4. <<Piece>> \o SubSeq(u, i + 1, Len(u)) \in Seq(Units)
      BY <2>2, <2>3, ConcatProperties
    <2>5. Len(<<Piece>> \o SubSeq(u, i + 1, Len(u))) = 1 + Len(u) - i
      BY <2>2, <2>3, ConcatProperties
    <2>6. Len(u) \in Nat
      OBVIOUS
    <2>7. CASE v = SubSeq(u, i + 1, Len(u))
      BY <2>2, <2>6, <2>7
    <2>8. CASE v = <<Piece>> \o SubSeq(u, i + 1, Len(u))
      <3>1. Len(v) = 1 + Len(u) - i
        BY <2>5, <2>8
      <3> QED
        BY <2>4, <2>6, <2>8, <3>1
    <2> QED
      BY <2>1, <2>7, <2>8
  <1>4. ASSUME NEW c \in Connections, NEW v \in Seq(Units), Len(v) <= Len(rx[c]),
               rx' = [rx EXCEPT ![c] = v], wire' = wire
        PROVE  Shrinks
    BY <1>4 DEF NetTypes
  <1>5. ASSUME create_request(r) \/ send_request(r) PROVE Goal
    <2>1. Others /\ Onward /\ Back
      BY <1>5 DEF create_request, send_request, goto, CallTypes, Ended, Reads
    <2> QED
      BY <1>1, <1>5, <2>1 DEF create_request, send_request
  <1>6. ASSUME NEW how \in Ended, NEW e, NEW u, Leave(r, how, e, u),
               process = "up", pc[r] \notin Ended
        PROVE  Others /\ Onward /\ Back
    BY <1>6 DEF Leave, goto, CallTypes, Ended, Reads
  <1>7. ASSUME \/ PoolStopped(r) \/ ClearFails(r) \/ WriteFails(r)
               \/ ReadEmpty(r) \/ ReadFails(r) \/ ReadTimesOut(r)
               \/ \E c \in Connections : GetDeadConnection(r, c)
        PROVE  Goal
    <2>1. /\ process = "up" /\ pc[r] \notin Ended /\ UNCHANGED <<rx, wire, srv, users>>
      BY <1>7 DEF PoolStopped, ClearFails, WriteFails, ReadEmpty, ReadFails, ReadTimesOut,
                  GetDeadConnection, Ended
    <2>2. \E how \in Ended, e \in Results : Leave(r, how, e, Empty)
      BY <1>7 DEF PoolStopped, ClearFails, WriteFails, ReadEmpty, ReadFails, ReadTimesOut,
                  GetDeadConnection, Results, Return, Ended
    <2> QED
      BY <1>1, <1>6, <2>1, <2>2
  <1>8. ASSUME NEW c \in Connections, GetConnection(r, c) PROVE Goal
    <2>1. Others /\ Onward /\ Back /\ connection'[r] = c
      BY <1>8 DEF GetConnection, goto, CallTypes, Ended, Reads
    <2>2. CASE UNCHANGED <<netVars, ghostVars>>
      BY <1>1, <2>1, <2>2
    <2>3. CASE Reconnected(c)
      <3>1. Elsewhere
        BY <2>1, <2>3 DEF Reconnected, NetTypes
      <3>2. Len(<<>>) = 0 /\ \A k \in Connections : Len(rx[k]) \in Nat /\ Len(wire[k]) \in Nat
        BY DEF NetTypes
      <3>3. Shrinks
        BY <2>3, <3>2 DEF Reconnected, NetTypes
      <3> QED
        BY <2>1, <3>1, <3>3
    <2> QED
      BY <1>8, <2>2, <2>3 DEF GetConnection
  <1>9. ASSUME ClearRead(r) PROVE Goal
    <2>0. PICK c \in Connections : c = connection[r]
      BY <1>9 DEF ClearRead, CallTypes, Holding, InFlight
    <2>1. Others /\ Onward /\ Back
      BY <1>9 DEF ClearRead, goto, CallTypes, Ended, Reads
    <2>2. Elsewhere
      BY <1>9, <2>0 DEF ClearRead, NetTypes
    <2>3. /\ rx' = [rx EXCEPT ![c] = SubSeq(rx[c], available[r] + 1, Len(rx[c]))]
          /\ rx[c] \in Seq(Units) /\ available[r] \in Nat /\ wire' = wire
      BY <1>9, <2>0 DEF ClearRead, NetTypes, CallTypes
    <2>4. Shrinks
      BY <1>2, <1>4, <2>3, SuffixInSeq
    <2> QED
      BY <2>1, <2>2, <2>4
  <1>10. ASSUME WriteDone(r) PROVE Goal
    <2>0. PICK c \in Connections : c = connection[r]
      BY <1>10 DEF WriteDone, CallTypes, Holding, InFlight
    <2>1. Others /\ Onward /\ Back
      BY <1>10 DEF WriteDone, goto, CallTypes, Ended, Reads
    <2>2. Elsewhere /\ UNCHANGED <<rx, wire>>
      BY <1>10, <2>0 DEF WriteDone, Written, NetTypes
    <2> QED
      BY <1>1, <2>1, <2>2
  <1>11. ASSUME WriteTimesOut(r) PROVE Goal
    <2>0. PICK c \in Connections : c = connection[r]
      BY <1>11 DEF WriteTimesOut, CallTypes, Holding, InFlight
    <2>1. Others /\ Onward /\ Back
      BY <1>6, <1>11 DEF WriteTimesOut, Return, Ended
    <2>2. Elsewhere /\ UNCHANGED <<rx, wire>>
      <3>1. CASE Written(r)
        BY <2>0, <3>1 DEF Written, NetTypes
      <3>2. CASE UNCHANGED <<netVars, ghostVars>>
        BY <3>2
      <3> QED
        BY <1>11, <3>1, <3>2 DEF WriteTimesOut
    <2> QED
      BY <1>1, <2>1, <2>2
  <1>12. ASSUME ReadHeader(r) PROVE Goal
    <2>0. PICK c \in Connections : c = connection[r]
      BY <1>12 DEF ReadHeader, CallTypes, Holding, InFlight
    <2>1. process = "up" /\ pc[r] = "readHeader" /\ UNCHANGED <<wire, srv, users>>
      BY <1>12 DEF ReadHeader
    <2>2. Others /\ Onward /\ Back
      <3>1. ASSUME NEW h, HeaderRead(r, h) PROVE Others /\ Onward /\ Back
        <4>1. CASE h.len = "over"
          BY <1>6, <2>1, <3>1, <4>1 DEF HeaderRead, Return, Ended
        <4>2. CASE h.len # "over"
          BY <2>1, <3>1, <4>2 DEF HeaderRead, goto, CallTypes, Ended, Reads
        <4> QED
          BY <4>1, <4>2
      <3> QED
        BY <1>12, <3>1 DEF ReadHeader
    <2>3. PICK v \in Seq(Units) : rx' = [rx EXCEPT ![c] = v] /\ Len(v) <= Len(rx[c])
      <3>1. rx[c] \in Seq(Units) /\ rx[c] # <<>>
        BY <1>12, <2>0 DEF ReadHeader, NetTypes
      <3>2. Tail(rx[c]) \in Seq(Units) /\ Len(Tail(rx[c])) <= Len(rx[c])
        BY <3>1
      <3> QED
        BY <1>3, <1>12, <2>0, <3>1, <3>2 DEF ReadHeader
    <2>4. Elsewhere /\ Shrinks
      BY <1>4, <2>0, <2>1, <2>3 DEF NetTypes
    <2> QED
      BY <2>2, <2>4
  <1>13. ASSUME ReadBody(r) PROVE Goal
    <2>0. PICK c \in Connections : c = connection[r]
      BY <1>13 DEF ReadBody, CallTypes, Holding, InFlight
    <2>1. process = "up" /\ pc[r] = "readBody" /\ UNCHANGED <<wire, srv, users>>
      BY <1>13 DEF ReadBody
    <2>2. Others /\ Onward /\ Back
      <3>1. CASE Stale(r)
        BY <1>13, <2>1, <3>1 DEF ReadBody, goto, CallTypes, Ended, Reads
      <3>2. CASE ~Stale(r)
        BY <1>6, <1>13, <2>1, <3>2 DEF ReadBody, Return, Ended
      <3> QED
        BY <3>1, <3>2
    <2>3. PICK v \in Seq(Units) : rx' = [rx EXCEPT ![c] = v] /\ Len(v) <= Len(rx[c])
      <3>1. rx[c] \in Seq(Units) /\ rx[c] # <<>>
        BY <1>13, <2>0 DEF ReadBody, NetTypes
      <3>2. Tail(rx[c]) \in Seq(Units) /\ Len(Tail(rx[c])) <= Len(rx[c])
        BY <3>1
      <3> QED
        BY <1>3, <1>13, <2>0, <3>1, <3>2 DEF ReadBody
    <2>4. Elsewhere /\ Shrinks
      BY <1>4, <2>0, <2>1, <2>3 DEF NetTypes
    <2> QED
      BY <2>2, <2>4
  <1> QED
    BY <1>5, <1>7, <1>8, <1>9, <1>10, <1>11, <1>12, <1>13 DEF RequestStep, Acquire

-----------------------------------------------------------------------------
(* Short sequences *)

LEMMA ShortSequences ==
  ASSUME NEW h, NEW p
  PROVE  /\ <<h>> # <<>> /\ <<h, p>> # <<>>
         /\ Head(<<h>>) = h /\ Tail(<<h>>) = <<>>
         /\ Head(<<h, p>>) = h /\ Tail(<<h, p>>) = <<p>>
         /\ Append(<<>>, h) = <<h>> /\ Append(<<h>>, p) = <<h, p>>
         /\ <<>> \o <<h>> = <<h>> /\ <<>> \o <<h, p>> = <<h, p>>
  <1>1. <<h>> # <<>> /\ <<h, p>> # <<>>
    OBVIOUS
  <1>2. Head(<<h>>) = h /\ Head(<<h, p>>) = h
    OBVIOUS
  <1>3. Tail(<<h>>) = <<>>
    OBVIOUS
  <1>4. Tail(<<h, p>>) = <<p>>
    OBVIOUS
  <1>5. Append(<<>>, h) = <<h>>
    OBVIOUS
  <1>6. Append(<<h>>, p) = <<h, p>>
    <2>1. <<h>> \in Seq({h, p}) /\ <<h, p>> \in Seq({h, p})
      OBVIOUS
    <2>2. /\ Append(<<h>>, p) \in Seq({h, p})
          /\ Len(Append(<<h>>, p)) = 2
          /\ Append(<<h>>, p)[1] = h /\ Append(<<h>>, p)[2] = p
      BY <2>1, AppendProperties
    <2>3. \A i \in 1 .. 2 : Append(<<h>>, p)[i] = <<h, p>>[i]
      BY <2>2
    <2> QED
      BY <2>1, <2>2, <2>3, SeqEqual
  <1>7. <<>> \o <<h>> = <<h>>
    OBVIOUS
  <1>8. <<>> \o <<h, p>> = <<h, p>>
    OBVIOUS
  <1> QED
    BY <1>1, <1>2, <1>3, <1>4, <1>5, <1>6, <1>7, <1>8

(* Nothing is left of nothing. *)
LEMMA NothingLeft == \A n \in Nat : SubSeq(<<>>, n + 1, Len(<<>>)) = <<>>
  OBVIOUS

(* A stretch lost from a single request is all of it. *)
LEMMA SingleLost ==
  ASSUME NEW r, NEW i \in 0 .. Len(<<r>>) - 1, NEW j \in i + 2 .. Len(<<r>>) + 1
  PROVE  SubSeq(<<r>>, 1, i) \o SubSeq(<<r>>, j, Len(<<r>>)) = <<>>
  <1>1. Len(<<r>>) = 1
    OBVIOUS
  <1>2. i = 0 /\ j = 2
    BY <1>1
  <1>3. SubSeq(<<r>>, 1, 0) = <<>> /\ SubSeq(<<r>>, 2, 1) = <<>>
    OBVIOUS
  <1> QED
    BY <1>1, <1>2, <1>3

(* An answer is a header of its own, followed by a body or by nothing. *)
LEMMA AnswersShape ==
  ASSUME NEW r, NEW l \in {"fits", "over", "zero"}
  PROVE  \E h \in Own(r) : Answers(r, l) \in {<<h>>, <<h, Piece>>}
  BY DEF Answers, Own

(* A header of a request is no loose piece. *)
LEMMA OwnIsHeader ==
  ASSUME NEW r \in Requests, NEW h \in Own(r)
  PROVE  /\ h # Piece /\ h.of = r /\ h.id = tid[r]
         /\ h.len \in {"fits", "over", "zero"}
  <1>1. PICK l \in {"fits", "over", "zero"} : h = Header(tid[r], r, l)
    BY DEF Own
  <1>2. h.of = r /\ h.id = tid[r] /\ h.len = l
    BY <1>1 DEF Header
  <1>3. Piece.of = Null /\ r # Null
    BY ClientAssumption DEF Piece
  <1> QED
    BY <1>2, <1>3

-----------------------------------------------------------------------------
(* The alignment *)

(* What happens elsewhere does not touch the alignment of a connection. *)
LEMMA AlignedFrame ==
  ASSUME NEW c \in Connections, Aligned(c), NetTypes,
         rx'[c] = rx[c], wire'[c] = wire[c], srv'[c] = srv[c], users'[c] = users[c],
         \A q \in users[c] :
            /\ pc'[q] = pc[q] /\ connection'[q] = connection[q] /\ tid'[q] = tid[q]
            /\ response'[q] = response[q] /\ result'[q] = result[q]
  PROVE  Aligned(c)'
  <1>1. Unspoilt(c)' <=> Unspoilt(c)
    BY DEF Unspoilt, Clean
  <1>2. Quiet(c)' <=> Quiet(c)
    BY DEF Quiet
  <1>3. \A q \in users[c] : Own(q)' = Own(q)
    BY DEF Own, Header
  <1>4. \A q \in users[c] : (AtHeader(q, c)' <=> AtHeader(q, c)) /\ (AtBody(q, c)' <=> AtBody(q, c))
    BY <1>3 DEF AtHeader, AtBody, Piece
  <1> QED
    BY <1>1, <1>2, <1>4 DEF Aligned

(* A call that is not over is in the book of its own connection only. *)
LEMMA OnlyItsOwn ==
  ASSUME CallTypes, NetTypes, Holding, Book, NEW r \in Requests, pc[r] \notin Ended,
         NEW c \in Connections, r \in users[c]
  PROVE  connection[r] = c /\ pc[r] \in Reads
  BY DEF Book, Holding, InFlight, Reads

(* Among those who wrote on a connection at most one still holds it. *)
LEMMA OneHolder ==
  ASSUME NetTypes, Exclusive, process = "up", NEW r \in Requests,
         NEW c \in Connections, connection[r] = c, NEW q \in users[c], connection[q] = c
  PROVE  q = r
  <1>1. q \in Requests /\ c # Null
    BY ClientAssumption DEF NetTypes
  <1> QED
    BY <1>1 DEF Exclusive

(* A step of a call leaves the connections it has not written on. *)
LEMMA OthersAligned ==
  ASSUME NetTypes, NEW r \in Requests, NEW k \in Connections, Aligned(k),
         r \notin users[k], users'[k] = users[k],
         rx'[k] = rx[k], wire'[k] = wire[k], srv'[k] = srv[k],
         \A q \in Requests \ {r} :
            /\ pc'[q] = pc[q] /\ connection'[q] = connection[q] /\ tid'[q] = tid[q]
            /\ response'[q] = response[q] /\ result'[q] = result[q]
  PROVE  Aligned(k)'
  <1>1. \A q \in users[k] : q \in Requests \ {r}
    BY DEF NetTypes
  <1> QED
    BY <1>1, AlignedFrame

(* A call that fails after it wrote spoils the connection; before, it has  *)
(* not touched it.                                                         *)
LEMMA FailureAligned ==
  ASSUME CallTypes, NetTypes, NEW r \in Requests, NEW k \in Connections, Aligned(k),
         UNCHANGED <<rx, wire, srv, users>>,
         \/ \E e \in Results \ {"success"} : Return(r, e, Empty)
         \/ Leave(r, "threw", "exception", Empty)
  PROVE  Aligned(k)'
  <1>1. PICK how \in Ended, e \in Results \ {"success"} : Leave(r, how, e, Empty)
    BY DEF Return, Results, Ended
  <1>2. /\ pc' = [pc EXCEPT ![r] = how]
        /\ response' = [response EXCEPT ![r] = Empty]
        /\ result' = [result EXCEPT ![r] = e]
        /\ connection' = [connection EXCEPT ![r] = Null]
        /\ tid' = tid
    BY <1>1 DEF Leave, goto
  <1>3. \A q \in Requests \ {r} :
           /\ pc'[q] = pc[q] /\ connection'[q] = connection[q]
           /\ response'[q] = response[q] /\ result'[q] = result[q]
    BY <1>2 DEF CallTypes
  <1>4. CASE r \notin users[k]
    BY <1>2, <1>3, <1>4, OthersAligned
  <1>5. CASE r \in users[k]
    <2>1. result'[r] # "success" /\ connection'[r] = Null
      BY <1>2 DEF CallTypes
    <2> QED
      BY <1>5, <2>1, ClientAssumption DEF Aligned, Unspoilt, Clean
  <1> QED
    BY <1>4, <1>5

(* What server and network do to a connection between two steps of its     *)
(* reader.                                                                 *)
LEMMA NetworkAligned ==
  ASSUME NetTypes, NEW k \in Connections, Aligned(k),
         UNCHANGED <<pc, tid, connection, response, result, users>>,
         Quiet(k) => Quiet(k)',
         \A q \in Requests : AtHeader(q, k) => AtHeader(q, k)',
         \A q \in Requests : AtBody(q, k) => AtBody(q, k)'
  PROVE  Aligned(k)'
  <1>1. users[k] \subseteq Requests
    BY DEF NetTypes
  <1>2. Unspoilt(k)' <=> Unspoilt(k)
    BY DEF Unspoilt, Clean
  <1> QED
    BY <1>1, <1>2 DEF Aligned

(* A step in which the server writes no fragment on connection k. *)
Intact(k) ==
    \/ \E r \in Requests : create_request(r) \/ send_request(r) \/ RequestStep(r)
    \/ set_config
    \/ \E c \in Connections :
          \/ \E l \in ServerLengths : ServerAnswers(c, l)
          \/ \E i \in 0 .. Len(srv[c]) - 1 :
                \E j \in i + 2 .. Len(srv[c]) + 1 : ServerForgets(c, i, j)
          \/ c # k /\ \E u \in Fragments : ServerGarbles(c, u)
          \/ Arrives(c)
          \/ Disconnects(c)

(* The streams of a connection stay aligned while the server writes whole  *)
(* answers on it.                                                          *)
LEMMA AlignedStep ==
  ASSUME TypeOK, Holding, Exclusive, Origin, Book, process = "up",
         NEW k \in Connections, Aligned(k), Intact(k)
  PROVE  Aligned(k)'
  <1>0. /\ CallTypes /\ NetTypes
        /\ \A r \in Requests : Reading(r) /\ Read(r)
    BY TypeParts DEF Origin
  <1> USE <1>0 DEF vars, clientVars, poolVars, netVars, ghostVars
  <1>1. ASSUME NEW r \in Requests, create_request(r) \/ send_request(r)
        PROVE  Aligned(k)'
    <2>1. /\ pc[r] \notin Ended \cup Reads
          /\ UNCHANGED <<connection, response, result, rx, wire, srv, users>>
      BY <1>1 DEF create_request, send_request, Ended, Reads
    <2>2. \A q \in Requests \ {r} : pc'[q] = pc[q] /\ tid'[q] = tid[q]
      BY <1>1 DEF create_request, send_request, goto, CallTypes
    <2>3. r \notin users[k]
      BY <2>1, OnlyItsOwn
    <2> QED
      BY <2>1, <2>2, <2>3, OthersAligned
  <1>2. CASE set_config
    <2>1. users'[k] = {} /\ rx'[k] = <<>> /\ wire'[k] = <<>> /\ srv'[k] = <<>>
      BY <1>2 DEF set_config
    <2> QED
      BY <2>1 DEF Aligned, Quiet
  <1>3. ASSUME NEW r \in Requests,
               \/ PoolStopped(r) \/ ClearFails(r) \/ WriteFails(r)
               \/ ReadEmpty(r) \/ ReadFails(r) \/ ReadTimesOut(r)
               \/ \E c \in Connections : GetDeadConnection(r, c)
        PROVE  Aligned(k)'
    <2>1. UNCHANGED <<rx, wire, srv, users>>
      BY <1>3 DEF PoolStopped, ClearFails, WriteFails, ReadEmpty, ReadFails, ReadTimesOut,
                  GetDeadConnection
    <2>2. \/ \E e \in Results \ {"success"} : Return(r, e, Empty)
          \/ Leave(r, "threw", "exception", Empty)
      BY <1>3 DEF PoolStopped, ClearFails, WriteFails, ReadEmpty, ReadFails, ReadTimesOut,
                  GetDeadConnection, Results
    <2> QED
      BY <2>1, <2>2, FailureAligned
  <1>4. ASSUME NEW r \in Requests, NEW c \in Connections, GetConnection(r, c)
        PROVE  Aligned(k)'
    <2>1. /\ pc[r] \notin Ended \cup Reads
          /\ UNCHANGED <<tid, response, result>>
      BY <1>4 DEF GetConnection, Ended, Reads
    <2>2. \A q \in Requests \ {r} : pc'[q] = pc[q] /\ connection'[q] = connection[q]
      BY <1>4 DEF GetConnection, goto, CallTypes
    <2>3. r \notin users[k]
      BY <2>1, OnlyItsOwn
    <2>4. CASE UNCHANGED <<netVars, ghostVars>>
      BY <2>1, <2>2, <2>3, <2>4, OthersAligned
    <2>5. CASE Reconnected(c) /\ c = k
      <3>1. users'[k] = {} /\ rx'[k] = <<>> /\ wire'[k] = <<>> /\ srv'[k] = <<>>
        BY <2>5 DEF Reconnected, NetTypes
      <3> QED
        BY <3>1 DEF Aligned, Quiet
    <2>6. CASE Reconnected(c) /\ c # k
      <3>1. users'[k] = users[k] /\ rx'[k] = rx[k] /\ wire'[k] = wire[k] /\ srv'[k] = srv[k]
        BY <2>6 DEF Reconnected, NetTypes
      <3> QED
        BY <2>1, <2>2, <2>3, <3>1, OthersAligned
    <2> QED
      BY <1>4, <2>4, <2>5, <2>6 DEF GetConnection
  <1>5. ASSUME NEW r \in Requests, ClearRead(r)
        PROVE  Aligned(k)'
    <2>0. PICK c \in Connections : c = connection[r]
      BY <1>5 DEF ClearRead, CallTypes, Holding, InFlight
    <2>1. /\ pc[r] \notin Ended \cup Reads
          /\ UNCHANGED <<tid, connection, response, result, wire, srv, users>>
      BY <1>5 DEF ClearRead, Ended, Reads
    <2>2. \A q \in Requests \ {r} : pc'[q] = pc[q]
      BY <1>5 DEF ClearRead, goto, CallTypes
    <2>3. r \notin users[k]
      BY <2>1, OnlyItsOwn
    <2>4. CASE c # k
      <3>1. rx'[k] = rx[k]
        BY <1>5, <2>0, <2>4 DEF ClearRead, NetTypes
      <3> QED
        BY <2>1, <2>2, <2>3, <3>1, OthersAligned
    <2>5. CASE c = k
      <3>1. \A q \in users[k] : connection[q] # k
        BY <2>0, <2>3, <2>5, OneHolder
      <3> SUFFICES ASSUME Unspoilt(k)' PROVE Quiet(k)'
        BY <2>1, <3>1 DEF Aligned
      <3>2. Unspoilt(k)
        BY <2>1 DEF Unspoilt, Clean
      <3>3. Quiet(k)
        BY <3>1, <3>2 DEF Aligned
      <3>4. rx'[k] = SubSeq(rx[k], available[r] + 1, Len(rx[k])) /\ available[r] \in Nat
        BY <1>5, <2>0, <2>5 DEF ClearRead, NetTypes, CallTypes
      <3> QED
        BY <2>1, <3>3, <3>4, NothingLeft DEF Quiet
    <2> QED
      BY <2>4, <2>5
  <1>6. ASSUME NEW r \in Requests, WriteDone(r) \/ (WriteTimesOut(r) /\ Written(r))
        PROVE  Aligned(k)'
    <2>0. PICK c \in Connections : c = connection[r]
      BY <1>6 DEF WriteDone, WriteTimesOut, CallTypes, Holding, InFlight
    <2>1. /\ pc[r] = "writing" /\ pc[r] \notin Ended \cup Reads
          /\ Written(r) /\ UNCHANGED <<tid, rx, wire>>
      BY <1>6 DEF WriteDone, WriteTimesOut, Written, Return, Leave, Ended, Reads
    <2>2. \A q \in Requests \ {r} :
             /\ pc'[q] = pc[q] /\ connection'[q] = connection[q]
             /\ response'[q] = response[q] /\ result'[q] = result[q]
      BY <1>6, <2>1 DEF WriteDone, WriteTimesOut, Return, Leave, goto, CallTypes
    <2>3. CASE c # k
      <3>1. users'[k] = users[k] /\ srv'[k] = srv[k]
        BY <2>0, <2>1, <2>3 DEF Written, NetTypes
      <3>2. r \notin users[k]
        BY <2>1, OnlyItsOwn
      <3> QED
        BY <2>1, <2>2, <3>1, <3>2, OthersAligned
    <2>4. ASSUME c = k PROVE users'[k] = users[k] \cup {r}
      BY <2>0, <2>1, <2>4 DEF Written, NetTypes
    <2>5. CASE c = k /\ WriteTimesOut(r)
      <3>1. result'[r] = "write_timeout" /\ connection'[r] = Null
        BY <2>5 DEF WriteTimesOut, Return, Leave, CallTypes
      <3>2. ~Unspoilt(k)'
        BY <2>4, <2>5, <3>1, ClientAssumption DEF Unspoilt, Clean
      <3> QED
        BY <3>2 DEF Aligned
    <2>6. CASE c = k /\ WriteDone(r)
      <3>1. /\ pc' = [pc EXCEPT ![r] = "readHeader"]
            /\ UNCHANGED <<connection, response, result>>
        BY <2>6 DEF WriteDone, goto
      <3> SUFFICES ASSUME Unspoilt(k)' PROVE AtHeader(r, k)'
        <4>1. pc'[r] = "readHeader" /\ r \in users'[k] /\ connection'[r] = k
          BY <2>0, <2>4, <2>6, <3>1 DEF CallTypes
        <4>2. \A q \in users'[k] : connection'[q] = k => q = r
          BY <2>0, <2>4, <2>6, <3>1, OneHolder
        <4> QED
          BY <4>1, <4>2 DEF Aligned
      <3>2. \A q \in users[k] : q # r /\ q \in Requests /\ connection[q] = Null
        BY <2>0, <2>1, <2>6, PredecessorsEnded
      <3>3. Unspoilt(k)
        BY <2>2, <2>4, <2>6, <3>1, <3>2 DEF Unspoilt, Clean
      <3>4. Quiet(k)
        BY <3>2, <3>3, ClientAssumption DEF Aligned
      <3>5. srv'[k] \in {<<>>, <<r>>}
        BY <2>0, <2>1, <2>6, <3>4, ShortSequences DEF Written, NetTypes, Quiet
      <3> QED
        BY <2>1, <3>4, <3>5 DEF AtHeader, Quiet
    <2> QED
      BY <1>6, <2>3, <2>5, <2>6
  <1>7. ASSUME NEW r \in Requests, WriteTimesOut(r), UNCHANGED <<netVars, ghostVars>>
        PROVE  Aligned(k)'
    BY <1>7, FailureAligned DEF WriteTimesOut, Results
  <1>8. ASSUME NEW r \in Requests, ReadHeader(r)
        PROVE  Aligned(k)'
    <2>0. PICK c \in Connections : c = connection[r]
      BY <1>8 DEF ReadHeader, CallTypes, Holding, InFlight
    <2>1. /\ pc[r] = "readHeader" /\ pc[r] \notin Ended
          /\ UNCHANGED <<tid, wire, srv, users>>
      BY <1>8 DEF ReadHeader, HeaderRead, Return, Leave, Ended
    <2>2. \A q \in Requests \ {r} :
             /\ pc'[q] = pc[q] /\ connection'[q] = connection[q]
             /\ response'[q] = response[q] /\ result'[q] = result[q]
      BY <1>8 DEF ReadHeader, HeaderRead, Return, Leave, goto, CallTypes
    <2>3. CASE c # k
      <3>1. rx'[k] = rx[k] /\ r \notin users[k]
        BY <1>8, <2>0, <2>1, <2>3, OnlyItsOwn DEF ReadHeader, NetTypes
      <3> QED
        BY <2>1, <2>2, <3>1, OthersAligned
    <2>4. CASE c = k
      <3>0. r \in users[k]
        BY <2>0, <2>1, <2>4 DEF Book, Reads
      <3>1. PICK h : HeaderRead(r, h)
        BY <1>8 DEF ReadHeader
      <3>2. CASE h.len = "over"
        <4>1. result'[r] = "invalid_response" /\ connection'[r] = Null
          BY <3>1, <3>2 DEF HeaderRead, Return, Leave, CallTypes
        <4>2. ~Unspoilt(k)'
          BY <2>1, <3>0, <4>1, ClientAssumption DEF Unspoilt, Clean
        <4> QED
          BY <4>2 DEF Aligned
      <3>3. CASE h.len # "over"
        <4>1. /\ UNCHANGED <<connection, result>>
              /\ pc' = [pc EXCEPT ![r] = IF h.len = "zero" THEN "readEmpty" ELSE "readBody"]
          BY <3>1, <3>3 DEF HeaderRead, goto
        <4> SUFFICES ASSUME Unspoilt(k)' PROVE AtBody(r, k)'
          <5>1. pc'[r] \in {"readEmpty", "readBody"}
            BY <4>1 DEF CallTypes
          <5>2. r \in users'[k] /\ connection'[r] = k
            BY <2>0, <2>1, <2>4, <3>0, <4>1
          <5>3. \A q \in users'[k] : connection'[q] = k => q = r
            BY <2>0, <2>1, <2>4, <4>1, OneHolder
          <5> QED
            BY <5>1, <5>2, <5>3 DEF Aligned
        <4>2. Unspoilt(k)
          <5>1. \A q \in users[k] : q # r => q \in Requests /\ response'[q] = response[q]
            BY <2>2 DEF NetTypes
          <5> QED
            BY <2>0, <2>1, <2>4, <4>1, <5>1 DEF Unspoilt, Clean
        <4>3. AtHeader(r, k) /\ rx[k] # <<>>
          BY <1>8, <2>0, <2>1, <2>4, <3>0, <4>2 DEF Aligned, ReadHeader
        <4>4. PICK g \in Own(r) : /\ srv[k] = <<>>
                                  /\ \/ rx[k] = <<g>> /\ wire[k] \in {<<>>, <<Piece>>}
                                     \/ rx[k] = <<g, Piece>> /\ wire[k] = <<>>
          BY <4>3 DEF AtHeader
        <4>5. Head(rx[k]) = g /\ g # Piece /\ g.of = r
          BY <4>4, ShortSequences, OwnIsHeader
        <4>6. HeaderRead(r, g) /\ rx'[k] = Tail(rx[k])
          BY <1>8, <2>0, <2>4, <4>5 DEF ReadHeader, NetTypes
        <4>7. \/ rx'[k] = <<>> /\ wire[k] \in {<<>>, <<Piece>>}
              \/ rx'[k] = <<Piece>> /\ wire[k] = <<>>
          <5>1. Tail(<<g>>) = <<>> /\ Tail(<<g, Piece>>) = <<Piece>>
            BY ShortSequences
          <5> QED
            BY <4>4, <4>6, <5>1
        <4>8. response'[r].of = r
          <5>1. g.len # "over"
            BY <2>0, <4>1, <4>6, ClientAssumption DEF HeaderRead, Return, Leave, CallTypes
          <5> QED
            BY <4>5, <4>6, <5>1 DEF HeaderRead, CallTypes
        <4> QED
          BY <2>1, <4>4, <4>7, <4>8 DEF AtBody, Piece
      <3> QED
        BY <3>2, <3>3
    <2> QED
      BY <2>3, <2>4
  <1>9. ASSUME NEW r \in Requests, ReadBody(r)
        PROVE  Aligned(k)'
    <2>0. PICK c \in Connections : c = connection[r]
      BY <1>9 DEF ReadBody, CallTypes, Holding, InFlight
    <2>1. /\ pc[r] = "readBody" /\ pc[r] \notin Ended
          /\ UNCHANGED <<tid, wire, srv, users>>
      BY <1>9 DEF ReadBody, Return, Leave, Ended
    <2>2. \A q \in Requests \ {r} :
             /\ pc'[q] = pc[q] /\ connection'[q] = connection[q]
             /\ response'[q] = response[q] /\ result'[q] = result[q]
      BY <1>9 DEF ReadBody, Return, Leave, goto, CallTypes
    <2>3. CASE c # k
      <3>1. rx'[k] = rx[k] /\ r \notin users[k]
        BY <1>9, <2>0, <2>1, <2>3, OnlyItsOwn DEF ReadBody, NetTypes
      <3> QED
        BY <2>1, <2>2, <3>1, OthersAligned
    <2>4. CASE c = k
      <3>0. r \in users[k]
        BY <2>0, <2>1, <2>4 DEF Book, Reads
      <3>1. Unspoilt(k) => AtBody(r, k)
        BY <2>0, <2>1, <2>4, <3>0 DEF Aligned
      <3>2. CASE Stale(r)
        <4>1. UNCHANGED <<connection, response, result>>
          BY <1>9, <3>2 DEF ReadBody
        <4>2. response[r].of # r
          BY <3>2, ClientAssumption DEF Stale, Read, CallTypes, Ids
        <4>3. ~Unspoilt(k)'
          BY <2>1, <3>1, <4>1, <4>2 DEF AtBody, Unspoilt, Clean
        <4> QED
          BY <4>3 DEF Aligned
      <3>3. CASE ~Stale(r)
        <4>1. /\ result'[r] = "success" /\ response'[r] = response[r]
              /\ connection'[r] = Null
          BY <1>9, <3>3 DEF ReadBody, Return, Leave, CallTypes
        <4>2. \A q \in users[k] : q # r => q \in Requests
          BY DEF NetTypes
        <4> SUFFICES ASSUME Unspoilt(k)' PROVE Quiet(k)'
          <5>1. \A q \in users[k] : connection'[q] # k
            <6>1. \A q \in users[k] : q # r => connection[q] # k
              BY <2>0, <2>4, OneHolder
            <6> QED
              BY <2>2, <4>1, <4>2, <6>1, ClientAssumption
          <5> QED
            BY <2>1, <5>1 DEF Aligned
        <4>3. Unspoilt(k)
          BY <2>0, <2>1, <2>2, <2>4, <4>2 DEF Unspoilt, Clean
        <4>4. AtBody(r, k) /\ rx[k] # <<>>
          BY <1>9, <2>0, <2>4, <3>1, <4>3 DEF ReadBody
        <4>5. rx[k] = <<Piece>> /\ wire[k] = <<>> /\ srv[k] = <<>> /\ response[r].of # Null
          BY <4>4, ClientAssumption DEF AtBody
        <4>6. rx'[k] = Tail(rx[k])
          BY <1>9, <2>0, <2>4, <4>5 DEF ReadBody, NetTypes
        <4> QED
          BY <2>1, <4>5, <4>6, ShortSequences DEF Quiet
      <3> QED
        BY <3>2, <3>3
    <2> QED
      BY <2>3, <2>4
  <1>10. ASSUME NEW c \in Connections, c # k,
                UNCHANGED <<pc, tid, connection, response, result, users>>,
                rx'[k] = rx[k], wire'[k] = wire[k], srv'[k] = srv[k]
         PROVE  Aligned(k)'
    BY <1>10, AlignedFrame
  <1>11. ASSUME NEW c \in Connections, c # k,
                \/ \E l \in ServerLengths : ServerAnswers(c, l)
                \/ \E i, j : ServerForgets(c, i, j)
                \/ \E u : ServerGarbles(c, u)
                \/ Arrives(c) \/ Disconnects(c)
         PROVE  Aligned(k)'
    <2>1. UNCHANGED <<pc, tid, connection, response, result, users>>
      BY <1>11 DEF ServerAnswers, ServerForgets, ServerGarbles, Arrives, Disconnects
    <2>2. rx'[k] = rx[k] /\ wire'[k] = wire[k] /\ srv'[k] = srv[k]
      BY <1>11 DEF ServerAnswers, ServerForgets, ServerGarbles, Arrives, Disconnects, NetTypes
    <2> QED
      BY <1>11, <2>1, <2>2, <1>10
  <1>12. ASSUME NEW l \in ServerLengths, ServerAnswers(k, l)
         PROVE  Aligned(k)'
    <2>1. UNCHANGED <<pc, tid, connection, response, result, users>>
      BY <1>12 DEF ServerAnswers
    <2>2. /\ srv[k] # <<>> /\ srv'[k] = Tail(srv[k]) /\ rx'[k] = rx[k]
          /\ wire'[k] = wire[k] \o Answers(Head(srv[k]), l)
      BY <1>12 DEF ServerAnswers, NetTypes
    <2>3. ~Quiet(k) /\ \A q \in Requests : ~AtBody(q, k)
      BY <2>2 DEF Quiet, AtBody
    <2>4. ASSUME NEW q \in Requests, AtHeader(q, k) PROVE AtHeader(q, k)'
      <3>1. rx[k] = <<>> /\ wire[k] = <<>> /\ srv[k] = <<q>>
        BY <2>2, <2>4 DEF AtHeader
      <3>2. PICK h \in Own(q) : Answers(q, l) \in {<<h>>, <<h, Piece>>}
        BY ClientAssumption, AnswersShape
      <3>3. wire'[k] \in {<<h>>, <<h, Piece>>} /\ srv'[k] = <<>> /\ rx'[k] = <<>>
        BY <2>2, <3>1, <3>2, ShortSequences
      <3> QED
        BY <2>1, <3>2, <3>3 DEF AtHeader, Own, Header, Piece
    <2> QED
      BY <2>1, <2>3, <2>4, NetworkAligned
  <1>13. ASSUME NEW i \in 0 .. Len(srv[k]) - 1, NEW j \in i + 2 .. Len(srv[k]) + 1,
                ServerForgets(k, i, j)
         PROVE  Aligned(k)'
    <2>1. UNCHANGED <<pc, tid, connection, response, result, users>>
      BY <1>13 DEF ServerForgets
    <2>2. /\ srv'[k] = SubSeq(srv[k], 1, i) \o SubSeq(srv[k], j, Len(srv[k]))
          /\ rx'[k] = rx[k] /\ wire'[k] = wire[k]
      BY <1>13 DEF ServerForgets, NetTypes
    <2>3. srv[k] # <<>>
      BY EmptySeq
    <2>4. ~Quiet(k) /\ \A q \in Requests : ~AtBody(q, k)
      BY <2>3 DEF Quiet, AtBody
    <2>5. ASSUME NEW q \in Requests, AtHeader(q, k) PROVE AtHeader(q, k)'
      <3>1. rx[k] = <<>> /\ wire[k] = <<>> /\ srv[k] = <<q>>
        BY <2>3, <2>5 DEF AtHeader
      <3>2. srv'[k] = <<>>
        BY <2>2, <3>1, SingleLost
      <3> QED
        BY <2>2, <3>1, <3>2 DEF AtHeader
    <2> QED
      BY <2>1, <2>4, <2>5, NetworkAligned
  <1>14. CASE Arrives(k)
    <2>1. UNCHANGED <<pc, tid, connection, response, result, users>>
      BY <1>14 DEF Arrives
    <2>2. /\ wire[k] # <<>> /\ wire'[k] = Tail(wire[k]) /\ srv'[k] = srv[k]
          /\ rx'[k] = Append(rx[k], Head(wire[k]))
      BY <1>14 DEF Arrives, NetTypes
    <2>3. ~Quiet(k)
      BY <2>2 DEF Quiet
    <2>4. ASSUME NEW q \in Requests, AtHeader(q, k) PROVE AtHeader(q, k)'
      <3>1. Own(q)' = Own(q) /\ Piece' = Piece
        BY <2>1 DEF Own, Header, Piece
      <3>2. PICK h \in Own(q) :
               /\ srv[k] = <<>>
               /\ \/ rx[k] = <<>> /\ wire[k] \in {<<h>>, <<h, Piece>>}
                  \/ rx[k] = <<h>> /\ wire[k] = <<Piece>>
        BY <2>2, <2>4 DEF AtHeader
      <3>3. \/ rx'[k] = <<h>> /\ wire'[k] \in {<<>>, <<Piece>>}
            \/ rx'[k] = <<h, Piece>> /\ wire'[k] = <<>>
        <4>1. CASE rx[k] = <<>> /\ wire[k] = <<h>>
          BY <2>2, <4>1, ShortSequences
        <4>2. CASE rx[k] = <<>> /\ wire[k] = <<h, Piece>>
          BY <2>2, <4>2, ShortSequences
        <4>3. CASE rx[k] = <<h>> /\ wire[k] = <<Piece>>
          <5>1. Head(wire[k]) = Piece /\ Tail(wire[k]) = <<>>
            BY <4>3, ShortSequences
          <5>2. rx'[k] = Append(<<h>>, Piece) /\ wire'[k] = <<>>
            BY <2>2, <4>3, <5>1
          <5> QED
            BY <5>2, ShortSequences
        <4> QED
          BY <3>2, <4>1, <4>2, <4>3
      <3> QED
        BY <2>2, <3>1, <3>2, <3>3 DEF AtHeader
    <2>5. ASSUME NEW q \in Requests, AtBody(q, k) PROVE AtBody(q, k)'
      <3>1. rx[k] = <<>> /\ wire[k] = <<Piece>>
        BY <2>2, <2>5 DEF AtBody
      <3>2. rx'[k] = <<Piece>> /\ wire'[k] = <<>>
        BY <2>2, <3>1, ShortSequences
      <3> QED
        BY <2>1, <2>2, <2>5, <3>2 DEF AtBody, Piece
    <2> QED
      BY <2>1, <2>3, <2>4, <2>5, NetworkAligned
  <1>15. CASE Disconnects(k)
    <2>1. UNCHANGED <<pc, tid, connection, response, result, users>>
      BY <1>15 DEF Disconnects
    <2>2. wire'[k] = <<>> /\ srv'[k] = <<>> /\ rx'[k] = rx[k]
      BY <1>15 DEF Disconnects, NetTypes
    <2>3. Quiet(k) => Quiet(k)'
      BY <2>2 DEF Quiet
    <2>4. ASSUME NEW q \in Requests, AtHeader(q, k) PROVE AtHeader(q, k)'
      <3>1. Own(q)' = Own(q) /\ Piece' = Piece
        BY <2>1 DEF Own, Header, Piece
      <3> QED
        BY <2>2, <2>4, <3>1 DEF AtHeader
    <2>5. ASSUME NEW q \in Requests, AtBody(q, k) PROVE AtBody(q, k)'
      BY <2>1, <2>2, <2>5 DEF AtBody, Piece
    <2> QED
      BY <2>1, <2>3, <2>4, <2>5, NetworkAligned
  <1>16. ASSUME NEW r \in Requests, RequestStep(r)
         PROVE  Aligned(k)'
    BY <1>16, <1>3, <1>4, <1>5, <1>6, <1>7, <1>8, <1>9 DEF RequestStep, Acquire, WriteTimesOut
  <1> QED
    BY <1>1, <1>2, <1>11, <1>12, <1>13, <1>14, <1>15, <1>16 DEF Intact

-----------------------------------------------------------------------------
(* The answers *)

(* What a call that is over has returned is final, and success is the end  *)
(* of a ReadBody.                                                          *)
LEMMA Outcome ==
  ASSUME TypeOK, NEW r \in Requests, [Next]_vars
  PROVE  /\ pc[r] \in Ended =>
               /\ result'[r] = result[r] /\ response'[r] = response[r]
               /\ earlier'[r] = earlier[r]
         /\ pc[r] \notin Ended /\ result[r] # "success" /\ result'[r] = "success" =>
               /\ pc[r] = "readBody" /\ process = "up"
               /\ response'[r] = response[r] /\ earlier'[r] = earlier[r]
  <1> DEFINE Kept == /\ result'[r] = result[r]
                     /\ pc[r] \in Ended => response'[r] = response[r] /\ earlier'[r] = earlier[r]
             Succeeds == /\ pc[r] = "readBody" /\ process = "up"
                         /\ response'[r] = response[r] /\ earlier'[r] = earlier[r]
             Goal == Kept \/ (pc[r] \notin Ended /\ (result'[r] # "success" \/ Succeeds))
  <1> SUFFICES Goal
    OBVIOUS
  <1>0. CallTypes /\ NetTypes
    BY TypeParts
  <1> USE <1>0 DEF vars, clientVars, poolVars, netVars, ghostVars
  <1>1. ASSUME NEW q \in Requests, create_request(q) \/ send_request(q) \/ ClearRead(q)
        PROVE  Goal
    BY <1>1 DEF create_request, send_request, ClearRead
  <1>2. CASE set_config
    BY <1>2 DEF set_config
  <1>3. ASSUME NEW q \in Requests, NEW e \in Results \ {"success"}, NEW how,
               pc[q] \notin Ended, Leave(q, how, e, Empty), UNCHANGED earlier
        PROVE  Goal
    BY <1>3 DEF Leave, CallTypes
  <1>4. ASSUME NEW q \in Requests,
               \/ PoolStopped(q) \/ ClearFails(q) \/ WriteFails(q)
               \/ ReadEmpty(q) \/ ReadFails(q) \/ ReadTimesOut(q)
               \/ \E c \in Connections : GetDeadConnection(q, c)
        PROVE  Goal
    <2>1. pc[q] \notin Ended /\ UNCHANGED earlier
      BY <1>4 DEF PoolStopped, ClearFails, WriteFails, ReadEmpty, ReadFails, ReadTimesOut,
                  GetDeadConnection, Ended
    <2>2. \E how \in Ended, e \in Results \ {"success"} : Leave(q, how, e, Empty)
      BY <1>4 DEF PoolStopped, ClearFails, WriteFails, ReadEmpty, ReadFails, ReadTimesOut,
                  GetDeadConnection, Results, Return, Ended
    <2> QED
      BY <1>3, <2>1, <2>2
  <1>5. ASSUME NEW q \in Requests, NEW c \in Connections, GetConnection(q, c)
        PROVE  Goal
    BY <1>5 DEF GetConnection, Reconnected
  <1>6. ASSUME NEW q \in Requests, WriteDone(q)
        PROVE  Goal
    BY <1>6 DEF WriteDone, Written, Ended, NetTypes
  <1>7. ASSUME NEW q \in Requests, WriteTimesOut(q)
        PROVE  Goal
    <2>1. /\ pc[q] = "writing"
          /\ result' = [result EXCEPT ![q] = "write_timeout"]
          /\ response' = [response EXCEPT ![q] = Empty]
          /\ \A p \in Requests \ {q} : earlier'[p] = earlier[p]
      BY <1>7 DEF WriteTimesOut, Return, Leave, Written, NetTypes
    <2> QED
      BY <2>1 DEF CallTypes, Ended
  <1>8. ASSUME NEW q \in Requests, ReadHeader(q)
        PROVE  Goal
    <2>1. pc[q] = "readHeader" /\ UNCHANGED earlier
      BY <1>8 DEF ReadHeader
    <2>2. ASSUME NEW h, HeaderRead(q, h) PROVE Goal
      <3>1. CASE h.len = "over"
        BY <2>1, <2>2, <3>1 DEF HeaderRead, Return, Leave, CallTypes, Ended
      <3>2. CASE h.len # "over"
        BY <2>1, <2>2, <3>2 DEF HeaderRead, CallTypes, Ended
      <3> QED
        BY <3>1, <3>2
    <2> QED
      BY <1>8, <2>2 DEF ReadHeader
  <1>9. ASSUME NEW q \in Requests, ReadBody(q)
        PROVE  Goal
    <2>1. pc[q] = "readBody" /\ process = "up" /\ UNCHANGED earlier
      BY <1>9 DEF ReadBody
    <2>2. CASE Stale(q)
      BY <1>9, <2>1, <2>2 DEF ReadBody
    <2>3. CASE ~Stale(q)
      <3>1. /\ result' = [result EXCEPT ![q] = "success"]
            /\ response' = [response EXCEPT ![q] = response[q]]
        BY <1>9, <2>3 DEF ReadBody, Return, Leave
      <3> QED
        BY <2>1, <3>1 DEF CallTypes, Ended
    <2> QED
      BY <2>2, <2>3
  <1>10. ASSUME NEW c \in Connections,
                \/ \E l \in ServerLengths : ServerAnswers(c, l)
                \/ \E i, j : ServerForgets(c, i, j)
                \/ \E u : ServerGarbles(c, u)
                \/ Arrives(c) \/ Disconnects(c)
         PROVE  Goal
    BY <1>10 DEF ServerAnswers, ServerForgets, ServerGarbles, Arrives, Disconnects
  <1>11. CASE UNCHANGED vars
    BY <1>11
  <1> QED
    BY <1>1, <1>2, <1>4, <1>5, <1>6, <1>7, <1>8, <1>9, <1>10, <1>11
    DEF Next, Environment, RequestStep, Acquire

(* A call that reads a body while all its predecessors were answered has   *)
(* the header of its own answer.                                           *)
LEMMA OwnBody ==
  ASSUME TypeOK, Holding, Origin, Book, process = "up", NEW r \in Requests,
         pc[r] = "readBody", Aligned(connection[r]),
         \A q \in earlier[r] : Clean(q)
  PROVE  response[r].of = r
  <1>1. PICK c \in Connections : c = connection[r]
    BY TypeParts DEF CallTypes, Holding, InFlight
  <1>2. r \in users[c]
    BY <1>1 DEF Book, Reads
  <1>3. \A q \in users[c] : q # r => q \in earlier[r]
    BY <1>1 DEF Origin, Reading
  <1>4. Unspoilt(c)
    BY <1>1, <1>3 DEF Unspoilt
  <1> QED
    BY <1>1, <1>2, <1>4 DEF Aligned, AtBody

(* Every step keeps the streams aligned and the answers where they belong, *)
(* when the server writes whole answers.                                   *)
LEMMA HistoryStep ==
  ASSUME MaxGarbled = 0,
         TypeOK, Holding, Exclusive, Origin, Book, History, [Next]_vars
  PROVE  History'
  <1>1. ASSUME process' = "up", NEW k \in Connections PROVE Aligned(k)'
    <2>1. CASE UNCHANGED vars
      <3>1. process = "up" /\ Aligned(k)
        BY <1>1, <2>1 DEF vars, poolVars, History
      <3> QED
        BY <2>1, <3>1 DEF Aligned, Unspoilt, Clean, Quiet, AtHeader, AtBody, Own, Header, Piece,
                          vars, clientVars, netVars, ghostVars
    <2>2. CASE Next
      <3>1. Intact(k)
        BY <2>2 DEF Next, Environment, Intact
      <3>2. process = "up"
        BY <1>1, <3>1
        DEF Intact, create_request, send_request, set_config, RequestStep, PoolStopped, Acquire,
            GetConnection, GetDeadConnection, ClearFails, ClearRead, WriteDone, WriteFails,
            WriteTimesOut, ReadHeader, ReadBody, ReadEmpty, ReadFails, ReadTimesOut,
            ServerAnswers, ServerForgets, ServerGarbles, Arrives, Disconnects
      <3> QED
        BY <3>1, <3>2, AlignedStep DEF History
    <2> QED
      BY <2>1, <2>2
  <1>2. ASSUME NEW r \in Requests PROVE OwnAnswer(r)'
    <2> SUFFICES ASSUME result'[r] = "success", \A q \in earlier'[r] : Clean(q)'
                 PROVE  response'[r].of = r
      BY DEF OwnAnswer, Clean
    <2>1. OwnAnswer(r) /\ \A q \in earlier[r] : q \in Requests /\ pc[q] \in Ended
      BY TypeParts DEF History, Book, NetTypes
    <2>2. \A q \in earlier[r] : result'[q] = result[q] /\ response'[q] = response[q]
      BY <2>1, Outcome
    <2>3. CASE pc[r] \in Ended
      BY <2>1, <2>2, <2>3, Outcome DEF OwnAnswer, Clean
    <2>4. CASE pc[r] \notin Ended
      <3>1. result[r] # "success"
        BY <2>4 DEF Origin, Read, Ended
      <3>2. /\ pc[r] = "readBody" /\ process = "up"
            /\ response'[r] = response[r] /\ earlier'[r] = earlier[r]
        BY <2>4, <3>1, Outcome
      <3>3. \A q \in earlier[r] : Clean(q)
        BY <2>2, <3>2 DEF Clean
      <3>4. connection[r] \in Connections
        BY <3>2, TypeParts DEF CallTypes, Holding, InFlight
      <3> QED
        BY <3>2, <3>3, <3>4, OwnBody DEF History
    <2> QED
      BY <2>3, <2>4
  <1> QED
    BY <1>1, <1>2 DEF History

(* The book is kept, whatever the server does. *)
LEMMA BookInvariant == Spec => [](TypeOK /\ Holding /\ Exclusive /\ Origin /\ Book)
  <1>1. Init => Book
    BY DEF Init, Book, Reads
  <1>2. TypeOK /\ Holding /\ Exclusive /\ Book /\ [Next]_vars => Book'
    BY BookStep
  <1> QED
    BY <1>1, <1>2, OriginInvariant, PTL DEF Spec

(* The invariant from which the answers of calls with a clean history      *)
(* follow.                                                                 *)
LEMMA HistoryInvariant ==
  ASSUME MaxGarbled = 0
  PROVE  Spec => []History
  <1>1. Init => History
    <2> SUFFICES ASSUME Init PROVE History
      OBVIOUS
    <2>1. \A c \in Connections : Aligned(c)
      BY DEF Init, Aligned, Quiet
    <2>2. \A r \in Requests : OwnAnswer(r)
      BY DEF Init, OwnAnswer
    <2> QED
      BY <2>1, <2>2 DEF History
  <1>2. TypeOK /\ Holding /\ Exclusive /\ Origin /\ Book /\ History /\ [Next]_vars
           => History'
    BY HistoryStep
  <1> QED
    BY <1>1, <1>2, BookInvariant, PTL DEF Spec

(* When every request written earlier on the connection got its own        *)
(* answer, a successful send_request returns the answer to its own request *)
(* whatever its transaction id, the order of calls and the disconnections, *)
(* as long as the server writes whole answers.                             *)
THEOREM CleanHistory == Spec => []CleanHistoryOwnAnswer
  <1>1. CASE MaxGarbled = 0
    <2>1. History => CleanHistoryOwnAnswer
      BY DEF History, OwnAnswer, CleanHistoryOwnAnswer
    <2> QED
      BY <1>1, <2>1, HistoryInvariant, PTL
  <1>2. CASE MaxGarbled # 0
    <2>1. CleanHistoryOwnAnswer
      BY <1>2 DEF CleanHistoryOwnAnswer
    <2> QED
      BY <2>1, PTL
  <1> QED
    BY <1>1, <1>2
=============================================================================
