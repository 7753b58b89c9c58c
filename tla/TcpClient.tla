------------------------------ MODULE TcpClient ------------------------------
(***************************************************************************)
(* class tcp_client of modbus/client/tcp_client.cpp: calls of send_request *)
(* that share a pool of connections, the octet stream each connection      *)
(* carries, and the timeouts, late answers and disconnections that the     *)
(* code has to live with.                                                  *)
(*                                                                         *)
(* The pool and its connections (cpool), the network and the remote server *)
(* are external: they are modelled from what tcp_client.cpp asks of them.  *)
(* A step of a request runs from one co_await to the next.                 *)
(***************************************************************************)
EXTENDS Integers, Sequences

CONSTANTS
    Requests,       \* calls of send_request
    Timed,          \* those with a timeout other than milliseconds::max()
    Connections,    \* the connections of a pool: config_.max_connections many
    Null,           \* nullptr
    IdMod,          \* transaction_id_ is a uint16_t: 2^16
    ServerLengths,  \* the length fields the remote server sends
    MaxGarbled,     \* bound: units under way when the server sends a fragment; 0: never
    MaxConfigs      \* bound: number of calls of set_config

ASSUME ClientAssumption ==
    /\ Timed \subseteq Requests
    /\ Null \notin Requests \cup Connections
    /\ IdMod \in Nat \ {0}
    /\ ServerLengths \subseteq {"fits", "over", "zero"}
    /\ MaxGarbled \in Nat
    /\ MaxConfigs \in Nat

VARIABLES
    transaction_id_,  \* tcp_client::transaction_id_
    pc,               \* where each send_request stands
    tid,              \* the transaction id in each request's buffer
    connection,       \* local of send_request
    available,        \* local bytes_available of clear_buffer
    response,         \* local: the data unit whose header was read last
    result,           \* the error each send_request returned
    idle,             \* connections the pool can hand out
    configs,          \* calls of set_config so far
    process,          \* "up", or "undefined" after a use of a destroyed object
    up,               \* is the connection established
    rx,               \* octets received and not read, per connection
    wire,             \* octets the server sent that have not arrived
    srv,              \* requests the server received and has not answered
    users,            \* requests written since the connection was made
    earlier           \* users of the connection when the request was written

clientVars == <<transaction_id_, pc, tid, connection, available, response, result>>
poolVars == <<idle, configs, process>>
netVars == <<up, rx, wire, srv>>
ghostVars == <<users, earlier>>
vars == <<clientVars, poolVars, netVars, ghostVars>>

Ids == 0 .. IdMod - 1

(* The octet stream, in the units that read_response asks for: the header  *)
(* of an answer (its id, its length field, and which request it answers)   *)
(* or a piece that is not a header.                                        *)
Piece == [id |-> -1, of |-> Null, len |-> "piece"]
Header(i, q, l) == [id |-> i, of |-> q, len |-> l]
Answers(q, l) == IF l = "zero" THEN <<Header(tid[q], q, l)>>
                 ELSE <<Header(tid[q], q, l), Piece>>

(* What a server that writes part of an answer, or answers what it has     *)
(* misread, puts on the stream: a header that announces octets which never *)
(* come, or octets that are no header at all.                              *)
Fragments == {Piece} \cup {Header(i, Null, "fits") : i \in Ids}

(* tcp_data_unit(), which goes with every error. *)
Empty == [id |-> -1, of |-> Null]

(* What can remain of the units u after a read that does not start at a    *)
(* header and so ends anywhere.                                            *)
Remainders(u) ==
    {SubSeq(u, i + 1, Len(u)) : i \in 1 .. Len(u)}
    \cup {<<Piece>> \o SubSeq(u, i + 1, Len(u)) : i \in 1 .. Len(u)}

(* The call holds a connection. *)
InFlight(r) ==
    pc[r] \in {"clearing", "writing", "readHeader", "readBody", "readEmpty"}

Init ==
    /\ transaction_id_ = 1 % IdMod
    /\ pc = [r \in Requests |-> "new"]
    /\ tid = [r \in Requests |-> 0]
    /\ connection = [r \in Requests |-> Null]
    /\ available = [r \in Requests |-> 0]
    /\ response = [r \in Requests |-> Empty]
    /\ result = [r \in Requests |-> "none"]
    /\ idle = Connections
    /\ configs = 0
    /\ process = "up"
    /\ up = [c \in Connections |-> FALSE]
    /\ rx = [c \in Connections |-> <<>>]
    /\ wire = [c \in Connections |-> <<>>]
    /\ srv = [c \in Connections |-> <<>>]
    /\ users = [c \in Connections |-> {}]
    /\ earlier = [r \in Requests |-> {}]

goto(r, where) == pc' = [pc EXCEPT ![r] = where]

(* Operators named X_but_... are X with a plausible mistake; the mutation  *)
(* runs put them in the place of X.                                        *)
Leave_but_released_on_success_only(r, how, error, unit) ==
    /\ goto(r, how)
    /\ result' = [result EXCEPT ![r] = error]
    /\ response' = [response EXCEPT ![r] = unit]
    /\ idle' = IF error = "success" THEN idle \cup {connection[r]} ELSE idle
    /\ connection' = [connection EXCEPT ![r] = Null]
    /\ available' = [available EXCEPT ![r] = 0]
    /\ UNCHANGED <<transaction_id_, tid, configs, process>>

(* co_return (or an exception) out of send_request: defer_release gives    *)
(* the connection back on every path.                                      *)
Leave(r, how, error, unit) ==
    /\ goto(r, how)
    /\ result' = [result EXCEPT ![r] = error]
    /\ response' = [response EXCEPT ![r] = unit]
    /\ idle' = IF connection[r] = Null THEN idle ELSE idle \cup {connection[r]}
    /\ connection' = [connection EXCEPT ![r] = Null]
    /\ available' = [available EXCEPT ![r] = 0]
    /\ UNCHANGED <<transaction_id_, tid, configs, process>>

Return(r, error, unit) == Leave(r, "returned", error, unit)

-----------------------------------------------------------------------------
(* The user's calls *)

create_request_but_no_wrap(r) ==
    /\ process = "up"
    /\ pc[r] = "new"
    /\ tid' = [tid EXCEPT ![r] = transaction_id_]
    /\ transaction_id_' = transaction_id_ + 1
    /\ goto(r, "created")
    /\ UNCHANGED <<connection, available, response, result, poolVars, netVars, ghostVars>>

create_request(r) ==
    /\ process = "up"
    /\ pc[r] = "new"
    /\ tid' = [tid EXCEPT ![r] = transaction_id_]
    /\ transaction_id_' = (transaction_id_ + 1) % IdMod
    /\ goto(r, "created")
    /\ UNCHANGED <<connection, available, response, result, poolVars, netVars, ghostVars>>

send_request(r) ==
    /\ process = "up"
    /\ pc[r] = "created"
    /\ goto(r, "waiting")
    /\ UNCHANGED <<transaction_id_, tid, connection, available, response, result,
                   poolVars, netVars, ghostVars>>

(* A new pool replaces the old one, whose destruction takes its            *)
(* connections with it: requests still queueing for one are told that the  *)
(* pool stopped, a request that holds one goes on with a dangling pointer. *)
set_config ==
    /\ process = "up"
    /\ configs < MaxConfigs
    /\ configs' = configs + 1
    /\ process' = IF \E r \in Requests : InFlight(r) THEN "undefined" ELSE "up"
    /\ pc' = [r \in Requests |-> IF pc[r] = "waiting" THEN "orphaned" ELSE pc[r]]
    /\ idle' = Connections
    /\ up' = [c \in Connections |-> FALSE]
    /\ rx' = [c \in Connections |-> <<>>]
    /\ wire' = [c \in Connections |-> <<>>]
    /\ srv' = [c \in Connections |-> <<>>]
    /\ users' = [c \in Connections |-> {}]
    /\ UNCHANGED <<transaction_id_, tid, connection, available, response, result, earlier>>

-----------------------------------------------------------------------------
(* send_request *)

(* get_connection() returns nullptr. *)
PoolStopped(r) ==
    /\ process = "up"
    /\ pc[r] = "orphaned"
    /\ Return(r, "stopped", Empty)
    /\ UNCHANGED <<netVars, ghostVars>>

(* The pool hands out an idle connection, made anew if the pool knows it   *)
(* is down; clear_buffer looks at the number of octets received.           *)
Reconnected(c) ==
    /\ up' = [up EXCEPT ![c] = TRUE]
    /\ rx' = [rx EXCEPT ![c] = <<>>]
    /\ wire' = [wire EXCEPT ![c] = <<>>]
    /\ srv' = [srv EXCEPT ![c] = <<>>]
    /\ users' = [users EXCEPT ![c] = {}]
    /\ UNCHANGED earlier

GetConnection(r, c) ==
    /\ process = "up"
    /\ pc[r] = "waiting"
    /\ c \in idle
    /\ idle' = idle \ {c}
    /\ connection' = [connection EXCEPT ![r] = c]
    /\ \/ up[c] /\ UNCHANGED <<netVars, ghostVars>>
       \/ ~up[c] /\ Reconnected(c)
       \/ ~up[c] /\ UNCHANGED <<netVars, ghostVars>>
    /\ available' = [available EXCEPT ![r] = Len(rx'[c])]
    /\ goto(r, IF rx'[c] = <<>> THEN "writing" ELSE "clearing")
    /\ UNCHANGED <<transaction_id_, tid, response, result, configs, process>>

(* The pool does not know that the connection is down, bytes_available()   *)
(* finds out.                                                              *)
GetDeadConnection(r, c) ==
    /\ process = "up"
    /\ pc[r] = "waiting"
    /\ c \in idle
    /\ ~up[c]
    /\ Return(r, "disconnected", Empty)
    /\ UNCHANGED <<netVars, ghostVars>>

ClearFails(r) ==
    /\ process = "up"
    /\ pc[r] = "clearing"
    /\ ~up[connection[r]]
    /\ Return(r, "error", Empty)
    /\ UNCHANGED <<netVars, ghostVars>>

ClearRead(r) ==
    /\ process = "up"
    /\ pc[r] = "clearing"
    /\ LET c == connection[r] IN
         rx' = [rx EXCEPT ![c] = SubSeq(@, available[r] + 1, Len(@))]
    /\ goto(r, "writing")
    /\ UNCHANGED <<transaction_id_, tid, connection, available, response, result,
                   poolVars, up, wire, srv, ghostVars>>

Written_but_twice(r) ==
    LET c == connection[r] IN
    /\ srv' = [srv EXCEPT ![c] = IF up[c] THEN @ \o <<r, r>> ELSE @]
    /\ users' = [users EXCEPT ![c] = @ \cup {r}]
    /\ earlier' = [earlier EXCEPT ![r] = users[c]]
    /\ UNCHANGED <<up, rx, wire>>

(* The request is on its way: it reaches the server unless the connection  *)
(* is down.                                                                *)
Written(r) ==
    LET c == connection[r] IN
    /\ srv' = [srv EXCEPT ![c] = IF up[c] THEN Append(@, r) ELSE @]
    /\ users' = [users EXCEPT ![c] = @ \cup {r}]
    /\ earlier' = [earlier EXCEPT ![r] = users[c]]
    /\ UNCHANGED <<up, rx, wire>>

WriteDone(r) ==
    /\ process = "up"
    /\ pc[r] = "writing"
    /\ Written(r)
    /\ goto(r, "readHeader")
    /\ UNCHANGED <<transaction_id_, tid, connection, available, response, result, poolVars>>

WriteFails(r) ==
    /\ process = "up"
    /\ pc[r] = "writing"
    /\ ~up[connection[r]]
    /\ Return(r, "error", Empty)
    /\ UNCHANGED <<netVars, ghostVars>>

(* The deadline passes; the request may have reached the server. *)
WriteTimesOut(r) ==
    /\ process = "up"
    /\ pc[r] = "writing"
    /\ r \in Timed
    /\ Return(r, "write_timeout", Empty)
    /\ Written(r) \/ UNCHANGED <<netVars, ghostVars>>

(* read_response has the six octets of a header: too long a message is an  *)
(* error that leaves the rest of it unread; otherwise the body comes next. *)
HeaderRead(r, h) ==
    IF h.len = "over"
    THEN Return(r, "invalid_response", Empty)
    ELSE /\ goto(r, IF h.len = "zero" THEN "readEmpty" ELSE "readBody")
         /\ response' = [response EXCEPT ![r] = [id |-> h.id, of |-> h.of]]
         /\ UNCHANGED <<transaction_id_, tid, connection, available, result, poolVars>>

(* A read that starts inside a message takes whatever is there for a       *)
(* header.                                                                 *)
ReadHeader(r) ==
    /\ process = "up"
    /\ pc[r] = "readHeader"
    /\ LET c == connection[r] IN
         /\ rx[c] # <<>>
         /\ IF Head(rx[c]) # Piece
            THEN /\ HeaderRead(r, Head(rx[c]))
                 /\ rx' = [rx EXCEPT ![c] = Tail(@)]
            ELSE /\ \E i \in Ids, l \in {"fits", "over", "zero"} :
                       HeaderRead(r, Header(i, Null, l))
                 /\ \E u \in Remainders(rx[c]) : rx' = [rx EXCEPT ![c] = u]
    /\ UNCHANGED <<up, wire, srv, ghostVars>>

Stale_but_reversed(r) == response[r].id > tid[r]

(* The loop of send_request goes on while the answer is an older one. *)
Stale(r) == response[r].id < tid[r]

ReadBody(r) ==
    /\ process = "up"
    /\ pc[r] = "readBody"
    /\ LET c == connection[r] IN
         /\ rx[c] # <<>>
         /\ IF response[r].of # Null
            THEN rx' = [rx EXCEPT ![c] = Tail(@)]
            ELSE \E u \in Remainders(rx[c]) : rx' = [rx EXCEPT ![c] = u]
    /\ \/ /\ Stale(r)
          /\ goto(r, "readHeader")
          /\ UNCHANGED <<transaction_id_, tid, connection, available, response, result, poolVars>>
       \/ /\ ~Stale(r)
          /\ Return(r, "success", response[r])
    /\ UNCHANGED <<up, wire, srv, ghostVars>>

(* A body of no octets: the constructor of tcp_data_unit throws. *)
ReadEmpty(r) ==
    /\ process = "up"
    /\ pc[r] = "readEmpty"
    /\ Leave(r, "threw", "exception", Empty)
    /\ UNCHANGED <<netVars, ghostVars>>

ReadFails(r) ==
    /\ process = "up"
    /\ pc[r] \in {"readHeader", "readBody"}
    /\ ~up[connection[r]]
    /\ Return(r, "error", Empty)
    /\ UNCHANGED <<netVars, ghostVars>>

ReadTimesOut_but_header_only(r) ==
    /\ process = "up"
    /\ pc[r] = "readHeader"
    /\ r \in Timed
    /\ Return(r, "read_timeout", Empty)
    /\ UNCHANGED <<netVars, ghostVars>>

ReadTimesOut(r) ==
    /\ process = "up"
    /\ pc[r] \in {"readHeader", "readBody"}
    /\ r \in Timed
    /\ Return(r, "read_timeout", Empty)
    /\ UNCHANGED <<netVars, ghostVars>>

-----------------------------------------------------------------------------
(* The network and the remote server, which answers requests in the order  *)
(* it received them, as late as it likes.  It may also lose some of them,  *)
(* or write something that is not a whole answer.                          *)

ServerAnswers(c, l) ==
    /\ process = "up"
    /\ srv[c] # <<>>
    /\ wire' = [wire EXCEPT ![c] = @ \o Answers(Head(srv[c]), l)]
    /\ srv' = [srv EXCEPT ![c] = Tail(@)]
    /\ UNCHANGED <<up, rx, clientVars, poolVars, ghostVars>>

(* The requests after the first i and before the j-th are lost. *)
ServerForgets(c, i, j) ==
    /\ process = "up"
    /\ srv' = [srv EXCEPT ![c] = SubSeq(@, 1, i) \o SubSeq(@, j, Len(@))]
    /\ UNCHANGED <<up, rx, wire, clientVars, poolVars, ghostVars>>

(* In the place of an answer, or without having been asked. *)
ServerGarbles(c, u) ==
    /\ process = "up"
    /\ Len(wire[c]) + Len(rx[c]) < MaxGarbled
    /\ wire' = [wire EXCEPT ![c] = Append(@, u)]
    /\ \/ UNCHANGED srv
       \/ srv[c] # <<>> /\ srv' = [srv EXCEPT ![c] = Tail(@)]
    /\ UNCHANGED <<up, rx, clientVars, poolVars, ghostVars>>

Arrives(c) ==
    /\ process = "up"
    /\ wire[c] # <<>>
    /\ rx' = [rx EXCEPT ![c] = Append(@, Head(wire[c]))]
    /\ wire' = [wire EXCEPT ![c] = Tail(@)]
    /\ UNCHANGED <<up, srv, clientVars, poolVars, ghostVars>>

(* The connection ends; what had arrived can still be read. *)
Disconnects(c) ==
    /\ process = "up"
    /\ up[c]
    /\ up' = [up EXCEPT ![c] = FALSE]
    /\ wire' = [wire EXCEPT ![c] = <<>>]
    /\ srv' = [srv EXCEPT ![c] = <<>>]
    /\ UNCHANGED <<rx, clientVars, poolVars, ghostVars>>

-----------------------------------------------------------------------------
Acquire(r) == \E c \in Connections : GetConnection(r, c) \/ GetDeadConnection(r, c)

RequestStep(r) ==
    \/ PoolStopped(r)
    \/ Acquire(r)
    \/ ClearFails(r)
    \/ ClearRead(r)
    \/ WriteDone(r)
    \/ WriteFails(r)
    \/ WriteTimesOut(r)
    \/ ReadHeader(r)
    \/ ReadBody(r)
    \/ ReadEmpty(r)
    \/ ReadFails(r)
    \/ ReadTimesOut(r)

Environment ==
    \/ \E r \in Requests : create_request(r) \/ send_request(r)
    \/ set_config
    \/ \E c \in Connections :
          \/ \E l \in ServerLengths : ServerAnswers(c, l)
          \/ \E i \in 0 .. Len(srv[c]) - 1 :
                \E j \in i + 2 .. Len(srv[c]) + 1 : ServerForgets(c, i, j)
          \/ MaxGarbled > 0 /\ \E u \in Fragments : ServerGarbles(c, u)
          \/ Arrives(c)
          \/ Disconnects(c)

Next == Environment \/ \E r \in Requests : RequestStep(r)

Spec == Init /\ [][Next]_vars

(* The executor resumes every coroutine whose operation is complete, and   *)
(* the deadline set by expires_after() passes whatever else goes on.       *)
(* Nothing is assumed of the server, the network or the user.              *)
Fairness ==
    \A r \in Requests : WF_vars(RequestStep(r)) /\ WF_vars(ReadTimesOut(r))

FairSpec == Spec /\ Fairness

-----------------------------------------------------------------------------
(* Properties *)

Places == {"new", "created", "waiting", "orphaned", "clearing", "writing",
           "readHeader", "readBody", "readEmpty", "returned", "threw"}
Results == {"none", "success", "stopped", "disconnected", "error", "write_timeout",
            "read_timeout", "invalid_response", "exception"}
Units == [id : Ids \cup {-1}, of : Requests \cup {Null},
          len : {"fits", "over", "zero", "piece"}]

(* Every variable keeps the type its counterpart has in the code. *)
TypeOK ==
    /\ transaction_id_ \in Ids
    /\ pc \in [Requests -> Places]
    /\ tid \in [Requests -> Ids]
    /\ connection \in [Requests -> Connections \cup {Null}]
    /\ available \in [Requests -> Nat]
    /\ response \in [Requests -> [id : Ids \cup {-1}, of : Requests \cup {Null}]]
    /\ result \in [Requests -> Results]
    /\ idle \subseteq Connections
    /\ configs \in 0 .. MaxConfigs
    /\ process \in {"up", "undefined"}
    /\ up \in [Connections -> BOOLEAN]
    /\ rx \in [Connections -> Seq(Units)]
    /\ wire \in [Connections -> Seq(Units)]
    /\ srv \in [Connections -> Seq(Requests)]
    /\ users \in [Connections -> SUBSET Requests]
    /\ earlier \in [Requests -> SUBSET Requests]

(* However a send_request ends (answer, error, timeout, exception), its    *)
(* connection goes back to the pool exactly once: at any time a connection *)
(* is either idle or used by exactly one call, so none leaks and no two    *)
(* calls read the same stream.                                             *)
ConnectionExclusive ==
    process = "up" =>
        \A c \in Connections :
            LET holders == {r \in Requests : InFlight(r) /\ connection[r] = c} IN
            IF c \in idle THEN holders = {} ELSE \E r \in Requests : holders = {r}

(* The call was answered, with the answer to its own request. *)
Clean(q) == result[q] = "success" /\ response[q].of = q

(* The purpose of clear_buffer and of the loop on the transaction id: as   *)
(* long as the requests written earlier on the connection carry smaller    *)
(* ids, a complete answer that send_request returns is the one to its own  *)
(* request, however late the answers to requests that timed out arrive.    *)
OlderAnswersSkipped ==
    \A r \in Requests :
        /\ result[r] = "success"
        /\ response[r].of # Null
        /\ \A q \in earlier[r] : tid[q] < tid[r]
        => response[r].of = r

(* Misread or foreign answers take an earlier failure: when every request  *)
(* written earlier on the connection got its own answer, so does this one, *)
(* from a server that writes whole answers.                                *)
CleanHistoryOwnAnswer ==
    MaxGarbled = 0 => \A r \in Requests :
        result[r] = "success" /\ (\A q \in earlier[r] : Clean(q)) => Clean(r)

(* Every call with a timeout returns, once the pool is asked for a         *)
(* connection, whatever server and network do.  It takes that all calls    *)
(* have timeouts: one without may hold its connection for ever, and the    *)
(* next has to wait for it (TimeoutBoundsWait).                            *)
TimedCallsReturn ==
    \A r \in Timed :
        pc[r] = "waiting" ~> pc[r] \in {"returned", "threw"} \/ process = "undefined"

(* tcp_client.hpp:35, "Sets the configuration object if the client is not  *)
(* running": set_config never takes the pool away from a running call.     *)
ConfigSetWhenNotRunning == process # "undefined"

(* tcp_client.hpp:67, "The time to wait for a response before declaring a  *)
(* request a failure": a call with a timeout does not wait for ever, for   *)
(* the pool's next free connection included.                               *)
TimeoutBoundsWait ==
    \A r \in Timed : pc[r] = "waiting" ~> pc[r] # "waiting" \/ process = "undefined"

(* tcp_client.cpp:80-82, "iterate until we've received our response or     *)
(* timedout": a successful send_request returns the response that carries  *)
(* the transaction id of its request.                                      *)
AnswerMatches ==
    \A r \in Requests : result[r] = "success" => response[r].id = tid[r]
=============================================================================
