------------------------------ MODULE EndToEnd ------------------------------
(***************************************************************************)
(* The client of this repository talking to the server of this repository: *)
(* the calls of TcpClient, with a tcp_session at the other end of every    *)
(* connection in the place of TcpClient's arbitrary remote server.         *)
(*                                                                         *)
(* The session takes whatever one async_read_some returns for one request  *)
(* and writes its response with one async_write_some, so here requests     *)
(* travel as an octet stream too: a read may end inside a request, or take *)
(* several at once.  What TcpServer and TcpSession say of admissions, of   *)
(* stop() and of destroyed sessions appears here as a connection that ends *)
(* or that nobody serves.                                                  *)
(***************************************************************************)
EXTENDS Integers, Sequences, FiniteSets

CONSTANTS
    Requests, Timed, Connections, Null, IdMod, ServerLengths, MaxGarbled, MaxConfigs

VARIABLES
    (* tcp_client, its pool and the stream of answers: see TcpClient *)
    transaction_id_, pc, tid, connection, available, response, result,
    idle, configs, process, up, rx, wire, users, earlier,
    (* the session at the other end of each connection *)
    session,  \* "none", "reading", "handling", or "deaf": the socket is open but
              \* its coroutine has thrown or was never started
    begun,    \* the beginning of a request has been read and its rest has not
    inbox,    \* requests written of which nothing has been read
    job,      \* the request the handler has, Null if nobody sent it
    torn      \* ghost: a read or a write has ended inside a message

ASSUME EndToEndAssumption ==
    /\ IsFiniteSet(Requests)
    /\ Timed \subseteq Requests
    /\ Null \notin Requests \cup Connections
    /\ IdMod \in Nat \ {0}
    /\ ServerLengths \subseteq {"fits", "over", "zero"}
    /\ MaxGarbled \in Nat
    /\ MaxConfigs \in Nat

sessionVars == <<session, begun, inbox, job, torn>>

(* The requests the server has and may still answer. *)
Pending ==
    [c \in Connections |->
        (IF job[c] = Null THEN <<>> ELSE <<job[c]>>) \o inbox[c]]

C == INSTANCE TcpClient WITH srv <- Pending

(* What the session's steps leave alone, and all there is. *)
callVars == <<transaction_id_, pc, tid, connection, available, response, result,
              idle, configs, process, up, rx, users, earlier>>
vars == <<callVars, wire, sessionVars>>

Init ==
    /\ session = [c \in Connections |-> "none"]
    /\ begun = [c \in Connections |-> FALSE]
    /\ inbox = [c \in Connections |-> <<>>]
    /\ job = [c \in Connections |-> Null]
    /\ torn = [c \in Connections |-> FALSE]
    /\ C!Init

-----------------------------------------------------------------------------
(* The client's steps *)

(* Those that neither make a connection nor reach the server. *)
ClientAlone(r) ==
    /\ UNCHANGED sessionVars
    /\ C!create_request(r) \/ C!send_request(r) \/ C!RequestStep(r)
    /\ up' = up

DeadlinePasses(r) ==
    /\ UNCHANGED sessionVars
    /\ C!ReadTimesOut(r)

RequestReaches(r) ==
    /\ pc[r] = "writing"
    /\ up[connection[r]]
    /\ inbox' = [inbox EXCEPT ![connection[r]] = Append(@, r)]
    /\ UNCHANGED <<session, begun, job, torn>>
    /\ C!WriteDone(r) \/ C!WriteTimesOut(r)

(* A new connection meets a new session, or nobody: the accept loop may    *)
(* have ended with the connection in the backlog.                          *)
Connects(r, c) ==
    /\ ~up[c]
    /\ \E s \in {"reading", "deaf"} : session' = [session EXCEPT ![c] = s]
    /\ begun' = [begun EXCEPT ![c] = FALSE]
    /\ inbox' = [inbox EXCEPT ![c] = <<>>]
    /\ job' = [job EXCEPT ![c] = Null]
    /\ torn' = [torn EXCEPT ![c] = FALSE]
    /\ C!GetConnection(r, c)
    /\ up'[c]

set_config ==
    /\ session' = [c \in Connections |-> "none"]
    /\ begun' = [c \in Connections |-> FALSE]
    /\ inbox' = [c \in Connections |-> <<>>]
    /\ job' = [c \in Connections |-> Null]
    /\ torn' = [c \in Connections |-> FALSE]
    /\ C!set_config

(* The peer, the network, a refusal over the limit or stop() ends the      *)
(* connection and with it the session; what has arrived can still be read. *)
Disconnects(c) ==
    /\ session' = [session EXCEPT ![c] = "none"]
    /\ begun' = [begun EXCEPT ![c] = FALSE]
    /\ inbox' = [inbox EXCEPT ![c] = <<>>]
    /\ job' = [job EXCEPT ![c] = Null]
    /\ UNCHANGED torn
    /\ C!Disconnects(c)

Arrives(c) ==
    /\ UNCHANGED sessionVars
    /\ C!Arrives(c)

-----------------------------------------------------------------------------
(* The session's steps *)

goto(c, where, request) ==
    /\ session' = [session EXCEPT ![c] = where]
    /\ job' = [job EXCEPT ![c] = request]

(* What the session makes of octets that begin at the start of a request   *)
(* and hold all of it (and maybe more, which is lost); of too few octets   *)
(* for a request, which are skipped, or fewer than the length field        *)
(* announces, which throw; and of octets from the middle of a request,     *)
(* which may even look like one.                                           *)
Understood(c, n, cut) ==
    IF ~begun[c] /\ (cut => n > 1)
    THEN goto(c, "handling", Head(inbox[c]))
    ELSE \/ goto(c, "reading", Null)
         \/ goto(c, "deaf", Null)
         \/ begun[c] /\ goto(c, "handling", Null)

(* async_read_some takes any part of what is there: the rest of a request  *)
(* begun before, and octets of the next n requests, the last of which may  *)
(* be cut (bound: a request is cut once at most).                          *)
Takes(c, n, cut) ==
    /\ n > 0 \/ begun[c]
    /\ cut => n > 0
    /\ inbox' = [inbox EXCEPT ![c] = SubSeq(@, n + 1, Len(@))]
    /\ begun' = [begun EXCEPT ![c] = cut]
    /\ torn' = [torn EXCEPT ![c] = @ \/ cut]

(* X_but_...: X with a plausible mistake, for the mutation runs. *)
SessionReads_but_not_consumed(c) ==
    /\ process = "up"
    /\ session[c] = "reading"
    /\ \E n \in 1 .. Len(inbox[c]), cut \in BOOLEAN : Understood(c, n, cut)
    /\ UNCHANGED <<callVars, wire, begun, inbox, torn>>

SessionReads_but_full_buffer(c) ==
    /\ process = "up"
    /\ session[c] = "reading"
    /\ Len(inbox[c]) > 1
    /\ \E n \in 0 .. Len(inbox[c]), cut \in BOOLEAN :
          Takes(c, n, cut) /\ Understood(c, n, cut)
    /\ UNCHANGED <<callVars, wire>>

SessionReads(c) ==
    /\ process = "up"
    /\ session[c] = "reading"
    /\ \E n \in 0 .. Len(inbox[c]), cut \in BOOLEAN :
          Takes(c, n, cut) /\ Understood(c, n, cut)
    /\ UNCHANGED <<callVars, wire>>

HandlerReplies_but_not_written(c, l) ==
    /\ process = "up"
    /\ session[c] = "handling"
    /\ job[c] # Null
    /\ goto(c, "reading", Null)
    /\ UNCHANGED <<callVars, wire, begun, inbox, torn>>

HandlerReplies_but_twice(c, l) ==
    /\ process = "up"
    /\ session[c] = "handling"
    /\ job[c] # Null
    /\ wire' = [wire EXCEPT ![c] = @ \o C!Answers(job[c], l) \o C!Answers(job[c], l)]
    /\ goto(c, "reading", Null)
    /\ UNCHANGED <<callVars, begun, inbox, torn>>

(* The handler returns a response with the id of its request, and all of   *)
(* it is written.                                                          *)
HandlerReplies(c, l) ==
    /\ process = "up"
    /\ session[c] = "handling"
    /\ job[c] # Null
    /\ wire' = [wire EXCEPT ![c] = @ \o C!Answers(job[c], l)]
    /\ goto(c, "reading", Null)
    /\ UNCHANGED <<callVars, begun, inbox, torn>>

(* async_write_some may write less than the response: bytes_written is     *)
(* only logged, and the rest is never sent.  A response to what was no     *)
(* request is none for the client, whole or not.                           *)
WritesPart(c) ==
    /\ process = "up"
    /\ session[c] = "handling"
    /\ \E u \in {C!Piece} \cup {C!Header(tid[q], Null, "fits") : q \in {job[c]} \ {Null}} :
          wire' = [wire EXCEPT ![c] = Append(@, u)]
    /\ torn' = [torn EXCEPT ![c] = TRUE]
    /\ goto(c, "reading", Null)
    /\ UNCHANGED <<callVars, begun, inbox>>

(* An exception ends the coroutine; nobody closes the socket. *)
HandlerThrows(c) ==
    /\ process = "up"
    /\ session[c] = "handling"
    /\ goto(c, "deaf", Null)
    /\ UNCHANGED <<callVars, wire, begun, inbox, torn>>

-----------------------------------------------------------------------------
ClientStep(r) ==
    \/ ClientAlone(r)
    \/ RequestReaches(r)
    \/ \E c \in Connections : Connects(r, c)

SessionStep(c) ==
    \/ SessionReads(c)
    \/ \E l \in ServerLengths : HandlerReplies(c, l)
    \/ WritesPart(c)
    \/ HandlerThrows(c)

Next ==
    \/ \E r \in Requests : ClientStep(r)
    \/ set_config
    \/ \E c \in Connections : SessionStep(c) \/ Arrives(c) \/ Disconnects(c)

Spec == Init /\ [][Next]_vars

(* Client and server resume whatever is ready, handlers return, deadlines  *)
(* pass, and TCP delivers what was written while the connection is up.     *)
Fairness ==
    /\ \A r \in Requests : WF_vars(ClientStep(r)) /\ WF_vars(DeadlinePasses(r))
    /\ \A c \in Connections : WF_vars(SessionStep(c)) /\ WF_vars(Arrives(c))

FairSpec == Spec /\ Fairness

-----------------------------------------------------------------------------
(* Properties *)

(* Everything proved and checked of TcpClient against an arbitrary remote  *)
(* server holds against tcp_session: whatever a session does to the        *)
(* requests and the answers of a connection (splitting, losing, answering  *)
(* in part, throwing) is something TcpClient allows its server.            *)
ImplementsClient == C!Spec

(* All requests written on the connection before r got their own answers,  *)
(* and no read or write has ended inside a message.                        *)
Healthy(r) ==
    /\ \A q \in earlier[r] : C!Clean(q)
    /\ connection[r] # Null
    /\ ~torn[connection[r]]

(* The session reads at most one request per async_read_some and drops     *)
(* what else it got, but it drops only what was written after a call had   *)
(* given up: on a healthy connection the request of a call that waits is   *)
(* with the server or its whole answer is under way, and nothing else is.  *)
HealthyInOnePlace ==
    \A r \in Requests :
        LET c == connection[r] IN
        /\ pc[r] = "readHeader"
        /\ Healthy(r)
        /\ session[c] \notin {"none", "deaf"}
        => \/ Pending[c] = <<r>> /\ rx[c] \o wire[c] = <<>>
           \/ /\ Pending[c] = <<>>
              /\ \E l \in ServerLengths : rx[c] \o wire[c] = C!Answers(r, l)

(* On a healthy connection a call that succeeds returns the handler's      *)
(* answer to its own request: neither another call's nor a misread one.    *)
HealthyOwnAnswer ==
    [][\A r \in Requests :
          result[r] = "none" /\ result'[r] = "success" /\ Healthy(r)
          => response'[r].of = r]_vars

(* On a healthy connection every call returns, with or without a timeout,  *)
(* unless the session has thrown: then the socket stays open and a call    *)
(* without a timeout waits for ever.                                       *)
HealthyConnectionAnswers ==
    \A r \in Requests :
        pc[r] = "readHeader" /\ Healthy(r) ~>
            \/ pc[r] \in {"returned", "threw"}
            \/ process = "undefined"
            \/ connection[r] # Null /\ (torn[connection[r]] \/ session[connection[r]] = "deaf")
=============================================================================
