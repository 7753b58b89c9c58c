------------------------------ MODULE TcpServer ------------------------------
(***************************************************************************)
(* class tcp_server of modbus/server/tcp_server.cpp: the accept loop, the  *)
(* sessions it creates, and stop(), composed with the session manager and  *)
(* the sessions.                                                           *)
(*                                                                         *)
(* start(), stop() and every session may run on different threads of the   *)
(* executor (the code guards itself with a mutex and atomics), so stop()   *)
(* is the three steps its three statements are.                            *)
(***************************************************************************)
EXTENDS TcpSession

VARIABLES
    serverPc,  \* where tcp_server::start() stands
    acceptor,  \* acceptor_: "closed", "open" (not listening) or "listening"
    stop_,     \* tcp_server::stop_
    stopPc     \* which statement of tcp_server::stop() was run last

serverVars == <<serverPc, acceptor, stop_, stopPc>>
vars == <<managerVars, sessionVars, serverVars>>

ServerPhases == {"idle", "resolving", "accepting", "acceptDone", "ended", "threw"}

Init ==
    /\ ManagerInit
    /\ SessionInit
    /\ serverPc = "idle"
    /\ acceptor = "closed"
    /\ stop_ = FALSE
    /\ stopPc = "none"

(* X_but_...: X with a plausible mistake, for the mutation runs. *)
AcceptLoopTop_but_always_accepting == "accepting"

(* while (!stop_): wait for a connection or leave the loop. *)
AcceptLoopTop == IF stop_ THEN "ended" ELSE "accepting"

-----------------------------------------------------------------------------
(* tcp_server::start() *)

ServerStart ==
    /\ process = "up"
    /\ serverPc = "idle"
    /\ serverPc' = "resolving"
    /\ UNCHANGED <<acceptor, stop_, stopPc, managerVars, sessionVars>>

ResolveFails ==
    /\ process = "up"
    /\ serverPc = "resolving"
    /\ serverPc' = "threw"
    /\ UNCHANGED <<acceptor, stop_, stopPc, managerVars, sessionVars>>

(* A failure of open, bind or listen is caught and logged, and the loop is *)
(* entered all the same.                                                   *)
Listen ==
    /\ process = "up"
    /\ serverPc = "resolving"
    /\ acceptor' \in {"closed", "open", "listening"}
    /\ serverPc' = AcceptLoopTop
    /\ UNCHANGED <<stop_, stopPc, managerVars, sessionVars>>

AcceptCompletes_but_one_at_a_time(s) ==
    /\ process = "up"
    /\ serverPc = "accepting"
    /\ acceptor = "listening"
    /\ pc[s] = "backlog"
    /\ \A q \in Sessions : ~Running(q)
    /\ serverPc' = "acceptDone"
    /\ goto(s, "taken")
    /\ UNCHANGED <<acceptor, stop_, stopPc, ready, peer, inbound, process, managerVars>>

AcceptCompletes(s) ==
    /\ process = "up"
    /\ serverPc = "accepting"
    /\ acceptor = "listening"
    /\ pc[s] = "backlog"
    /\ serverPc' = "acceptDone"
    /\ goto(s, "taken")
    /\ UNCHANGED <<acceptor, stop_, stopPc, ready, peer, inbound, process, managerVars>>

(* async_accept completes with an error: the acceptor was closed, never    *)
(* listened, or the system failed.  Every error ends the loop.             *)
AcceptFails ==
    /\ process = "up"
    /\ serverPc = "accepting"
    /\ serverPc' = "ended"
    /\ UNCHANGED <<acceptor, stop_, stopPc, managerVars, sessionVars>>

(* Resumed with a socket: remote_endpoint() throws out of start() when the *)
(* peer has reset the connection; otherwise the session is made and        *)
(* manager.start() spawned.                                                *)
ResumeAccept(s) ==
    /\ process = "up"
    /\ serverPc = "acceptDone"
    /\ pc[s] = "taken"
    /\ IF peer[s] = "reset"
       THEN /\ serverPc' = "threw"
            /\ goto(s, "dropped")
            /\ UNCHANGED socket_
       ELSE /\ serverPc' = AcceptLoopTop
            /\ goto(s, "accepted")
            /\ socket_' = [socket_ EXCEPT ![s] = "open"]
    /\ UNCHANGED <<acceptor, stop_, stopPc, ready, peer, inbound, process,
                   sessions_, max_sessions_, session_stop_>>

(* The spawned manager.start(session) runs. *)
ManagerStart(s) ==
    /\ process = "up"
    /\ pc[s] = "accepted"
    /\ \/ manager_start_refused(s) /\ goto(s, "refused")
       \/ manager_start_admitted(s) /\ goto(s, "spawned")
    /\ UNCHANGED <<serverVars, ready, peer, inbound, process>>

-----------------------------------------------------------------------------
(* tcp_server::stop() *)

StopFlag ==
    /\ process = "up"
    /\ stopPc = "none"
    /\ stop_' = TRUE
    /\ stopPc' = "flagged"
    /\ UNCHANGED <<serverPc, acceptor, managerVars, sessionVars>>

(* Closing the acceptor resets the connections nobody accepted. *)
StopClose ==
    /\ process = "up"
    /\ stopPc = "flagged"
    /\ acceptor' = "closed"
    /\ stopPc' = "closed"
    /\ pc' = [s \in Sessions |-> IF pc[s] = "backlog" THEN "dropped" ELSE pc[s]]
    /\ UNCHANGED <<serverPc, stop_, ready, peer, inbound, process, managerVars>>

StopAll ==
    /\ process = "up"
    /\ stopPc = "closed"
    /\ manager_stop_all
    /\ stopPc' = "returned"
    /\ UNCHANGED <<serverPc, acceptor, stop_, sessionVars>>

-----------------------------------------------------------------------------
(* The environment: peers that connect, and the owner of the manager. *)

PeerConnect(s) ==
    /\ process = "up"
    /\ acceptor = "listening"
    /\ pc[s] = "absent"
    /\ goto(s, "backlog")
    /\ UNCHANGED <<serverVars, ready, peer, inbound, process, managerVars>>

SetMaxSessions(n) ==
    /\ process = "up"
    /\ max_sessions_ # n
    /\ set_max_sessions(n)
    /\ UNCHANGED <<serverVars, sessionVars>>

-----------------------------------------------------------------------------
(* What start() and stop() do once called... *)
StartStep ==
    \/ ResolveFails
    \/ Listen
    \/ AcceptFails /\ acceptor # "listening"
    \/ \E s \in Sessions : AcceptCompletes(s) \/ ResumeAccept(s)

StopStep == StopClose \/ StopAll

SessionNext(s) ==
    \/ ManagerStart(s)
    \/ SessionStep(s) /\ UNCHANGED serverVars

(* ... and what only the user, the peers or the machine decide. *)
Environment ==
    \/ ServerStart
    \/ AcceptFails
    \/ StopFlag
    \/ \E n \in Limits : SetMaxSessions(n)
    \/ \E s \in Sessions :
          \/ PeerConnect(s)
          \/ UseAfterDestroy(s) /\ UNCHANGED serverVars
          \/ PeerSend(s) /\ UNCHANGED serverVars
          \/ \E how \in {"closed", "reset"} : PeerLeave(s, how) /\ UNCHANGED serverVars

Next ==
    \/ StartStep
    \/ StopStep
    \/ \E s \in Sessions : SessionNext(s)
    \/ Environment

Spec == Init /\ [][Next]_vars

(* The executor runs whatever is ready: the server's own steps and those   *)
(* of each session, including the user's request handler, are eventually   *)
(* taken.  Nothing is assumed of users and peers.                          *)
Fairness ==
    /\ WF_vars(StartStep)
    /\ WF_vars(StopStep)
    /\ \A s \in Sessions : WF_vars(SessionNext(s))

FairSpec == Spec /\ Fairness

-----------------------------------------------------------------------------
(* Properties *)

ReadyResults == {"none", "error", "aborted", "ok"} \cup Chunks

(* Every variable keeps the type its member has in the code. *)
TypeOK ==
    /\ sessions_ \subseteq Sessions
    /\ max_sessions_ \in Limits
    /\ session_stop_ \in [Sessions -> BOOLEAN]
    /\ socket_ \in [Sessions -> {"none", "open", "closed"}]
    /\ pc \in [Sessions -> Phases]
    /\ ready \in [Sessions -> ReadyResults]
    /\ peer \in [Sessions -> {"connected", "closed", "reset"}]
    /\ inbound \in [Sessions -> BOOLEAN]
    /\ process \in {"up", "aborted"}
    /\ serverPc \in ServerPhases
    /\ acceptor \in {"closed", "open", "listening"}
    /\ stop_ \in BOOLEAN
    /\ stopPc \in {"none", "flagged", "closed", "returned"}

(* What the admission test of tcp_session_manager::start() guarantees when *)
(* limits change while sessions come and go: if every limit ever in force  *)
(* is non-negative, the registry never holds more than the largest of them *)
(* plus one session.                                                       *)
RegistryBounded ==
    (\A m \in Limits : m >= 0) => \E m \in Limits : Cardinality(sessions_) <= m + 1

(* A session whose coroutine is running is in the registry exactly as long *)
(* as nobody has called stop() on it: stop_all() reaches every running     *)
(* session it has not already stopped, whatever the order of accepts,      *)
(* admissions, disconnections and stops.                                   *)
RunningIsRegistered ==
    \A s \in Sessions : Running(s) => (s \in sessions_ <=> ~session_stop_[s])

(* A session that was refused, or whose coroutine returned by itself (read *)
(* error, end of file, aborted operation, write error, loop condition) has *)
(* left the registry and its socket is closed.  Only an exception can      *)
(* leave a session behind.                                                 *)
EndedIsReleased ==
    \A s \in Sessions :
        pc[s] \in {"refused", "finished"} => s \notin sessions_ /\ socket_[s] = "closed"

(* stop() may close the acceptor while start() still resolves its          *)
(* endpoint, and start() then opens it again and listens.  Nobody is       *)
(* served through that listener: the loop has ended and no connection was  *)
(* ever taken from the backlog.                                            *)
LateListenerServesNobody ==
    stopPc \in {"closed", "returned"} /\ acceptor # "closed" =>
        /\ serverPc = "ended"
        /\ \A s \in Sessions : pc[s] \in {"absent", "backlog", "dropped"}

(* A coroutine uses its destroyed session object only when it resumes      *)
(* after stop_all() has dropped it, or in the log call after its own       *)
(* failed write to a peer that had left (tcp_session.cpp:57-60).           *)
(* Refusals, read errors, end of file and changes of the limit never lead  *)
(* there.                                                                  *)
AbortNeedsCause ==
    [][\A s \in Sessions :
          pc[s] # "crashed" /\ pc'[s] = "crashed" =>
              \/ session_stop_[s] /\ stopPc = "returned"
              \/ pc[s] = "writeDone" /\ ready[s] = "error" /\ peer[s] # "connected"]_vars

(* The server implements the abstract registry: tcp_session_manager's set  *)
(* of sessions and the sessions' stop flags change only as it allows.      *)
Registry == INSTANCE SessionRegistry WITH
    active <- sessions_,
    gone <- {s \in Sessions : session_stop_[s]},
    limit <- max_sessions_,
    DefaultLimit <- DefaultMaxSessions

ImplementsRegistry == Registry!Spec

(* Once stop() has raised stop_, tcp_server::start() ends, wherever it     *)
(* was: resolving, waiting for a connection or about to resume with one.   *)
AcceptLoopEnds ==
    stop_ ~> serverPc \in {"idle", "ended", "threw"} \/ process = "aborted"

(* However busy its sessions are, the server takes every connection that   *)
(* waits in the backlog, until the loop ends or the one exception that     *)
(* escapes it: remote_endpoint() of a connection that was reset between    *)
(* its accept and the log line, which closes the server to all others.     *)
WaitingIsAccepted ==
    \A s \in Sessions :
        pc[s] = "backlog" ~>
            \/ pc[s] # "backlog"
            \/ serverPc = "ended"
            \/ serverPc = "threw" /\ \E q \in Sessions : pc[q] = "dropped" /\ peer[q] = "reset"
            \/ process = "aborted"

(* tcp_session::stop() makes the session's coroutine end, whatever it was  *)
(* waiting for.                                                            *)
StoppedSessionEnds ==
    \A s \in Sessions : session_stop_[s] ~> ~Running(s) \/ process = "aborted"

(* When the peer has gone, its session leaves the registry and frees its   *)
(* place under the limit, unless an exception ended its coroutine.         *)
PeerGoneFreesPlace ==
    \A s \in Sessions :
        peer[s] # "connected" ~>
            s \notin sessions_ \/ pc[s] = "threw" \/ process = "aborted"

(* tcp_server.cpp:69, "Stop the server and cancel all requests": after     *)
(* stop() has returned no session that is not itself stopped handles a     *)
(* request.                                                                *)
NoRequestAfterStop ==
    stopPc = "returned" =>
        \A s \in Sessions : pc[s] = "handling" => session_stop_[s]

(* tcp_session.hpp:31, "Stop all asynchronous operations associated with   *)
(* the session": the coroutine of a stopped session does not go on to use  *)
(* an object that no longer exists.                                        *)
StoppedIsNotUsed == \A s \in Sessions : session_stop_[s] => pc[s] # "crashed"

(* tcp_session_manager.hpp:38, "Sets the maximum number of connections":   *)
(* the registry never holds more sessions than the limit in force.         *)
MaxSessionsRespected == Cardinality(sessions_) <= max_sessions_
=============================================================================
