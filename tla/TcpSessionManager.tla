------------------------- MODULE TcpSessionManager -------------------------
(***************************************************************************)
(* The registry of running sessions: class tcp_session_manager of          *)
(* modbus/server/tcp_session_manager.cpp, together with the two members of *)
(* tcp_session that it drives (the stop_ flag and the socket).             *)
(*                                                                         *)
(* Every operation of the registry runs under mtx_ and contains no         *)
(* co_await, so each is one atomic step.  The operators below constrain    *)
(* only this module's variables; TcpSession and TcpServer use them inside  *)
(* the steps that call them.                                               *)
(***************************************************************************)
EXTENDS Integers, FiniteSets

CONSTANTS
    Sessions,            \* identities of the sessions the server may create
    DefaultMaxSessions,  \* DEFAULT_SERVER_MAX_CONNECTIONS
    Limits               \* values set_max_sessions may be called with

ASSUME ManagerAssumption ==
    /\ IsFiniteSet(Sessions)
    /\ Limits \subseteq Int
    /\ DefaultMaxSessions \in Limits

VARIABLES
    sessions_,      \* tcp_session_manager::sessions_
    max_sessions_,  \* tcp_session_manager::max_sessions_
    session_stop_,  \* tcp_session::stop_ of each session
    socket_         \* tcp_session::socket_: "none" before accept, then open/closed

managerVars == <<sessions_, max_sessions_, session_stop_, socket_>>

ManagerInit ==
    /\ sessions_ = {}
    /\ max_sessions_ = DefaultMaxSessions
    /\ session_stop_ = [s \in Sessions |-> FALSE]
    /\ socket_ = [s \in Sessions |-> "none"]

(* Operators named X_but_... are X with a plausible mistake; the mutation  *)
(* runs put them in the place of X.                                        *)
session_stop_but_socket_left_open(S) ==
    /\ session_stop_' = [s \in Sessions |-> s \in S \/ session_stop_[s]]
    /\ UNCHANGED socket_

(* session->stop() for every session of S: raise the flag, close the       *)
(* socket.                                                                 *)
session_stop(S) ==
    /\ session_stop_' = [s \in Sessions |-> s \in S \/ session_stop_[s]]
    /\ socket_' = [s \in Sessions |-> IF s \in S THEN "closed" ELSE socket_[s]]

Exceeded_but_one_more ==
    max_sessions_ >= 0 /\ Cardinality(sessions_) > max_sessions_ + 1

(* sessions_.size() > max_sessions_ compares a size_t with an int: a       *)
(* negative limit converts to a huge unsigned value and is never exceeded. *)
Exceeded == max_sessions_ >= 0 /\ Cardinality(sessions_) > max_sessions_

manager_start_refused(s) ==
    /\ Exceeded
    /\ session_stop({s})
    /\ UNCHANGED <<sessions_, max_sessions_>>

manager_start_admitted_but_unchecked(s) ==
    /\ sessions_' = sessions_ \cup {s}
    /\ UNCHANGED <<max_sessions_, session_stop_, socket_>>

manager_start_admitted_but_counted_down(s) ==
    /\ ~Exceeded
    /\ sessions_' = sessions_ \cup {s}
    /\ max_sessions_' = max_sessions_ - 1
    /\ UNCHANGED <<session_stop_, socket_>>

manager_start_admitted(s) ==
    /\ ~Exceeded
    /\ sessions_' = sessions_ \cup {s}
    /\ UNCHANGED <<max_sessions_, session_stop_, socket_>>

manager_stop_but_only_erased(s) ==
    /\ sessions_' = sessions_ \ {s}
    /\ UNCHANGED <<max_sessions_, session_stop_, socket_>>

manager_stop(s) ==
    /\ sessions_' = sessions_ \ {s}
    /\ session_stop({s})
    /\ UNCHANGED max_sessions_

manager_stop_all_but_only_cleared ==
    /\ sessions_' = {}
    /\ UNCHANGED <<max_sessions_, session_stop_, socket_>>

manager_stop_all ==
    /\ session_stop(sessions_)
    /\ sessions_' = {}
    /\ UNCHANGED max_sessions_

set_max_sessions(n) ==
    /\ max_sessions_' = n
    /\ UNCHANGED <<sessions_, session_stop_, socket_>>
=============================================================================
