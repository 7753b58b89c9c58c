----------------------------- MODULE TcpSession -----------------------------
(***************************************************************************)
(* The coroutine tcp_session::start() of modbus/server/tcp_session.cpp,    *)
(* one instance per accepted socket, and the peer at the other end of the  *)
(* socket (the environment).                                               *)
(*                                                                         *)
(* A step runs from one suspension point to the next.  An asynchronous     *)
(* read or write is two steps: the operation completes with a result       *)
(* (ReadCompletes, WriteCompletes), and later the coroutine resumes with   *)
(* that result, whatever has happened in between.                          *)
(***************************************************************************)
EXTENDS TcpSessionManager

VARIABLES
    pc,       \* where each session stands
    ready,    \* result of the last completed read or write
    peer,     \* the remote end of each socket
    inbound,  \* the peer sent bytes that nobody has read
    process   \* "up", or "aborted" after a use of a destroyed session

sessionVars == <<pc, ready, peer, inbound, process>>

Phases ==
    {"absent",     \* the peer has not connected
     "backlog",    \* connected, waiting in the kernel for accept
     "taken",      \* async_accept completed with its socket
     "dropped",    \* discarded before a session was made of it
     "accepted",   \* session made, manager.start() spawned but not run
     "refused",    \* over the limit: stopped, no coroutine
     "spawned",    \* registered, session->start() spawned but not run
     "reading", "readDone", "handling", "writing", "writeDone",
     "finished",   \* the coroutine returned
     "threw",      \* an exception ended the coroutine (detached: ignored)
     "crashed"}    \* its use of a destroyed session ended the process

(* A chunk async_read_some may deliver: fewer bytes than TCP_HEADER_SIZE + *)
(* MIN_PDU_SIZE; enough bytes but fewer than the length field announces    *)
(* (a split or oversized message); a whole request.                        *)
Chunks == {"short", "mismatch", "request"}

(* The coroutine exists and has not ended. *)
Running(s) ==
    pc[s] \in {"spawned", "reading", "readDone", "handling", "writing", "writeDone"}

(* Who owns the session object: its shared_ptr is in sessions_ or in the   *)
(* frame of manager.start().  The coroutine itself holds only `this'.      *)
Alive(s) == s \in sessions_ \/ pc[s] = "accepted"

SessionInit ==
    /\ pc = [s \in Sessions |-> "absent"]
    /\ ready = [s \in Sessions |-> "none"]
    /\ peer = [s \in Sessions |-> "connected"]
    /\ inbound = [s \in Sessions |-> FALSE]
    /\ process = "up"

(* while (!stop_): go on to the next read or leave the loop. *)
LoopTop(s) == IF session_stop_[s] THEN "finished" ELSE "reading"

goto(s, where) == pc' = [pc EXCEPT ![s] = where]

(* The coroutine's use of its destroyed session ends the process. *)
Crash(s) ==
    /\ process' = "aborted"
    /\ goto(s, "crashed")

(* The result the coroutine resumes with is consumed. *)
Consumed(s) == ready' = [ready EXCEPT ![s] = "none"]

-----------------------------------------------------------------------------
(* The coroutine *)

(* First resumption: socket_.remote_endpoint() throws when the peer has    *)
(* reset the connection or the socket is closed already.                   *)
SessionBegin(s) ==
    /\ process = "up"
    /\ pc[s] = "spawned"
    /\ goto(s, IF peer[s] = "reset" \/ socket_[s] = "closed"
               THEN "threw" ELSE LoopTop(s))
    /\ UNCHANGED <<ready, peer, inbound, process, managerVars>>

(* The results async_read_some can end with.  A read started before the    *)
(* close is aborted, one started after it fails with bad_descriptor.  End  *)
(* of file is an error like the others but for the log message.            *)
ReadResults(s) ==
    IF socket_[s] = "closed" THEN {"aborted", "error"}
    ELSE IF peer[s] = "reset" THEN {"error"}
    ELSE IF inbound[s] THEN Chunks
    ELSE IF peer[s] = "closed" THEN {"error"}
    ELSE {}

ReadCompletes(s) ==
    /\ process = "up"
    /\ pc[s] = "reading"
    /\ \E r \in ReadResults(s) :
          /\ ready' = [ready EXCEPT ![s] = r]
          /\ inbound' = [inbound EXCEPT ![s] = @ /\ r \notin Chunks]
    /\ goto(s, "readDone")
    /\ UNCHANGED <<peer, process, managerVars>>

StopSelf_but_manager_not_told(s) ==
    /\ goto(s, "finished")
    /\ UNCHANGED managerVars

(* session_manager_.stop(shared_from_this()) and leave the loop.  The      *)
(* owner count of a session that left the registry is zero: then           *)
(* shared_from_this() throws bad_weak_ptr.                                 *)
StopSelf(s) ==
    \/ /\ Alive(s)
       /\ manager_stop(s)
       /\ goto(s, "finished")
    \/ /\ ~Alive(s)
       /\ goto(s, "threw")
       /\ UNCHANGED managerVars

ResumeReadFailed_but_logged_after_stop(s) ==
    /\ process = "up"
    /\ pc[s] = "readDone"
    /\ ready[s] = "error"
    /\ \/ StopSelf(s) /\ UNCHANGED process
       \/ Alive(s) /\ manager_stop(s) /\ Crash(s)
    /\ Consumed(s)
    /\ UNCHANGED <<peer, inbound>>

ResumeReadFailed(s) ==
    /\ process = "up"
    /\ pc[s] = "readDone"
    /\ ready[s] = "error"
    /\ StopSelf(s)
    /\ Consumed(s)
    /\ UNCHANGED <<peer, inbound, process>>

(* An aborted read leaves the loop without telling the manager; a short    *)
(* message is skipped; a length mismatch throws out of the tcp_data_unit   *)
(* constructor; a request goes to the handler.                             *)
ResumeRead(s) ==
    /\ process = "up"
    /\ pc[s] = "readDone"
    /\ ready[s] # "error"
    /\ Consumed(s)
    /\ \/ ready[s] = "aborted"  /\ goto(s, "finished")
       \/ ready[s] = "short"    /\ goto(s, LoopTop(s))
       \/ ready[s] = "mismatch" /\ goto(s, "threw")
       \/ ready[s] = "request"  /\ goto(s, "handling")
    /\ UNCHANGED <<peer, inbound, process, managerVars>>

(* request_handler_ is user code: it returns a response, which the session *)
(* starts to write, or it throws.                                          *)
HandlerEnds(s) ==
    /\ process = "up"
    /\ pc[s] = "handling"
    /\ \E where \in {"writing", "threw"} : goto(s, where)
    /\ UNCHANGED <<ready, peer, inbound, process, managerVars>>

WriteResults(s) ==
    IF socket_[s] = "closed" THEN {"aborted", "error"}
    ELSE IF peer[s] = "reset" THEN {"error"}
    ELSE IF peer[s] = "closed" THEN {"ok", "error"}
    ELSE {"ok"}

WriteCompletes(s) ==
    /\ process = "up"
    /\ pc[s] = "writing"
    /\ \E r \in WriteResults(s) : ready' = [ready EXCEPT ![s] = r]
    /\ goto(s, "writeDone")
    /\ UNCHANGED <<peer, inbound, process, managerVars>>

(* A failed write stops the session and then logs through on_log_, a       *)
(* member of the object the stop has just destroyed: the memory still      *)
(* holds the old value, or the process dies.                               *)
ResumeWriteFailed(s) ==
    /\ process = "up"
    /\ pc[s] = "writeDone"
    /\ ready[s] = "error"
    /\ \/ StopSelf(s) /\ UNCHANGED process
       \/ Alive(s) /\ manager_stop(s) /\ Crash(s)
    /\ Consumed(s)
    /\ UNCHANGED <<peer, inbound>>

(* After an aborted write the code tests read_err, which is success here:  *)
(* the loop goes back to its top, where stop_ ends it.                     *)
ResumeWrite(s) ==
    /\ process = "up"
    /\ pc[s] = "writeDone"
    /\ ready[s] # "error"
    /\ Consumed(s)
    /\ goto(s, LoopTop(s))
    /\ UNCHANGED <<peer, inbound, process, managerVars>>

(* A coroutine that resumes after its session left the registry runs on a  *)
(* destroyed object.  Either the freed memory still holds the old values   *)
(* and the steps above happen as written, or the process dies.             *)
UseAfterDestroy(s) ==
    /\ process = "up"
    /\ Running(s)
    /\ ~Alive(s)
    /\ Crash(s)
    /\ UNCHANGED <<ready, peer, inbound, managerVars>>

-----------------------------------------------------------------------------
(* The peer *)

(* What the peer does after the coroutine ended reaches nobody. *)
Reached(s) == Running(s) \/ pc[s] \in {"backlog", "taken", "accepted"}

PeerSend(s) ==
    /\ process = "up"
    /\ Running(s)
    /\ peer[s] = "connected"
    /\ ~inbound[s]
    /\ inbound' = [inbound EXCEPT ![s] = TRUE]
    /\ UNCHANGED <<pc, ready, peer, process, managerVars>>

PeerLeave(s, how) ==
    /\ process = "up"
    /\ Reached(s)
    /\ peer[s] = "connected"
    /\ peer' = [peer EXCEPT ![s] = how]
    /\ UNCHANGED <<pc, ready, inbound, process, managerVars>>

SessionStep(s) ==
    \/ SessionBegin(s)
    \/ ReadCompletes(s)
    \/ ResumeReadFailed(s)
    \/ ResumeRead(s)
    \/ HandlerEnds(s)
    \/ WriteCompletes(s)
    \/ ResumeWriteFailed(s)
    \/ ResumeWrite(s)
=============================================================================
