--------------------------- MODULE TcpServerProofs ---------------------------
(***************************************************************************)
(* Theorems about TcpServer, for every set of sessions and every set of    *)
(* limits.                                                                 *)
(***************************************************************************)
EXTENDS TcpServer, FiniteSetTheorems, TLAPS

(* What the registry, the stop flag, the socket and the result of the last *)
(* operation of a session say of each other: the strengthening that makes  *)
(* RunningIsRegistered and EndedIsReleased inductive.                      *)
Before == {"absent", "backlog", "taken", "dropped", "accepted"}

Ledger(s) ==
    /\ session_stop_[s] <=> socket_[s] = "closed"
    /\ pc[s] \in Before => s \notin sessions_ /\ ~session_stop_[s]
    /\ pc[s] \in {"refused", "finished"} => s \notin sessions_ /\ session_stop_[s]
    /\ Running(s) \/ pc[s] = "threw" => (s \in sessions_ <=> ~session_stop_[s])
    /\ ready[s] = "aborted" => session_stop_[s]

LedgerInv == \A s \in Sessions : Ledger(s)

-----------------------------------------------------------------------------
(* What session_stop does, point by point. *)
LEMMA SessionStopEffect ==
  ASSUME NEW S, session_stop(S),
         session_stop_ \in [Sessions -> BOOLEAN],
         socket_ \in [Sessions -> {"none", "open", "closed"}]
  PROVE  /\ session_stop_' \in [Sessions -> BOOLEAN]
         /\ socket_' \in [Sessions -> {"none", "open", "closed"}]
         /\ \A s \in Sessions :
               /\ session_stop_'[s] <=> s \in S \/ session_stop_[s]
               /\ s \in S => socket_'[s] = "closed"
               /\ s \notin S => socket_'[s] = socket_[s]
  <1>1. session_stop_' \in [Sessions -> BOOLEAN]
    BY DEF session_stop
  <1>2. \A s \in Sessions : session_stop_'[s] <=> s \in S \/ session_stop_[s]
    BY DEF session_stop
  <1>3. socket_' \in [Sessions -> {"none", "open", "closed"}]
    BY DEF session_stop
  <1>4. \A s \in Sessions : /\ s \in S => socket_'[s] = "closed"
                            /\ s \notin S => socket_'[s] = socket_[s]
    BY DEF session_stop
  <1> QED
    BY <1>1, <1>2, <1>3, <1>4

(* Every variable starts in its type. *)
LEMMA TypeInit == Init => TypeOK
  <1> SUFFICES ASSUME Init PROVE TypeOK
    OBVIOUS
  <1> USE DEF Init, ManagerInit, SessionInit
  <1>1. sessions_ \subseteq Sessions /\ max_sessions_ \in Limits
    BY ManagerAssumption
  <1>2. /\ session_stop_ \in [Sessions -> BOOLEAN]
        /\ inbound \in [Sessions -> BOOLEAN]
    OBVIOUS
  <1>3. /\ socket_ \in [Sessions -> {"none", "open", "closed"}]
        /\ pc \in [Sessions -> Phases]
        /\ ready \in [Sessions -> ReadyResults]
        /\ peer \in [Sessions -> {"connected", "closed", "reset"}]
    BY DEF Phases, ReadyResults
  <1> QED
    BY <1>1, <1>2, <1>3 DEF TypeOK, ServerPhases

(* Every step keeps every variable in its type. *)
LEMMA TypeStep == TypeOK /\ [Next]_vars => TypeOK'
  <1> SUFFICES ASSUME TypeOK, [Next]_vars PROVE TypeOK'
    OBVIOUS
  <1> USE DEF TypeOK, Phases, ReadyResults, ServerPhases, Chunks,
              managerVars, sessionVars, serverVars
  <1>1. CASE ServerStart
    BY <1>1 DEF ServerStart
  <1>2. CASE ResolveFails
    BY <1>2 DEF ResolveFails
  <1>3. CASE Listen
    BY <1>3 DEF Listen, AcceptLoopTop
  <1>4. CASE AcceptFails
    BY <1>4 DEF AcceptFails
  <1>5. CASE StopFlag
    BY <1>5 DEF StopFlag
  <1>6. CASE StopClose
    BY <1>6 DEF StopClose
  <1>7. CASE StopAll
    BY <1>7, SessionStopEffect DEF StopAll, manager_stop_all
  <1>8. ASSUME NEW n \in Limits, SetMaxSessions(n)
         PROVE TypeOK'
    BY <1>8 DEF SetMaxSessions, set_max_sessions
  <1>9. ASSUME NEW s \in Sessions, AcceptCompletes(s)
         PROVE TypeOK'
    BY <1>9 DEF AcceptCompletes, goto
  <1>10. ASSUME NEW s \in Sessions, ResumeAccept(s)
         PROVE TypeOK'
    BY <1>10 DEF ResumeAccept, AcceptLoopTop, goto
  <1>11. ASSUME NEW s \in Sessions, ManagerStart(s)
         PROVE TypeOK'
    BY <1>11, SessionStopEffect DEF ManagerStart, manager_start_refused, manager_start_admitted, goto
  <1>12. ASSUME NEW s \in Sessions, PeerConnect(s)
         PROVE TypeOK'
    BY <1>12 DEF PeerConnect, goto
  <1>13. ASSUME NEW s \in Sessions, SessionBegin(s), UNCHANGED serverVars
         PROVE TypeOK'
    BY <1>13 DEF SessionBegin, LoopTop, goto
  <1>14. ASSUME NEW s \in Sessions, ReadCompletes(s), UNCHANGED serverVars
         PROVE TypeOK'
    BY <1>14 DEF ReadCompletes, ReadResults, goto
  <1>15. ASSUME NEW s \in Sessions, ResumeReadFailed(s), UNCHANGED serverVars
         PROVE TypeOK'
    BY <1>15, SessionStopEffect DEF ResumeReadFailed, StopSelf, manager_stop, Consumed, goto
  <1>16. ASSUME NEW s \in Sessions, ResumeRead(s), UNCHANGED serverVars
         PROVE TypeOK'
    BY <1>16 DEF ResumeRead, LoopTop, Consumed, goto
  <1>17. ASSUME NEW s \in Sessions, HandlerEnds(s), UNCHANGED serverVars
         PROVE TypeOK'
    BY <1>17 DEF HandlerEnds, goto
  <1>18. ASSUME NEW s \in Sessions, WriteCompletes(s), UNCHANGED serverVars
         PROVE TypeOK'
    BY <1>18 DEF WriteCompletes, WriteResults, goto
  <1>19. ASSUME NEW s \in Sessions, ResumeWriteFailed(s), UNCHANGED serverVars
         PROVE TypeOK'
    BY <1>19, SessionStopEffect DEF ResumeWriteFailed, StopSelf, Crash, manager_stop, Consumed, goto
  <1>20. ASSUME NEW s \in Sessions, ResumeWrite(s), UNCHANGED serverVars
         PROVE TypeOK'
    BY <1>20 DEF ResumeWrite, LoopTop, Consumed, goto
  <1>21. ASSUME NEW s \in Sessions, UseAfterDestroy(s), UNCHANGED serverVars
         PROVE TypeOK'
    BY <1>21 DEF UseAfterDestroy, Crash, goto
  <1>22. ASSUME NEW s \in Sessions, PeerSend(s), UNCHANGED serverVars
         PROVE TypeOK'
    BY <1>22 DEF PeerSend
  <1>23. ASSUME NEW s \in Sessions, NEW how \in {"closed", "reset"},
                PeerLeave(s, how), UNCHANGED serverVars
         PROVE TypeOK'
    BY <1>23 DEF PeerLeave
  <1>24. CASE UNCHANGED vars
    BY <1>24 DEF vars
  <1> QED
    BY <1>1, <1>2, <1>3, <1>4, <1>5, <1>6, <1>7, <1>8, <1>9, <1>10,
       <1>11, <1>12, <1>13, <1>14, <1>15, <1>16, <1>17, <1>18, <1>19,
       <1>20, <1>21, <1>22, <1>23, <1>24
    DEF Next, StartStep, StopStep, SessionNext, SessionStep, Environment

(* Every variable of the server keeps the type of the member it models.    *)
THEOREM TypeCorrect == Spec => []TypeOK
  BY TypeInit, TypeStep, PTL DEF Spec

-----------------------------------------------------------------------------
(* Every step keeps the ledger of every session in order. *)
LEMMA LedgerStep == TypeOK /\ LedgerInv /\ [Next]_vars => LedgerInv'
  <1> SUFFICES ASSUME TypeOK, LedgerInv, [Next]_vars,
                      NEW t \in Sessions
               PROVE Ledger(t)'
    BY DEF LedgerInv
  <1>0. Ledger(t) /\ TypeOK
    BY DEF LedgerInv
  <1> USE <1>0 DEF TypeOK, Ledger, Running, Before, Phases, ReadyResults, Chunks,
                   managerVars, sessionVars, serverVars
  <1>1. CASE ServerStart
    BY <1>1 DEF ServerStart
  <1>2. CASE ResolveFails
    BY <1>2 DEF ResolveFails
  <1>3. CASE Listen
    BY <1>3 DEF Listen, AcceptLoopTop
  <1>4. CASE AcceptFails
    BY <1>4 DEF AcceptFails
  <1>5. CASE StopFlag
    BY <1>5 DEF StopFlag
  <1>6. CASE StopClose
    BY <1>6 DEF StopClose
  <1>7. CASE StopAll
    BY <1>7, SessionStopEffect DEF StopAll, manager_stop_all
  <1>8. ASSUME NEW n \in Limits, SetMaxSessions(n)
         PROVE Ledger(t)'
    BY <1>8 DEF SetMaxSessions, set_max_sessions
  <1>9. ASSUME NEW s \in Sessions, AcceptCompletes(s)
         PROVE Ledger(t)'
    BY <1>9 DEF AcceptCompletes, goto
  <1>10. ASSUME NEW s \in Sessions, ResumeAccept(s)
         PROVE Ledger(t)'
    BY <1>10 DEF ResumeAccept, AcceptLoopTop, goto
  <1>11. ASSUME NEW s \in Sessions, ManagerStart(s)
         PROVE Ledger(t)'
    BY <1>11, SessionStopEffect DEF ManagerStart, manager_start_refused, manager_start_admitted, goto
  <1>12. ASSUME NEW s \in Sessions, PeerConnect(s)
         PROVE Ledger(t)'
    BY <1>12 DEF PeerConnect, goto
  <1>13. ASSUME NEW s \in Sessions, SessionBegin(s), UNCHANGED serverVars
         PROVE Ledger(t)'
    BY <1>13 DEF SessionBegin, LoopTop, goto
  <1>14. ASSUME NEW s \in Sessions, ReadCompletes(s), UNCHANGED serverVars
         PROVE Ledger(t)'
    BY <1>14 DEF ReadCompletes, ReadResults, goto
  <1>15. ASSUME NEW s \in Sessions, ResumeReadFailed(s), UNCHANGED serverVars
         PROVE Ledger(t)'
    BY <1>15, SessionStopEffect DEF ResumeReadFailed, StopSelf, manager_stop, Consumed, goto, Alive
  <1>16. ASSUME NEW s \in Sessions, ResumeRead(s), UNCHANGED serverVars
         PROVE Ledger(t)'
    BY <1>16 DEF ResumeRead, LoopTop, Consumed, goto
  <1>17. ASSUME NEW s \in Sessions, HandlerEnds(s), UNCHANGED serverVars
         PROVE Ledger(t)'
    BY <1>17 DEF HandlerEnds, goto
  <1>18. ASSUME NEW s \in Sessions, WriteCompletes(s), UNCHANGED serverVars
         PROVE Ledger(t)'
    BY <1>18 DEF WriteCompletes, WriteResults, goto
  <1>19. ASSUME NEW s \in Sessions, ResumeWriteFailed(s), UNCHANGED serverVars
         PROVE Ledger(t)'
    BY <1>19, SessionStopEffect DEF ResumeWriteFailed, StopSelf, Crash, manager_stop, Consumed, goto, Alive
  <1>20. ASSUME NEW s \in Sessions, ResumeWrite(s), UNCHANGED serverVars
         PROVE Ledger(t)'
    BY <1>20 DEF ResumeWrite, LoopTop, Consumed, goto
  <1>21. ASSUME NEW s \in Sessions, UseAfterDestroy(s), UNCHANGED serverVars
         PROVE Ledger(t)'
    BY <1>21 DEF UseAfterDestroy, Crash, goto
  <1>22. ASSUME NEW s \in Sessions, PeerSend(s), UNCHANGED serverVars
         PROVE Ledger(t)'
    BY <1>22 DEF PeerSend
  <1>23. ASSUME NEW s \in Sessions, NEW how \in {"closed", "reset"},
                PeerLeave(s, how), UNCHANGED serverVars
         PROVE Ledger(t)'
    BY <1>23 DEF PeerLeave
  <1>24. CASE UNCHANGED vars
    BY <1>24 DEF vars
  <1> QED
    BY <1>1, <1>2, <1>3, <1>4, <1>5, <1>6, <1>7, <1>8, <1>9, <1>10,
       <1>11, <1>12, <1>13, <1>14, <1>15, <1>16, <1>17, <1>18, <1>19,
       <1>20, <1>21, <1>22, <1>23, <1>24
    DEF Next, StartStep, StopStep, SessionNext, SessionStep, Environment

(* The initial state has every ledger in order. *)
LEMMA LedgerInit == Init => LedgerInv
  BY DEF Init, ManagerInit, SessionInit, LedgerInv, Ledger, Running, Before

LEMMA LedgerInvariant == Spec => [](TypeOK /\ LedgerInv)
  <1>1. Init => TypeOK /\ LedgerInv
    BY TypeInit, LedgerInit
  <1>2. TypeOK /\ LedgerInv /\ [Next]_vars => (TypeOK /\ LedgerInv)'
    BY TypeStep, LedgerStep
  <1> QED
    BY <1>1, <1>2, PTL DEF Spec

(* A running session is registered exactly as long as nobody stopped it:   *)
(* stop_all() misses no session whose coroutine is running.                *)
THEOREM RegistryHoldsRunning == Spec => []RunningIsRegistered
  <1>1. TypeOK /\ LedgerInv => RunningIsRegistered
    BY DEF LedgerInv, Ledger, RunningIsRegistered
  <1> QED
    BY <1>1, LedgerInvariant, PTL

(* A session that was refused or whose coroutine returned is out of the    *)
(* registry and its socket is closed.                                      *)
THEOREM EndedSessionsReleased == Spec => []EndedIsReleased
  <1>1. TypeOK /\ LedgerInv => EndedIsReleased
    BY DEF LedgerInv, Ledger, EndedIsReleased
  <1> QED
    BY <1>1, LedgerInvariant, PTL

-----------------------------------------------------------------------------
(* The refinement of SessionRegistry *)

Gone == {s \in Sessions : session_stop_[s]}

(* The code's test against the limit is the abstract one. *)
LEMMA FullIsExceeded == Registry!Full <=> Exceeded
  <1>1. \A S : Registry!Cardinality(S) = Cardinality(S)
    BY DEF Registry!Cardinality, Cardinality
  <1> QED
    BY <1>1 DEF Registry!Full, Exceeded

(* A step that changes neither the registry nor a stop flag is a stutter.  *)
LEMMA Stutter ==
  ASSUME UNCHANGED managerVars \/ UNCHANGED <<sessions_, max_sessions_, session_stop_>>
  PROVE  UNCHANGED Registry!registryVars
  BY DEF managerVars, Registry!registryVars

(* A running session that the manager stops leaves the abstract registry.  *)
LEMMA ManagerStopStep ==
  ASSUME TypeOK, LedgerInv, NEW s \in Sessions, Running(s), Alive(s), manager_stop(s)
  PROVE  [Registry!Next]_Registry!registryVars
  <1>1. s \in sessions_
    BY DEF Alive, Running
  <1>2. Gone' = Gone \cup {s}
    BY SessionStopEffect DEF manager_stop, TypeOK, Gone
  <1> QED
    BY <1>1, <1>2 DEF manager_stop, Gone, Registry!Next, Registry!Leave

(* A session that stops itself leaves the abstract registry or was gone    *)
(* already.                                                                *)
LEMMA StopSelfStep ==
  ASSUME TypeOK, LedgerInv, NEW s \in Sessions, Running(s), StopSelf(s)
  PROVE  [Registry!Next]_Registry!registryVars
  BY ManagerStopStep, Stutter DEF StopSelf

(* Every step of the server is a step of the abstract registry. *)
LEMMA RegistryStep ==
  TypeOK /\ LedgerInv /\ [Next]_vars => [Registry!Next]_Registry!registryVars
  <1> SUFFICES ASSUME TypeOK, LedgerInv, [Next]_vars
               PROVE  [Registry!Next]_Registry!registryVars
    OBVIOUS
  <1>1. CASE ServerStart
    BY <1>1, Stutter DEF ServerStart
  <1>2. CASE ResolveFails
    BY <1>2, Stutter DEF ResolveFails
  <1>3. CASE Listen
    BY <1>3, Stutter DEF Listen
  <1>4. CASE AcceptFails
    BY <1>4, Stutter DEF AcceptFails
  <1>5. CASE StopFlag
    BY <1>5, Stutter DEF StopFlag
  <1>6. CASE StopClose
    BY <1>6, Stutter DEF StopClose
  <1>7. CASE StopAll
    <2>1. session_stop(sessions_) /\ sessions_' = {} /\ max_sessions_' = max_sessions_
      BY <1>7 DEF StopAll, manager_stop_all
    <2>2. Gone' = Gone \cup sessions_
      BY <2>1, SessionStopEffect DEF TypeOK, Gone
    <2> QED
      BY <2>1, <2>2 DEF Registry!Next, Registry!Shutdown, Gone
  <1>8. ASSUME NEW n \in Limits, SetMaxSessions(n)
         PROVE [Registry!Next]_Registry!registryVars
    BY <1>8 DEF SetMaxSessions, set_max_sessions, Registry!Next, Registry!SetLimit
  <1>9. ASSUME NEW s \in Sessions, AcceptCompletes(s)
         PROVE [Registry!Next]_Registry!registryVars
    BY <1>9, Stutter DEF AcceptCompletes
  <1>10. ASSUME NEW s \in Sessions, ResumeAccept(s)
         PROVE [Registry!Next]_Registry!registryVars
    BY <1>10, Stutter DEF ResumeAccept
  <1>11. ASSUME NEW s \in Sessions, ManagerStart(s)
         PROVE [Registry!Next]_Registry!registryVars
    <2>1. s \notin sessions_ /\ s \notin Gone
      BY <1>11 DEF ManagerStart, LedgerInv, Ledger, Before, Gone
    <2>2. CASE manager_start_refused(s)
      <3>1. Gone' = Gone \cup {s}
        BY <2>2, SessionStopEffect DEF manager_start_refused, TypeOK, Gone
      <3> QED
        BY <2>1, <2>2, <3>1, FullIsExceeded
        DEF manager_start_refused, Gone, Registry!Next, Registry!TurnAway, Registry!Fresh
    <2>3. CASE manager_start_admitted(s)
      BY <2>1, <2>3, FullIsExceeded
      DEF manager_start_admitted, Gone, Registry!Next, Registry!Admit, Registry!Fresh
    <2> QED
      BY <1>11, <2>2, <2>3 DEF ManagerStart
  <1>12. ASSUME NEW s \in Sessions, PeerConnect(s)
         PROVE [Registry!Next]_Registry!registryVars
    BY <1>12, Stutter DEF PeerConnect
  <1>13. ASSUME NEW s \in Sessions, SessionBegin(s), UNCHANGED serverVars
         PROVE [Registry!Next]_Registry!registryVars
    BY <1>13, Stutter DEF SessionBegin
  <1>14. ASSUME NEW s \in Sessions, ReadCompletes(s), UNCHANGED serverVars
         PROVE [Registry!Next]_Registry!registryVars
    BY <1>14, Stutter DEF ReadCompletes
  <1>15. ASSUME NEW s \in Sessions, ResumeReadFailed(s), UNCHANGED serverVars
         PROVE [Registry!Next]_Registry!registryVars
    BY <1>15, StopSelfStep DEF ResumeReadFailed, Running
  <1>16. ASSUME NEW s \in Sessions, ResumeRead(s), UNCHANGED serverVars
         PROVE [Registry!Next]_Registry!registryVars
    BY <1>16, Stutter DEF ResumeRead
  <1>17. ASSUME NEW s \in Sessions, HandlerEnds(s), UNCHANGED serverVars
         PROVE [Registry!Next]_Registry!registryVars
    BY <1>17, Stutter DEF HandlerEnds
  <1>18. ASSUME NEW s \in Sessions, WriteCompletes(s), UNCHANGED serverVars
         PROVE [Registry!Next]_Registry!registryVars
    BY <1>18, Stutter DEF WriteCompletes
  <1>19. ASSUME NEW s \in Sessions, ResumeWriteFailed(s), UNCHANGED serverVars
         PROVE [Registry!Next]_Registry!registryVars
    BY <1>19, StopSelfStep, ManagerStopStep DEF ResumeWriteFailed, Running
  <1>20. ASSUME NEW s \in Sessions, ResumeWrite(s), UNCHANGED serverVars
         PROVE [Registry!Next]_Registry!registryVars
    BY <1>20, Stutter DEF ResumeWrite
  <1>21. ASSUME NEW s \in Sessions, UseAfterDestroy(s), UNCHANGED serverVars
         PROVE [Registry!Next]_Registry!registryVars
    BY <1>21, Stutter DEF UseAfterDestroy
  <1>22. ASSUME NEW s \in Sessions, PeerSend(s), UNCHANGED serverVars
         PROVE [Registry!Next]_Registry!registryVars
    BY <1>22, Stutter DEF PeerSend
  <1>23. ASSUME NEW s \in Sessions, NEW how \in {"closed", "reset"},
                PeerLeave(s, how), UNCHANGED serverVars
         PROVE [Registry!Next]_Registry!registryVars
    BY <1>23, Stutter DEF PeerLeave
  <1>24. CASE UNCHANGED vars
    BY <1>24, Stutter DEF vars
  <1> QED
    BY <1>1, <1>2, <1>3, <1>4, <1>5, <1>6, <1>7, <1>8, <1>9, <1>10,
       <1>11, <1>12, <1>13, <1>14, <1>15, <1>16, <1>17, <1>18, <1>19,
       <1>20, <1>21, <1>22, <1>23, <1>24
    DEF Next, StartStep, StopStep, SessionNext, SessionStep, Environment

(* tcp_session_manager, driven by the accept loop, the sessions and        *)
(* stop(), implements the abstract registry: no session is admitted over   *)
(* the tested limit, none is turned away below it, none enters twice and   *)
(* none comes back.                                                        *)
THEOREM ServerImplementsRegistry == Spec => ImplementsRegistry
  <1>1. Init => Registry!Init
    BY DEF Init, ManagerInit, Registry!Init
  <1> QED
    BY <1>1, RegistryStep, LedgerInvariant, PTL
    DEF Spec, ImplementsRegistry, Registry!Spec

-----------------------------------------------------------------------------
(* The bound on the number of sessions *)

(* One step of the abstract registry keeps the bound. *)
LEMMA BoundStep ==
  TypeOK /\ RegistryBounded /\ [Registry!Next]_Registry!registryVars => RegistryBounded'
  <1> SUFFICES ASSUME TypeOK, RegistryBounded,
                      [Registry!Next]_Registry!registryVars,
                      \A m \in Limits : m >= 0
               PROVE  \E m \in Limits : Cardinality(sessions_') <= m + 1
    BY DEF RegistryBounded
  <1>1. IsFiniteSet(sessions_) /\ Cardinality(sessions_) \in Nat
    BY ManagerAssumption, FS_Subset, FS_CardinalityType DEF TypeOK
  <1>2. CASE sessions_' \subseteq sessions_
    <2>1. Cardinality(sessions_') \in Nat /\ Cardinality(sessions_') <= Cardinality(sessions_)
      BY <1>1, <1>2, FS_Subset, FS_CardinalityType
    <2> QED
      BY <1>1, <2>1, ManagerAssumption DEF RegistryBounded
  <1>3. ASSUME NEW s \in Sessions, Registry!Admit(s)
        PROVE  \E m \in Limits : Cardinality(sessions_') <= m + 1
    <2>1. max_sessions_ \in Limits /\ max_sessions_ \in Int /\ max_sessions_ >= 0
      BY ManagerAssumption DEF TypeOK
    <2>2. Cardinality(sessions_) <= max_sessions_
      BY <1>1, <1>3, <2>1, FullIsExceeded DEF Registry!Admit, Exceeded
    <2>3. Cardinality(sessions_') = Cardinality(sessions_) + 1
      BY <1>1, <1>3, FS_AddElement DEF Registry!Admit, Registry!Fresh
    <2> QED
      BY <1>1, <2>1, <2>2, <2>3
  <1> QED
    BY <1>2, <1>3
    DEF Registry!Next, Registry!registryVars, Registry!TurnAway, Registry!Leave,
        Registry!Shutdown, Registry!SetLimit

(* The registry never holds more than one session over the largest limit   *)
(* that was ever in force.                                                 *)
THEOREM RegistryIsBounded == Spec => []RegistryBounded
  <1>1. Init => RegistryBounded
    <2> SUFFICES ASSUME Init, \A m \in Limits : m >= 0
                 PROVE  \E m \in Limits : Cardinality(sessions_) <= m + 1
      BY DEF RegistryBounded
    <2>1. Cardinality(sessions_) = 0
      BY FS_EmptySet DEF Init, ManagerInit
    <2> QED
      BY <2>1, ManagerAssumption
  <1>2. TypeOK /\ LedgerInv /\ RegistryBounded /\ [Next]_vars => RegistryBounded'
    BY RegistryStep, BoundStep
  <1> QED
    BY <1>1, <1>2, LedgerInvariant, PTL DEF Spec

-----------------------------------------------------------------------------
(* The listener that start() opens after stop() closed it *)

(* Before the acceptor is opened nobody has connected, and stop_ is what   *)
(* stop() left it: with these, LateListenerServesNobody is inductive.      *)
ListenInv ==
    /\ stop_ <=> stopPc # "none"
    /\ serverPc \in {"idle", "resolving"} =>
          /\ acceptor = "closed"
          /\ \A s \in Sessions : pc[s] = "absent"
    /\ LateListenerServesNobody

(* Every step keeps what the listener, stop() and the sessions say of each *)
(* other.                                                                  *)
LEMMA ListenStep == TypeOK /\ ListenInv /\ [Next]_vars => ListenInv'
  <1> SUFFICES ASSUME TypeOK, ListenInv, [Next]_vars PROVE ListenInv'
    OBVIOUS
  <1> USE DEF TypeOK, ListenInv, LateListenerServesNobody, Running, Phases, ServerPhases,
              managerVars, sessionVars, serverVars
  <1>1. CASE ServerStart
    BY <1>1 DEF ServerStart
  <1>2. CASE ResolveFails
    BY <1>2 DEF ResolveFails
  <1>3. CASE Listen
    BY <1>3 DEF Listen, AcceptLoopTop
  <1>4. CASE AcceptFails
    BY <1>4 DEF AcceptFails
  <1>5. CASE StopFlag
    BY <1>5 DEF StopFlag
  <1>6. CASE StopClose
    BY <1>6 DEF StopClose
  <1>7. CASE StopAll
    BY <1>7, SessionStopEffect DEF StopAll, manager_stop_all
  <1>8. ASSUME NEW n \in Limits, SetMaxSessions(n)
        PROVE  ListenInv'
    BY <1>8 DEF SetMaxSessions, set_max_sessions
  <1>9. ASSUME NEW s \in Sessions, AcceptCompletes(s)
        PROVE  ListenInv'
    BY <1>9 DEF AcceptCompletes, goto
  <1>10. ASSUME NEW s \in Sessions, ResumeAccept(s)
        PROVE  ListenInv'
    BY <1>10 DEF ResumeAccept, AcceptLoopTop, goto
  <1>11. ASSUME NEW s \in Sessions, ManagerStart(s)
        PROVE  ListenInv'
    BY <1>11, SessionStopEffect DEF ManagerStart, manager_start_refused, manager_start_admitted, goto
  <1>12. ASSUME NEW s \in Sessions, PeerConnect(s)
        PROVE  ListenInv'
    BY <1>12 DEF PeerConnect, goto
  <1>13. ASSUME NEW s \in Sessions, SessionBegin(s), UNCHANGED serverVars
        PROVE  ListenInv'
    BY <1>13 DEF SessionBegin, LoopTop, goto
  <1>14. ASSUME NEW s \in Sessions, ReadCompletes(s), UNCHANGED serverVars
        PROVE  ListenInv'
    BY <1>14 DEF ReadCompletes, ReadResults, goto
  <1>15. ASSUME NEW s \in Sessions, ResumeReadFailed(s), UNCHANGED serverVars
        PROVE  ListenInv'
    BY <1>15, SessionStopEffect DEF ResumeReadFailed, StopSelf, manager_stop, Consumed, goto, Alive
  <1>16. ASSUME NEW s \in Sessions, ResumeRead(s), UNCHANGED serverVars
        PROVE  ListenInv'
    BY <1>16 DEF ResumeRead, LoopTop, Consumed, goto
  <1>17. ASSUME NEW s \in Sessions, HandlerEnds(s), UNCHANGED serverVars
        PROVE  ListenInv'
    BY <1>17 DEF HandlerEnds, goto
  <1>18. ASSUME NEW s \in Sessions, WriteCompletes(s), UNCHANGED serverVars
        PROVE  ListenInv'
    BY <1>18 DEF WriteCompletes, WriteResults, goto
  <1>19. ASSUME NEW s \in Sessions, ResumeWriteFailed(s), UNCHANGED serverVars
        PROVE  ListenInv'
    BY <1>19, SessionStopEffect DEF ResumeWriteFailed, StopSelf, Crash, manager_stop, Consumed, goto, Alive
  <1>20. ASSUME NEW s \in Sessions, ResumeWrite(s), UNCHANGED serverVars
        PROVE  ListenInv'
    BY <1>20 DEF ResumeWrite, LoopTop, Consumed, goto
  <1>21. ASSUME NEW s \in Sessions, UseAfterDestroy(s), UNCHANGED serverVars
        PROVE  ListenInv'
    BY <1>21 DEF UseAfterDestroy, Crash, goto
  <1>22. ASSUME NEW s \in Sessions, PeerSend(s), UNCHANGED serverVars
        PROVE  ListenInv'
    BY <1>22 DEF PeerSend
  <1>23. ASSUME NEW s \in Sessions, NEW how \in {"closed", "reset"},
               PeerLeave(s, how), UNCHANGED serverVars
        PROVE  ListenInv'
    BY <1>23 DEF PeerLeave
  <1>24. CASE UNCHANGED vars
    BY <1>24 DEF vars
  <1> QED
    BY <1>1, <1>2, <1>3, <1>4, <1>5, <1>6, <1>7, <1>8, <1>9, <1>10,
       <1>11, <1>12, <1>13, <1>14, <1>15, <1>16, <1>17, <1>18, <1>19,
       <1>20, <1>21, <1>22, <1>23, <1>24
    DEF Next, StartStep, StopStep, SessionNext, SessionStep, Environment

(* A listener that start() opens after stop() has closed the acceptor      *)
(* serves nobody: the accept loop has ended by itself and no connection    *)
(* was ever taken, for any number of peers.                                *)
THEOREM NobodyServedLate == Spec => []LateListenerServesNobody
  <1>1. Init => ListenInv
    BY DEF Init, SessionInit, ListenInv, LateListenerServesNobody
  <1>2. ListenInv => LateListenerServesNobody
    BY DEF ListenInv
  <1> QED
    BY <1>1, <1>2, ListenStep, TypeCorrect, PTL DEF Spec

-----------------------------------------------------------------------------
(* The causes of a use of a destroyed session *)

(* Only stop_all() stops a session under its running coroutine, and a      *)
(* write fails only when the peer has left or the session was stopped.     *)
Cause(s) ==
    /\ Running(s) /\ session_stop_[s] => stopPc = "returned"
    /\ pc[s] = "writeDone" /\ ready[s] = "error" =>
          peer[s] # "connected" \/ session_stop_[s]

CauseInv == \A s \in Sessions : Cause(s)

(* Every step keeps the causes of every session on record. *)
LEMMA CauseStep == TypeOK /\ LedgerInv /\ CauseInv /\ [Next]_vars => CauseInv'
  <1> SUFFICES ASSUME TypeOK, LedgerInv, CauseInv, [Next]_vars,
                      NEW t \in Sessions
               PROVE Cause(t)'
    BY DEF CauseInv
  <1>0. Cause(t) /\ Ledger(t) /\ TypeOK
    BY DEF CauseInv, LedgerInv
  <1> USE <1>0 DEF TypeOK, Ledger, Cause, Running, Before, Phases, ReadyResults, Chunks,
                   managerVars, sessionVars, serverVars
  <1>1. CASE ServerStart
    BY <1>1 DEF ServerStart
  <1>2. CASE ResolveFails
    BY <1>2 DEF ResolveFails
  <1>3. CASE Listen
    BY <1>3 DEF Listen, AcceptLoopTop
  <1>4. CASE AcceptFails
    BY <1>4 DEF AcceptFails
  <1>5. CASE StopFlag
    BY <1>5 DEF StopFlag
  <1>6. CASE StopClose
    BY <1>6 DEF StopClose
  <1>7. CASE StopAll
    BY <1>7, SessionStopEffect DEF StopAll, manager_stop_all
  <1>8. ASSUME NEW n \in Limits, SetMaxSessions(n)
        PROVE  Cause(t)'
    BY <1>8 DEF SetMaxSessions, set_max_sessions
  <1>9. ASSUME NEW s \in Sessions, AcceptCompletes(s)
        PROVE  Cause(t)'
    BY <1>9 DEF AcceptCompletes, goto
  <1>10. ASSUME NEW s \in Sessions, ResumeAccept(s)
        PROVE  Cause(t)'
    BY <1>10 DEF ResumeAccept, AcceptLoopTop, goto
  <1>11. ASSUME NEW s \in Sessions, ManagerStart(s)
        PROVE  Cause(t)'
    BY <1>11, SessionStopEffect DEF ManagerStart, manager_start_refused, manager_start_admitted, goto
  <1>12. ASSUME NEW s \in Sessions, PeerConnect(s)
        PROVE  Cause(t)'
    BY <1>12 DEF PeerConnect, goto
  <1>13. ASSUME NEW s \in Sessions, SessionBegin(s), UNCHANGED serverVars
        PROVE  Cause(t)'
    BY <1>13 DEF SessionBegin, LoopTop, goto
  <1>14. ASSUME NEW s \in Sessions, ReadCompletes(s), UNCHANGED serverVars
        PROVE  Cause(t)'
    BY <1>14 DEF ReadCompletes, ReadResults, goto
  <1>15. ASSUME NEW s \in Sessions, ResumeReadFailed(s), UNCHANGED serverVars
        PROVE  Cause(t)'
    BY <1>15, SessionStopEffect DEF ResumeReadFailed, StopSelf, manager_stop, Consumed, goto, Alive
  <1>16. ASSUME NEW s \in Sessions, ResumeRead(s), UNCHANGED serverVars
        PROVE  Cause(t)'
    BY <1>16 DEF ResumeRead, LoopTop, Consumed, goto
  <1>17. ASSUME NEW s \in Sessions, HandlerEnds(s), UNCHANGED serverVars
        PROVE  Cause(t)'
    BY <1>17 DEF HandlerEnds, goto
  <1>18. ASSUME NEW s \in Sessions, WriteCompletes(s), UNCHANGED serverVars
        PROVE  Cause(t)'
    BY <1>18 DEF WriteCompletes, WriteResults, goto
  <1>19. ASSUME NEW s \in Sessions, ResumeWriteFailed(s), UNCHANGED serverVars
        PROVE  Cause(t)'
    BY <1>19, SessionStopEffect DEF ResumeWriteFailed, StopSelf, Crash, manager_stop, Consumed, goto, Alive
  <1>20. ASSUME NEW s \in Sessions, ResumeWrite(s), UNCHANGED serverVars
        PROVE  Cause(t)'
    BY <1>20 DEF ResumeWrite, LoopTop, Consumed, goto
  <1>21. ASSUME NEW s \in Sessions, UseAfterDestroy(s), UNCHANGED serverVars
        PROVE  Cause(t)'
    BY <1>21 DEF UseAfterDestroy, Crash, goto
  <1>22. ASSUME NEW s \in Sessions, PeerSend(s), UNCHANGED serverVars
        PROVE  Cause(t)'
    BY <1>22 DEF PeerSend
  <1>23. ASSUME NEW s \in Sessions, NEW how \in {"closed", "reset"},
               PeerLeave(s, how), UNCHANGED serverVars
        PROVE  Cause(t)'
    BY <1>23 DEF PeerLeave
  <1>24. CASE UNCHANGED vars
    BY <1>24 DEF vars
  <1> QED
    BY <1>1, <1>2, <1>3, <1>4, <1>5, <1>6, <1>7, <1>8, <1>9, <1>10,
       <1>11, <1>12, <1>13, <1>14, <1>15, <1>16, <1>17, <1>18, <1>19,
       <1>20, <1>21, <1>22, <1>23, <1>24
    DEF Next, StartStep, StopStep, SessionNext, SessionStep, Environment

(* What may be said of session s when it uses its destroyed object. *)
Excused(s) ==
    pc[s] # "crashed" /\ pc'[s] = "crashed" =>
        \/ session_stop_[s] /\ stopPc = "returned"
        \/ pc[s] = "writeDone" /\ ready[s] = "error" /\ peer[s] # "connected"

(* The step in which a session crashes is its own, and has a cause. *)
LEMMA AbortStep ==
  TypeOK /\ LedgerInv /\ CauseInv /\ [Next]_vars => \A s \in Sessions : Excused(s)
  <1> SUFFICES ASSUME TypeOK, LedgerInv, CauseInv, [Next]_vars,
                      NEW t \in Sessions, pc[t] # "crashed", pc'[t] = "crashed"
               PROVE  \/ session_stop_[t] /\ stopPc = "returned"
                      \/ pc[t] = "writeDone" /\ ready[t] = "error" /\ peer[t] # "connected"
    BY DEF Excused
  <1>0. Cause(t) /\ Ledger(t)
    BY DEF CauseInv, LedgerInv
  <1>1. \/ \E s \in Sessions : UseAfterDestroy(s)
        \/ \E s \in Sessions : ResumeWriteFailed(s)
    BY DEF Next, StartStep, StopStep, SessionNext, SessionStep, Environment, vars, sessionVars,
           ServerStart, ResolveFails, Listen, AcceptFails, StopFlag, StopClose, StopAll,
           SetMaxSessions, AcceptCompletes, ResumeAccept, ManagerStart, PeerConnect,
           SessionBegin, ReadCompletes, ResumeReadFailed, ResumeRead, HandlerEnds,
           WriteCompletes, ResumeWrite, PeerSend, PeerLeave, StopSelf, LoopTop, goto, TypeOK
  <1>2. ASSUME NEW s \in Sessions, UseAfterDestroy(s)
        PROVE  session_stop_[t] /\ stopPc = "returned"
    <2>1. s = t
      BY <1>2 DEF UseAfterDestroy, Crash, goto, TypeOK
    <2> QED
      BY <1>0, <1>2, <2>1 DEF UseAfterDestroy, Ledger, Cause, Alive
  <1>3. ASSUME NEW s \in Sessions, ResumeWriteFailed(s)
        PROVE  pc[t] = "writeDone" /\ ready[t] = "error" /\ peer[t] # "connected"
    <2>1. s = t /\ Alive(t) /\ pc[t] = "writeDone" /\ ready[t] = "error"
      BY <1>3 DEF ResumeWriteFailed, StopSelf, Crash, goto, TypeOK
    <2>2. ~session_stop_[t]
      BY <1>0, <2>1 DEF Alive, Ledger, Running
    <2> QED
      BY <1>0, <2>1, <2>2 DEF Cause
  <1> QED
    BY <1>1, <1>2, <1>3

(* A coroutine uses its destroyed session only after stop_all() dropped it *)
(* under the coroutine, or after its own failed write to a peer that had   *)
(* left; never after a read error or a refusal.                            *)
THEOREM AbortHasCause == Spec => AbortNeedsCause
  <1>1. Init => CauseInv
    BY DEF Init, ManagerInit, SessionInit, CauseInv, Cause, Running
  <1>2. TypeOK /\ LedgerInv /\ CauseInv /\ [Next]_vars => CauseInv'
    BY CauseStep
  <1>3. TypeOK /\ LedgerInv /\ CauseInv /\ [Next]_vars => [\A s \in Sessions : Excused(s)]_vars
    BY AbortStep
  <1>4. Spec => [][\A s \in Sessions : Excused(s)]_vars
    BY <1>1, <1>2, <1>3, LedgerInvariant, PTL DEF Spec
  <1> QED
    BY <1>4, PTL DEF AbortNeedsCause, Excused
=============================================================================
