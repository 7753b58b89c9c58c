-------------------------- MODULE SessionRegistry --------------------------
(***************************************************************************)
(* What the server promises about its set of sessions, without sockets,    *)
(* coroutines or locks.  A session enters the registry at most once, only  *)
(* while the number of sessions does not exceed the limit, is turned away  *)
(* only when it does, and once gone it is gone for good.                   *)
(***************************************************************************)
EXTENDS Integers, FiniteSets

CONSTANTS Sessions, DefaultLimit, Limits

VARIABLES
    active,  \* sessions being served
    gone,    \* sessions that were turned away, left or were stopped
    limit

registryVars == <<active, gone, limit>>

Init ==
    /\ active = {}
    /\ gone = {}
    /\ limit = DefaultLimit

Full == limit >= 0 /\ Cardinality(active) > limit

Fresh(s) == s \notin active \cup gone

Admit(s) ==
    /\ Fresh(s)
    /\ ~Full
    /\ active' = active \cup {s}
    /\ UNCHANGED <<gone, limit>>

TurnAway(s) ==
    /\ Fresh(s)
    /\ Full
    /\ gone' = gone \cup {s}
    /\ UNCHANGED <<active, limit>>

Leave(s) ==
    /\ s \in active
    /\ active' = active \ {s}
    /\ gone' = gone \cup {s}
    /\ UNCHANGED limit

Shutdown ==
    /\ active' = {}
    /\ gone' = gone \cup active
    /\ UNCHANGED limit

SetLimit(n) ==
    /\ limit' = n
    /\ UNCHANGED <<active, gone>>

Next ==
    \/ \E s \in Sessions : Admit(s) \/ TurnAway(s) \/ Leave(s)
    \/ Shutdown
    \/ \E n \in Limits : SetLimit(n)

Spec == Init /\ [][Next]_registryVars
=============================================================================
