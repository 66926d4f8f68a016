----------------------------- MODULE TickBarrier -----------------------------
(***************************************************************************)
(* What SessionThreadPool and GameSessionManager promise Server::run, with *)
(* no thread, queue or mutex in sight: a tick alternates a serial phase,   *)
(* in which only the main thread touches the sessions, with a parallel     *)
(* phase, in which every session that was active at its start is updated   *)
(* exactly once and none is created or destroyed.                          *)
(***************************************************************************)
CONSTANT Sessions

VARIABLES
    phase,  \* "serial", "parallel"
    todo,   \* the sessions this parallel phase still has to update
    sess    \* each session's life: "none", "active", "inactive"

vars == <<phase, todo, sess>>

TypeOK ==
    /\ phase \in {"serial", "parallel"}
    /\ todo \subseteq Sessions
    /\ sess \in [Sessions -> {"none", "active", "inactive"}]

Init ==
    /\ phase = "serial"
    /\ todo = {}
    /\ sess = [s \in Sessions |-> "none"]

Create(s) ==
    /\ phase = "serial"
    /\ sess[s] = "none"
    /\ sess' = [sess EXCEPT ![s] = "active"]
    /\ UNCHANGED <<phase, todo>>

End(s) ==
    /\ phase = "serial"
    /\ sess[s] = "active"
    /\ sess' = [sess EXCEPT ![s] = "inactive"]
    /\ UNCHANGED <<phase, todo>>

EraseEnded ==
    /\ phase = "serial"
    /\ sess' = [s \in Sessions |-> IF sess[s] = "inactive" THEN "none" ELSE sess[s]]
    /\ UNCHANGED <<phase, todo>>

Begin ==
    /\ phase = "serial"
    /\ \E s \in Sessions : sess[s] = "active"
    /\ todo' = {s \in Sessions : sess[s] = "active"}
    /\ phase' = "parallel"
    /\ UNCHANGED sess

Update(s) ==
    /\ phase = "parallel"
    /\ s \in todo
    /\ todo' = todo \ {s}
    /\ sess' \in {sess, [sess EXCEPT ![s] = "inactive"]}
    /\ UNCHANGED phase

Finish ==
    /\ phase = "parallel"
    /\ todo = {}
    /\ phase' = "serial"
    /\ UNCHANGED <<todo, sess>>

Next ==
    \/ \E s \in Sessions : Create(s) \/ End(s) \/ Update(s)
    \/ EraseEnded \/ Begin \/ Finish

Spec == Init /\ [][Next]_vars
==============================================================================
