------------------------------ MODULE Lifecycle ------------------------------
(***************************************************************************)
(* What a Client promises about its life cycle, as a user of State, Limits *)
(* and Diagnostics sees it (src/diagnostics.go, src/client.go): the state  *)
(* diagram of docs/spec.md section 7.1, with the session generation, the   *)
(* validity of the negotiated limits and the kind of the last failure.     *)
(* Callers, locks, sockets and goroutines are gone.                        *)
(***************************************************************************)
EXTENDS Naturals

CONSTANT FailureKinds     \* what LastSessionFailureKind may name

VARIABLES state, generation, usable, failure

lifecycleVars == <<state, generation, usable, failure>>

LifecycleInit ==
    /\ state = "new" /\ generation = 0 /\ usable = FALSE /\ failure = "none"

\* An explicit Connect is the only way out of New, Disconnected and Broken.
BeginConnect ==
    /\ state \in {"new", "disconnected", "broken"}
    /\ state' = "connecting"
    /\ UNCHANGED <<generation, usable, failure>>

\* A successful Connect opens a new session: next generation, valid limits,
\* no failure.
Establish ==
    /\ state = "connecting"
    /\ state' = "ready"
    /\ generation' = generation + 1
    /\ usable' = TRUE
    /\ failure' = "none"

\* A failed Connect leaves the client disconnected, with the reason.
Abandon ==
    /\ state = "connecting"
    /\ state' = "disconnected"
    /\ failure' \in FailureKinds
    /\ UNCHANGED <<generation, usable>>

\* A failure of the active session breaks it, with the reason.
Break ==
    /\ state = "ready"
    /\ state' = "broken"
    /\ usable' = FALSE
    /\ failure' \in FailureKinds
    /\ UNCHANGED generation

BeginClose ==
    /\ state \notin {"closing", "closed"}
    /\ state' = "closing"
    /\ usable' = FALSE
    /\ UNCHANGED <<generation, failure>>

EndClose ==
    /\ state = "closing"
    /\ state' = "closed"
    /\ UNCHANGED <<generation, usable, failure>>

LifecycleNext ==
    BeginConnect \/ Establish \/ Abandon \/ Break \/ BeginClose \/ EndClose

LifecycleSpec == LifecycleInit /\ [][LifecycleNext]_lifecycleVars
=============================================================================
