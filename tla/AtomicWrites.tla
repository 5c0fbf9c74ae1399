---------------------------- MODULE AtomicWrites ----------------------------
(***************************************************************************)
(* What a caller of submitTrafficWrite relies on, with no queue, writer    *)
(* goroutine or mutex: a write submitted by a caller takes effect at most  *)
(* once, between the call and its return, and the value returned tells     *)
(* whether it did.                                                         *)
(***************************************************************************)
CONSTANT Callers

VARIABLES
    phase,    \* phase[c]: "idle", "open" (called, not settled), "settled" or "returned"
    effect,   \* effect[c]: times the write of the current call has been committed
    answer    \* answer[c]: what the last call returned ("none" until it has)

vars == <<phase, effect, answer>>

Init ==
    /\ phase  = [c \in Callers |-> "idle"]
    /\ effect = [c \in Callers |-> 0]
    /\ answer = [c \in Callers |-> "none"]

Call(c) ==
    /\ phase[c] = "idle"
    /\ phase'  = [phase  EXCEPT ![c] = "open"]
    /\ effect' = [effect EXCEPT ![c] = 0]
    /\ answer' = [answer EXCEPT ![c] = "none"]

\* The write runs: it commits or it fails, in one step.
Settle(c) ==
    /\ phase[c] = "open"
    /\ phase'  = [phase EXCEPT ![c] = "settled"]
    /\ \E n \in {0, 1} : effect' = [effect EXCEPT ![c] = n]
    /\ UNCHANGED answer

\* The call returns what became of a write that ran.
Return(c) ==
    /\ phase[c] = "settled"
    /\ phase'  = [phase  EXCEPT ![c] = "returned"]
    /\ answer' = [answer EXCEPT ![c] = IF effect[c] = 1 THEN "ok" ELSE "err"]
    /\ UNCHANGED effect

\* The call returns an error for a write that never ran and never will.
Refuse(c) ==
    /\ phase[c] = "open"
    /\ phase'  = [phase  EXCEPT ![c] = "returned"]
    /\ answer' = [answer EXCEPT ![c] = "err"]
    /\ UNCHANGED effect

Finish(c) ==
    /\ phase[c] = "returned"
    /\ phase' = [phase EXCEPT ![c] = "idle"]
    /\ UNCHANGED <<effect, answer>>

Next == \E c \in Callers : Call(c) \/ Settle(c) \/ Return(c) \/ Refuse(c) \/ Finish(c)

Spec == Init /\ [][Next]_vars
=============================================================================
