---------------------------- MODULE TrafficLedger ----------------------------
(***************************************************************************)
(* What the TUIC accounting promises for each unit of traffic, with no     *)
(* users, servers, polls, mutexes or files: a unit read from a counter is  *)
(* billed once, however it gets there; only the end of the process loses   *)
(* it, unless it has been journalled, and then only a crash that comes     *)
(* before the directory was synced; and the verdict of the final flush     *)
(* says what has become of all of them.                                    *)
(***************************************************************************)
CONSTANT Units

VARIABLES
    status,   \* status[u]: where unit u is on its way to the bill
    verdict   \* what the final flush returned, "none" until it has

vars == <<status, verdict>>

Verdicts == {"ok", "retained", "notStored"}

\* "free": not yet read from a counter; "held": in memory; "filed": in a journal
\* file; "safe": in one that survives a crash; "doubted": in a poll that committed
\* and was reported as failed, of which nothing is promised.
Statuses == {"free", "held", "filed", "safe", "billed", "doubted", "lost"}

In(stages) == {u \in Units : status[u] \in stages}

Init ==
    /\ status = [u \in Units |-> "free"]
    /\ verdict = "none"

Move(us, to) == status' = [u \in Units |-> IF u \in us THEN to ELSE status[u]]

\* Traffic is read from a counter.
Take ==
    /\ verdict = "none" /\ UNCHANGED verdict
    /\ \E us \in SUBSET In({"free"}) : Move(us, "held")

File ==
    /\ verdict = "none" /\ UNCHANGED verdict
    /\ \E us \in SUBSET In({"held"}) : Move(us, "filed")

Sync ==
    /\ verdict = "none" /\ UNCHANGED verdict
    /\ Move(In({"filed"}), "safe")

Doubt ==
    /\ verdict = "none" /\ UNCHANGED verdict
    /\ \E us \in SUBSET In({"held"}) : Move(us, "doubted")

\* Success is reported when nothing is left to be billed, a retained journal when
\* nothing is left outside of it.
Tells(v) ==
    /\ v = "ok" => \A u \in Units : status'[u] \notin {"held", "filed", "safe"}
    /\ v = "retained" => \A u \in Units : status'[u] # "held"

Report == verdict' \in Verdicts /\ Tells(verdict')

\* The commit that bills may be the last one of a flush that fails.
Bill ==
    /\ verdict = "none"
    /\ \E us \in SUBSET In({"held", "filed", "safe"}) : Move(us, "billed")
    /\ UNCHANGED verdict \/ Report

Flush == verdict = "none" /\ UNCHANGED status /\ Report

\* What a unit may be after the process has ended, and after the machine crashed.
AfterExit(s) ==
    CASE s = "free" -> {"free", "lost"}
      [] s = "held" -> {"lost"}
      [] OTHER -> {s}

AfterCrash(s) == IF s = "filed" THEN {"safe", "lost"} ELSE AfterExit(s)

Restart ==
    /\ verdict # "none"
    /\ status' \in [Units -> Statuses]
    /\ \A u \in Units : status'[u] \in AfterExit(status[u])
    /\ verdict' = "none"

Crash ==
    /\ status' \in [Units -> Statuses]
    /\ \A u \in Units : status'[u] \in AfterCrash(status[u])
    /\ verdict' = "none"

Next == Take \/ File \/ Sync \/ Doubt \/ Bill \/ Flush \/ Restart \/ Crash

Spec == Init /\ [][Next]_vars
=============================================================================
