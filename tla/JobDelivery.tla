----------------------------- MODULE JobDelivery -----------------------------
(***************************************************************************)
(* What a caller of the Local Runner relay is promised, with no runner,    *)
(* binding, heartbeat, timer or pending table: a job is either refused at  *)
(* once or handed to one connection that is up at that moment, and from    *)
(* then on it has exactly one end: an answer given over that very          *)
(* connection, a timeout, or the loss of that connection, which ends all   *)
(* the jobs the connection carries in the one step that loses it.          *)
(* RunnerRouter implements this specification.                             *)
(***************************************************************************)
CONSTANTS
    Jobs,       \* dispatch calls
    Conns,      \* connections a job can be handed to
    NoConn      \* not a connection

VARIABLES
    up,         \* the connections that are up
    carrier,    \* the connection each job was handed to
    status      \* where each job stands

vars == <<up, carrier, status>>

Ends == {"succeeded", "failed", "timed out", "lost", "refused"}
Status == {"new", "waiting"} \cup Ends

TypeOK ==
    /\ up \subseteq Conns
    /\ carrier \in [Jobs -> Conns \cup {NoConn}]
    /\ status \in [Jobs -> Status]

Init ==
    /\ up = {}
    /\ carrier = [j \in Jobs |-> NoConn]
    /\ status = [j \in Jobs |-> "new"]

Open(c) ==
    /\ c \notin up
    /\ up' = up \cup {c}
    /\ UNCHANGED <<carrier, status>>

\* The connection goes, and every job that waits on it ends with it.
Lose(c) ==
    /\ c \in up
    /\ up' = up \ {c}
    /\ status' = [j \in Jobs |->
            IF status[j] = "waiting" /\ carrier[j] = c THEN "lost" ELSE status[j]]
    /\ UNCHANGED carrier

Refuse(j) ==
    /\ status[j] = "new"
    /\ status' = [status EXCEPT ![j] = "refused"]
    /\ UNCHANGED <<up, carrier>>

\* end is "waiting", or "lost" when the hand-over itself fails.
Issue(j, c, end) ==
    /\ status[j] = "new"
    /\ c \in up
    /\ carrier' = [carrier EXCEPT ![j] = c]
    /\ status' = [status EXCEPT ![j] = end]
    /\ UNCHANGED up

\* An answer needs the connection that carries the job to be up.
Answer(j, end) ==
    /\ status[j] = "waiting"
    /\ carrier[j] \in up
    /\ status' = [status EXCEPT ![j] = end]
    /\ UNCHANGED <<up, carrier>>

TimeOut(j) ==
    /\ status[j] = "waiting"
    /\ status' = [status EXCEPT ![j] = "timed out"]
    /\ UNCHANGED <<up, carrier>>

Next ==
    \/ \E c \in Conns : Open(c) \/ Lose(c)
    \/ \E j \in Jobs : Refuse(j) \/ TimeOut(j)
    \/ \E j \in Jobs, c \in Conns, end \in {"waiting", "lost"} : Issue(j, c, end)
    \/ \E j \in Jobs, end \in {"succeeded", "failed"} : Answer(j, end)

Spec == Init /\ [][Next]_vars
==============================================================================
