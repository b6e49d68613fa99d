----------------------------- MODULE MessageFates -----------------------------
(***************************************************************************)
(* What the sending of private messages promises, whoever plans them: a    *)
(* message goes out at most once and only while a run is open, one at a    *)
(* time, and after one whose end is not known nothing goes out and no run  *)
(* opens.  A crash closes the run and may forget an answer, never a        *)
(* message.  The engine of mcp/douyin-dm (DmEngine) implements it for its  *)
(* messages, the lead service (DouyinService) for its people.              *)
(***************************************************************************)
CONSTANT Messages

VARIABLES fate,   \* of each message
          open    \* a run may send

fateVars == <<fate, open>>

FateInit == fate = [m \in Messages |-> "unsent"] /\ open = FALSE

Turns(m, from, to) == fate[m] = from /\ fate' = [fate EXCEPT ![m] = to]

\* No message is on its way and none is lost.
Settled == \A m \in Messages : fate[m] \in {"unsent", "sent"}

Opens  == ~open /\ Settled /\ open' = TRUE /\ UNCHANGED fate
Closes == open' = FALSE /\ UNCHANGED fate

Sends(m)    == open /\ Settled /\ Turns(m, "unsent", "flying") /\ UNCHANGED open
Answered(m) == Turns(m, "flying", "sent") /\ UNCHANGED open
Lost(m)     == Turns(m, "flying", "unknown") /\ open' = FALSE

\* What is on its way is lost, and what was answered may not be on record yet.
Crashes ==
  /\ open' = FALSE
  /\ \E forgotten \in SUBSET {m \in Messages : fate[m] = "sent"} :
       fate' = [m \in Messages |-> IF fate[m] = "flying" \/ m \in forgotten THEN "unknown"
                                   ELSE fate[m]]

FateNext ==
  \/ Opens \/ Closes \/ Crashes
  \/ \E m \in Messages : Sends(m) \/ Answered(m) \/ Lost(m)

FateSpec == FateInit /\ [][FateNext]_fateVars
=============================================================================
