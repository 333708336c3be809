------------------------------ MODULE MCOutbox ------------------------------
(* Instances of Outbox for TLC.  The scaled times keep the order the real   *)
(* ones have, lease (30 s) < duplicate window (120 s) < longest delay (300  *)
(* s), as far as their number allows; where the window itself is in         *)
(* question, the first delay (4 s) lies below it too.                       *)
EXTENDS Outbox

\* All goes well but the publications: no worker dies, no account is deleted, and
\* time passes only while every row left is waiting for its available_at.
Waiting == claimable = {} /\ \A w \in Workers : workers[w] = Idle

PromptNext ==
    \/ \E r \in Rows : Enqueue(r)
    \/ \E w \in Workers : claim(w) \/ Publishes(w) \/ MarkPublished(w) \/ reschedule(w)
    \/ Waiting /\ Tick

PromptSpec == Init /\ [][PromptNext]_vars
=============================================================================
