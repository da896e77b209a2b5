--------------------------- MODULE ClientLifecycle ---------------------------
(***************************************************************************)
(* What RedisManager promises of the clients it creates: each goes from    *)
(* unborn to trial (created, not yet pinged) to serving to retired, and a  *)
(* new one is created only once every earlier one is retired.              *)
(***************************************************************************)
CONSTANT Clients

VARIABLE life

Init == life = [c \in Clients |-> "unborn"]

\* Redis.from_url: nothing else is alive.
Create(c) ==
  /\ \A d \in Clients : life[d] \in {"unborn", "retired"}
  /\ life[c] = "unborn"
  /\ life' = [life EXCEPT ![c] = "trial"]

\* The ping was answered and the client is published.
Admit(c) ==
  /\ life[c] = "trial"
  /\ life' = [life EXCEPT ![c] = "serving"]

\* The client is given up, once and for all.
Retire(c) ==
  /\ life[c] \in {"trial", "serving"}
  /\ life' = [life EXCEPT ![c] = "retired"]

Next == \E c \in Clients : Create(c) \/ Admit(c) \/ Retire(c)

Spec == Init /\ [][Next]_life
=============================================================================
