------------------------------- MODULE MCIpBan -------------------------------
(* Instances of IpBan for TLC. *)
EXTENDS IpBan, TLC

CONSTANTS a, b, w1, w2, c1, c2

OneNetwork == {{a, b}}

\* Workers ws and calls cs on one address, with Redis.
OnOneAddress(ws, cs) ==
  {[redis |-> TRUE, workers |-> ws, ips |-> {i}, networks |-> {}, tasks |-> cs] : i \in Ips}

\* One worker and one call at a time on both addresses and their network.
OneByOne == [redis: BOOLEAN, workers: {{w} : w \in Workers}, ips: {Ips},
             networks: {OneNetwork}, tasks: {{c} : c \in Tasks}]

AllDeployments == OnOneAddress(Workers, Tasks) \cup OneByOne

\* Addresses, workers and calls are interchangeable.
Symmetry == Permutations(Ips) \cup Permutations(Workers) \cup Permutations(Tasks)
=============================================================================
