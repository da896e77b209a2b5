---------------------------- MODULE ClientAddress ----------------------------
(***************************************************************************)
(* extract_client_ip (src/guard_core/_utils/ip_extraction.py): which       *)
(* address a request is attributed to, from the connecting peer and the    *)
(* X-Forwarded-For header.                                                 *)
(*                                                                         *)
(* The header is built as deployments build it: the client connects with   *)
(* any header of its own, every proxy on the way appends the address of    *)
(* the peer it sees and becomes the peer of the next.  An entry is a host  *)
(* and a spelling: "plain", "port" (host:port or [host]), "mapped"         *)
(* (::ffff:host), "odd" (an address with a forbidden character in its      *)
(* scope) or "junk" (no address).                                          *)
(***************************************************************************)
EXTENDS Integers, Sequences

CONSTANTS CaHosts,
          CaNobody,       \* UNKNOWN_CLIENT_IDENTITY
          CaDeployments,  \* records [listed, unix, depth]: trusted_proxies, as the
                          \* hosts it covers and the token, and trusted_proxy_depth
          CaSpellings,    \* the spellings of an entry the client writes
          CaMaxWritten,   \* bound: entries the client writes
          CaMaxHops       \* bound: proxies on the way

ASSUME CaAssumption ==
    /\ CaNobody \notin CaHosts
    /\ CaMaxWritten \in Nat
    /\ CaSpellings \subseteq {"plain", "port", "mapped", "odd", "junk"}
    /\ \A d \in CaDeployments : d.listed \subseteq CaHosts /\ d.depth \in Nat \ {0}

CaEntry == [host : CaHosts, spelling : {"plain", "port", "mapped", "odd", "junk"}]

----------------------------------------------------------------------------
(* The functions of the file, over a list of hosts, a depth and entries.   *)

\* _strip_forwarded_entry_port
StripPort(e) == IF e.spelling = "port" THEN [e EXCEPT !.spelling = "plain"] ELSE e

\* _is_trusted_proxy(_canonicalize_ip(entry)): an entry of the chain is
\* compared in its canonical form.  (An odd spelling is listed by the network
\* it falls in; of an address listed on its own it is the text of another host.)
ListedEntry(listed, e) ==
    StripPort(e).spelling \in {"plain", "mapped", "odd"} /\ e.host \in listed

\* _is_trusted_proxy(connecting_ip): the peer is compared as it is spelled.
ListedPeer(listed, p) == p.spelling = "plain" /\ p.host \in listed

\* The entry parses as an address and holds no metacharacter.
Usable(e) == StripPort(e).spelling \in {"plain", "mapped"}

\* _forwarded_header_right_side_unlisted_count is positive.
RightSideUnlisted(listed, depth, ips) ==
    \E i \in (Len(ips) - depth + 2)..Len(ips) : ~ListedEntry(listed, ips[i])

\* i is where the walk from right to left stops.
WalkStops(listed, ips, i) ==
    /\ i \in 1..Len(ips) /\ ~ListedEntry(listed, ips[i])
    /\ \A j \in 1..Len(ips) : j > i => ListedEntry(listed, ips[j])

Or(e, fallback) == IF Usable(e) THEN e.host ELSE fallback

\* _resolve_forwarded_chain_right_to_left, or the peer.
RightToLeft(listed, ips, fallback) ==
    IF \E i \in 1..Len(ips) : WalkStops(listed, ips, i)
    THEN Or(ips[CHOOSE i \in 1..Len(ips) : WalkStops(listed, ips, i)], fallback)
    ELSE fallback

\* Variant: the entries to the right of the selected one are not verified.
ResolveChainUnverified(listed, depth, ips, fallback) ==
    IF Len(ips) < depth THEN fallback ELSE Or(ips[Len(ips) - depth + 1], fallback)

\* Variant: the depth is counted from the left.
ResolveChainLeftmost(listed, depth, ips, fallback) ==
    IF Len(ips) < depth THEN fallback ELSE Or(ips[depth], fallback)

\* _resolve_client_ip_from_forwarded_chain; an absent header is an empty one.
ResolveChain(listed, depth, ips, fallback) ==
    IF Len(ips) < depth THEN fallback
    ELSE IF RightSideUnlisted(listed, depth, ips) THEN RightToLeft(listed, ips, fallback)
    ELSE Or(ips[Len(ips) - depth + 1], fallback)

\* extract_client_ip; a peer without address is nobody.
ExtractClientIp(d, p, ips) ==
    IF p.host = CaNobody
    THEN IF d.unix THEN ResolveChain(d.listed, d.depth, ips, CaNobody) ELSE CaNobody
    ELSE IF ListedPeer(d.listed, p) THEN ResolveChain(d.listed, d.depth, ips, p.host)
    ELSE p.host

----------------------------------------------------------------------------

VARIABLES caDeployed, caAt,
          sender,     \* the host that sends the request
          written,    \* the header it sends
          appended,   \* the entries the proxies appended
          peer,       \* the connection the next hop sees
          hops,       \* the proxies passed, in order
          resolved

caVars == <<caDeployed, caAt, sender, written, appended, peer, hops, resolved>>

CaInit == /\ caDeployed \in CaDeployments /\ caAt = "idle"
          /\ sender \in CaHosts
          /\ written = <<>> /\ appended = <<>> /\ hops = <<>>
          /\ peer = [host |-> sender, spelling |-> "plain"]
          /\ resolved = CaNobody

\* The client sends its request, header included.
Send(es, spelling) ==
    /\ caAt = "idle" /\ caAt' = "sent"
    /\ written' = es
    /\ peer' = [host |-> sender, spelling |-> spelling]
    /\ UNCHANGED <<caDeployed, sender, appended, hops, resolved>>

\* A proxy appends its peer and connects to the next hop, or to the
\* application over a Unix socket.  A dual-stack socket shows it mapped.
Forward(p, shown) ==
    /\ caAt = "sent" /\ Len(hops) < CaMaxHops
    /\ p # sender /\ peer.host # CaNobody
    /\ appended' = Append(appended, peer)
    /\ hops' = Append(hops, p)
    /\ peer' = shown
    /\ UNCHANGED <<caDeployed, caAt, sender, written, resolved>>

\* The application resolves the address, and keeps it in request.state.
Extract ==
    /\ caAt = "sent" /\ caAt' = "done"
    /\ resolved' = ExtractClientIp(caDeployed, peer, written \o appended)
    /\ UNCHANGED <<caDeployed, sender, written, appended, peer, hops>>

CaWritable == [host : CaHosts, spelling : CaSpellings]

CaNext ==
    \/ \E n \in 0..CaMaxWritten : \E es \in [1..n -> CaWritable] :
           \E s \in {"plain", "mapped"} : Send(es, s)
    \/ \E p \in CaHosts :
           \/ \E s \in {"plain", "mapped"} : Forward(p, [host |-> p, spelling |-> s])
           \/ Forward(p, [host |-> CaNobody, spelling |-> "plain"])
    \/ Extract

CaSpec == CaInit /\ [][CaNext]_caVars

----------------------------------------------------------------------------

CaTypeOK ==
    /\ caDeployed \in CaDeployments
    /\ caAt \in {"idle", "sent", "done"}
    /\ sender \in CaHosts /\ resolved \in CaHosts \cup {CaNobody}
    /\ written \in Seq(CaEntry) /\ appended \in Seq(CaEntry)
    /\ peer \in [host : CaHosts \cup {CaNobody}, spelling : {"plain", "mapped"}]
    /\ hops \in Seq(CaHosts)

\* A client that is no listed proxy itself is never taken for a host it only
\* wrote into the header: the request is attributed to the client, to a proxy
\* that really forwarded it, or to nobody, whatever the declared depth.
NeverWritten ==
    caAt = "done" /\ sender \notin caDeployed.listed =>
        resolved \in {sender, CaNobody} \cup {hops[i] : i \in 1..Len(hops)}

\* Where every proxy passed is listed, and seen in its plain spelling by the
\* application, and the depth is at least their number, a chain that is long
\* enough is attributed to the client.
RealClientFound ==
    ( /\ caAt = "done" /\ sender \notin caDeployed.listed
      /\ Len(hops) \in 1..caDeployed.depth
      /\ Len(written) + Len(appended) >= caDeployed.depth
      /\ \A i \in 1..Len(hops) : hops[i] \in caDeployed.listed
      /\ IF peer.host = CaNobody THEN caDeployed.unix ELSE peer.spelling = "plain" )
    => resolved = sender

\* Where the proxies appended as many entries as the declared depth, what the
\* client wrote makes no difference: the request is attributed as if the client
\* had sent no header.
WrittenPartIgnored ==
    caAt = "done" /\ Len(appended) >= caDeployed.depth
        => resolved = ExtractClientIp(caDeployed, peer, appended)
=============================================================================
