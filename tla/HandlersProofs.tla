--------------------------- MODULE HandlersProofs ---------------------------
(***************************************************************************)
(* What is proved about the address a request is taken to come from, the   *)
(* pool patterns are matched in and the verdicts on them.                  *)
(***************************************************************************)
EXTENDS ClientAddress, VerdictCache, RegexPool, SequenceTheorems, FiniteSetTheorems, TLAPS

-----------------------------------------------------------------------------
(***************************************************************************)
(* For every list of trusted proxies, every depth and headers and chains   *)
(* of any length: what a client writes into X-Forwarded-For is never taken *)
(* for its address, and makes no difference at all once the proxies have   *)
(* appended as many entries as the declared depth; and behind that many    *)
(* listed proxies at most the sender is found.                             *)
(***************************************************************************)
\* Sequences: where an entry of a concatenation comes from.
LEMMA Concatenation ==
    ASSUME NEW w \in Seq(CaEntry), NEW a \in Seq(CaEntry)
    PROVE  /\ w \o a \in Seq(CaEntry)
           /\ Len(w \o a) = Len(w) + Len(a)
           /\ \A i \in 1..Len(a) : (w \o a)[Len(w) + i] = a[i]
           /\ \A i \in 1..(Len(w) + Len(a)) : i > Len(w) =>
                  i - Len(w) \in 1..Len(a) /\ (w \o a)[i] = a[i - Len(w)]
    OBVIOUS

\* The walk stops at one place only.
LEMMA OneStop ==
    ASSUME NEW listed, NEW ips \in Seq(CaEntry), NEW i, NEW j,
           WalkStops(listed, ips, i), WalkStops(listed, ips, j)
    PROVE  i = j
    BY DEF WalkStops

\* Where an unlisted entry lies beyond the written part, the walk stops beyond
\* it too, as it does without the written part.
LEMMA WalkIgnoresWritten ==
    ASSUME NEW listed, NEW w \in Seq(CaEntry), NEW a \in Seq(CaEntry), NEW fallback,
           \E i \in 1..Len(a) : ~ListedEntry(listed, a[i])
    PROVE  RightToLeft(listed, w \o a, fallback) = RightToLeft(listed, a, fallback)
<1> DEFINE ips == w \o a
<1> USE Concatenation
<1>1. \A i \in 1..Len(a) : WalkStops(listed, a, i) => WalkStops(listed, ips, Len(w) + i)
  <2> SUFFICES ASSUME NEW i \in 1..Len(a), WalkStops(listed, a, i)
               PROVE  WalkStops(listed, ips, Len(w) + i)
    BY Zenon
  <2>1. Len(w) + i \in 1..Len(ips) /\ ips[Len(w) + i] = a[i]
    OBVIOUS
  <2>2. ASSUME NEW j \in 1..Len(ips), j > Len(w) + i
        PROVE  ListedEntry(listed, ips[j])
    <3>1. j - Len(w) \in 1..Len(a) /\ j - Len(w) > i /\ ips[j] = a[j - Len(w)]
      BY <2>2
    <3> QED BY Zenon, <3>1 DEF WalkStops
  <2> QED BY Zenon, <2>1, <2>2 DEF WalkStops
<1>2. \A i \in 1..Len(ips) : WalkStops(listed, ips, i) =>
          i > Len(w) /\ WalkStops(listed, a, i - Len(w))
  <2> SUFFICES ASSUME NEW i \in 1..Len(ips), WalkStops(listed, ips, i)
               PROVE  i > Len(w) /\ WalkStops(listed, a, i - Len(w))
    BY Zenon
  <2>1. PICK u \in 1..Len(a) : ~ListedEntry(listed, a[u])
    BY Zenon
  <2>2. Len(w) + u \in 1..Len(ips) /\ ips[Len(w) + u] = a[u]
    OBVIOUS
  <2>3. ~(Len(w) + u > i)
    BY Zenon, <2>1, <2>2 DEF WalkStops
  <2>4. i > Len(w)
    BY <2>3
  <2>5. i - Len(w) \in 1..Len(a) /\ ips[i] = a[i - Len(w)]
    BY <2>4
  <2>6. \A j \in 1..Len(a) : j > i - Len(w) => ListedEntry(listed, a[j])
    <3> SUFFICES ASSUME NEW j \in 1..Len(a), j > i - Len(w)
                 PROVE  ListedEntry(listed, a[j])
      BY Zenon
    <3>1. Len(w) + j \in 1..Len(ips) /\ Len(w) + j > i /\ ips[Len(w) + j] = a[j]
      OBVIOUS
    <3> QED BY Zenon, <3>1 DEF WalkStops
  <2> QED BY Zenon, <2>4, <2>5, <2>6 DEF WalkStops
<1>3. CASE \E i \in 1..Len(a) : WalkStops(listed, a, i)
  <2>1. PICK i \in 1..Len(a) : WalkStops(listed, a, i)
    BY Zenon, <1>3
  <2>2. Len(w) + i \in 1..Len(ips) /\ WalkStops(listed, ips, Len(w) + i)
        /\ ips[Len(w) + i] = a[i]
    BY <1>1, <2>1
  <2>3. (CHOOSE k \in 1..Len(a) : WalkStops(listed, a, k)) = i
    BY Zenon, <2>1, OneStop
  <2>4. (CHOOSE k \in 1..Len(ips) : WalkStops(listed, ips, k)) = Len(w) + i
    <3> DEFINE c == CHOOSE k \in 1..Len(ips) : WalkStops(listed, ips, k)
    <3>1. c \in 1..Len(ips) /\ WalkStops(listed, ips, c)
      BY Zenon, <2>2
    <3> HIDE DEF c
    <3>2. c = Len(w) + i
      BY Zenon, <3>1, <2>2, OneStop
    <3> QED BY Zenon, <3>2 DEF c
  <2> HIDE DEF ips
  <2>5. RightToLeft(listed, ips, fallback) = Or(a[i], fallback)
    BY Zenon, <2>2, <2>4 DEF RightToLeft
  <2>6. RightToLeft(listed, a, fallback) = Or(a[i], fallback)
    BY Zenon, <2>1, <2>3 DEF RightToLeft
  <2> QED BY Zenon, <2>5, <2>6 DEF ips
<1>4. CASE ~\E i \in 1..Len(a) : WalkStops(listed, a, i)
  <2>1. ~\E i \in 1..Len(ips) : WalkStops(listed, ips, i)
    BY Zenon, <1>2, <1>4
  <2> QED BY Zenon, <1>4, <2>1 DEF RightToLeft
<1> QED BY Zenon, <1>3, <1>4

\* With as many appended entries as the depth, the chain resolves as if nothing
\* had been written (_resolve_client_ip_from_forwarded_chain).
LEMMA ChainIgnoresWritten ==
    ASSUME NEW listed, NEW depth \in Nat \ {0}, NEW w \in Seq(CaEntry),
           NEW a \in Seq(CaEntry), NEW fallback, Len(a) >= depth
    PROVE  ResolveChain(listed, depth, w \o a, fallback)
               = ResolveChain(listed, depth, a, fallback)
<1> DEFINE ips == w \o a
<1> USE Concatenation
<1>1. ips \in Seq(CaEntry) /\ Len(ips) = Len(w) + Len(a) /\ ~(Len(ips) < depth)
  OBVIOUS
<1>2. RightSideUnlisted(listed, depth, ips) <=> RightSideUnlisted(listed, depth, a)
  <2>1. ASSUME NEW i \in (Len(ips) - depth + 2)..Len(ips), ~ListedEntry(listed, ips[i])
        PROVE  RightSideUnlisted(listed, depth, a)
    <3>1. i > Len(w) /\ i - Len(w) \in (Len(a) - depth + 2)..Len(a)
          /\ ips[i] = a[i - Len(w)]
      BY <1>1
    <3> QED BY Zenon, <2>1, <3>1 DEF RightSideUnlisted
  <2>2. ASSUME NEW i \in (Len(a) - depth + 2)..Len(a), ~ListedEntry(listed, a[i])
        PROVE  RightSideUnlisted(listed, depth, ips)
    <3>1. Len(w) + i \in (Len(ips) - depth + 2)..Len(ips) /\ ips[Len(w) + i] = a[i]
      BY <1>1
    <3> QED BY Zenon, <2>2, <3>1 DEF RightSideUnlisted
  <2> QED BY Zenon, <2>1, <2>2 DEF RightSideUnlisted
<1>3. RightSideUnlisted(listed, depth, a) => \E i \in 1..Len(a) : ~ListedEntry(listed, a[i])
  BY DEF RightSideUnlisted
<1>4. RightSideUnlisted(listed, depth, a) =>
          RightToLeft(listed, ips, fallback) = RightToLeft(listed, a, fallback)
  BY <1>3, WalkIgnoresWritten
<1>5. ips[Len(ips) - depth + 1] = a[Len(a) - depth + 1]
  <2>1. Len(a) - depth + 1 \in 1..Len(a)
    OBVIOUS
  <2> QED BY <1>1, <2>1
<1> HIDE DEF ips
<1>6. ResolveChain(listed, depth, ips, fallback) = ResolveChain(listed, depth, a, fallback)
  BY <1>1, <1>2, <1>4, <1>5 DEF ResolveChain
<1> QED BY Zenon, <1>6 DEF ips

----------------------------------------------------------------------------

\* The inductive invariant: the first entry appended is the client's own, every
\* other one and the peer are proxies passed, and all are spelled as a socket
\* shows them; the address resolved is that of the chain as it stands.
CaIInv ==
    /\ CaTypeOK
    /\ Len(appended) = Len(hops)
    /\ \A i \in 1..Len(appended) :
           /\ appended[i].spelling \in {"plain", "mapped"}
           /\ appended[i].host = IF i = 1 THEN sender ELSE hops[i - 1]
    /\ caAt = "idle" => hops = <<>>
    /\ peer.host \in IF hops = <<>> THEN {sender} ELSE {hops[Len(hops)], CaNobody}
    /\ caAt = "done" => resolved = ExtractClientIp(caDeployed, peer, written \o appended)

\* What the chain resolves to is the fallback or the host of an entry.
LEMMA ResolveChainType ==
    ASSUME NEW listed, NEW depth \in Nat \ {0}, NEW ips \in Seq(CaEntry),
           NEW fallback \in CaHosts \cup {CaNobody}
    PROVE  ResolveChain(listed, depth, ips, fallback) \in CaHosts \cup {CaNobody}
<1>1. \A i \in 1..Len(ips) : Or(ips[i], fallback) \in CaHosts \cup {CaNobody}
  <2> SUFFICES ASSUME NEW i \in 1..Len(ips)
               PROVE  Or(ips[i], fallback) \in CaHosts \cup {CaNobody}
    BY Zenon
  <2>1. ips[i] \in CaEntry
    OBVIOUS
  <2>2. ips[i].host \in CaHosts
    BY Zenon, <2>1 DEF CaEntry
  <2> QED BY Zenon, <2>2 DEF Or
<1>2. RightToLeft(listed, ips, fallback) \in CaHosts \cup {CaNobody}
  <2>1. CASE \E i \in 1..Len(ips) : WalkStops(listed, ips, i)
    <3> DEFINE c == CHOOSE i \in 1..Len(ips) : WalkStops(listed, ips, i)
    <3>1. c \in 1..Len(ips)
      BY Zenon, <2>1
    <3> HIDE DEF c
    <3>2. Or(ips[c], fallback) \in CaHosts \cup {CaNobody}
      BY Zenon, <1>1, <3>1
    <3> QED BY Zenon, <2>1, <3>2 DEF RightToLeft, c
  <2>2. CASE ~\E i \in 1..Len(ips) : WalkStops(listed, ips, i)
    BY Zenon, <2>2 DEF RightToLeft
  <2> QED BY Zenon, <2>1, <2>2
<1>3. ~(Len(ips) < depth) => Len(ips) - depth + 1 \in 1..Len(ips)
  OBVIOUS
<1> QED BY Zenon, <1>1, <1>2, <1>3 DEF ResolveChain

\* Every step of the request keeps the invariant.
LEMMA CaInductive == CaInit /\ [][CaNext]_caVars => []CaIInv
<1> USE CaAssumption
<1>1. CaInit => CaIInv
  BY DEF CaInit, CaIInv, CaTypeOK
<1>2. CaIInv /\ [CaNext]_caVars => CaIInv'
  <2> SUFFICES ASSUME CaIInv, [CaNext]_caVars PROVE CaIInv'
    BY Zenon
  <2>1. ASSUME NEW n \in 0..CaMaxWritten, NEW es \in [1..n -> CaWritable],
               NEW s \in {"plain", "mapped"}, Send(es, s)
        PROVE  CaIInv'
    <3> DEFINE spellings == {"plain", "port", "mapped", "odd", "junk"}
    <3>a. CaSpellings \subseteq spellings
      BY Zenon
    <3>b. CaWritable \subseteq CaEntry
      <4> HIDE DEF spellings
      <4>1. \A e \in [host : CaHosts, spelling : CaSpellings] :
                e \in [host : CaHosts, spelling : spellings]
        BY Zenon, <3>a
      <4> QED BY Zenon, <4>1 DEF CaWritable, CaEntry, spellings
    <3>1. es \in [1..n -> CaEntry] /\ n \in Nat
      BY <3>b
    <3>2. es \in Seq(CaEntry)
      BY <3>1, SeqDef
    <3>3. /\ caAt = "idle" /\ caAt' = "sent" /\ written' = es
          /\ peer' = [host |-> sender, spelling |-> s]
          /\ UNCHANGED <<caDeployed, sender, appended, hops, resolved>>
      BY Zenon, <2>1 DEF Send
    <3>4. CaTypeOK'
      BY Zenon, <3>2, <3>3 DEF CaIInv, CaTypeOK
    <3> QED BY Zenon, <3>3, <3>4 DEF CaIInv
  <2>2. ASSUME NEW p \in CaHosts, NEW h \in {p, CaNobody}, NEW s \in {"plain", "mapped"},
               Forward(p, [host |-> h, spelling |-> s])
        PROVE  CaIInv'
    <3>1. /\ appended' = Append(appended, peer) /\ hops' = Append(hops, p)
          /\ peer' = [host |-> h, spelling |-> s] /\ caAt = "sent"
          /\ peer.host # CaNobody
          /\ UNCHANGED <<caDeployed, caAt, sender, written, resolved>>
      BY Zenon, <2>2 DEF Forward
    <3>2. peer \in CaEntry /\ peer.spelling \in {"plain", "mapped"}
      BY Zenon, <3>1 DEF CaIInv, CaTypeOK, CaEntry
    <3>3. /\ appended' \in Seq(CaEntry) /\ hops' \in Seq(CaHosts)
          /\ Len(appended') = Len(appended) + 1 /\ Len(hops') = Len(hops) + 1
          /\ appended'[Len(appended) + 1] = peer /\ hops'[Len(hops) + 1] = p
          /\ \A i \in 1..Len(appended) : appended'[i] = appended[i]
          /\ \A i \in 1..Len(hops) : hops'[i] = hops[i]
      BY <3>1, <3>2 DEF CaIInv, CaTypeOK
    <3>4. CaTypeOK'
      BY <3>1, <3>3 DEF CaIInv, CaTypeOK
    <3>5. peer.host = IF Len(appended) = 0 THEN sender ELSE hops[Len(hops)]
      BY <3>1 DEF CaIInv, CaTypeOK
    <3>6. ASSUME NEW i \in 1..Len(appended')
          PROVE  /\ appended'[i].spelling \in {"plain", "mapped"}
                 /\ appended'[i].host = IF i = 1 THEN sender ELSE hops'[i - 1]
      <4>1. CASE i \in 1..Len(appended)
        <5>1. appended'[i] = appended[i]
          BY Zenon, <3>3, <4>1
        <5>2. i # 1 => i - 1 \in 1..Len(hops)
          BY <4>1 DEF CaIInv, CaTypeOK
        <5>3. i # 1 => hops'[i - 1] = hops[i - 1]
          BY Zenon, <3>3, <5>2
        <5> QED BY <3>1, <4>1, <5>1, <5>3 DEF CaIInv
      <4>2. CASE i = Len(appended) + 1
        BY <3>2, <3>3, <3>5, <4>2 DEF CaIInv, CaTypeOK
      <4> QED BY <3>3, <4>1, <4>2 DEF CaIInv, CaTypeOK
    <3>7. Len(appended') = Len(hops') /\ hops' # <<>> /\ hops'[Len(hops')] = p
      BY <3>3 DEF CaIInv, CaTypeOK
    <3> QED BY Zenon, <3>1, <3>4, <3>6, <3>7 DEF CaIInv
  <2>3. CASE Extract
    <3>1. /\ resolved' = ExtractClientIp(caDeployed, peer, written \o appended)
          /\ caAt' = "done"
          /\ UNCHANGED <<caDeployed, sender, written, appended, peer, hops>>
      BY Zenon, <2>3 DEF Extract
    <3>2. /\ written \o appended \in Seq(CaEntry)
          /\ caDeployed.depth \in Nat \ {0} /\ peer.host \in CaHosts \cup {CaNobody}
      BY Zenon, Concatenation DEF CaIInv, CaTypeOK
    <3>3. ExtractClientIp(caDeployed, peer, written \o appended) \in CaHosts \cup {CaNobody}
      BY Zenon, <3>2, ResolveChainType DEF ExtractClientIp
    <3>4. CaTypeOK'
      BY Zenon, <3>1, <3>3 DEF CaIInv, CaTypeOK
    <3> QED BY Zenon, <3>1, <3>4 DEF CaIInv
  <2>4. CASE UNCHANGED caVars
    BY Zenon, <2>4 DEF CaIInv, CaTypeOK, caVars
  <2> QED BY Zenon, <2>1, <2>2, <2>3, <2>4 DEF CaNext
<1> QED BY <1>1, <1>2, PTL

\* What the client writes makes no difference once the proxies appended as many
\* entries as the declared depth.
THEOREM WrittenNeverMatters == CaSpec => []WrittenPartIgnored
<1>1. CaIInv => WrittenPartIgnored
  <2> SUFFICES ASSUME CaIInv, caAt = "done", Len(appended) >= caDeployed.depth
               PROVE  resolved = ExtractClientIp(caDeployed, peer, appended)
    BY Zenon DEF WrittenPartIgnored
  <2>1. /\ written \in Seq(CaEntry) /\ appended \in Seq(CaEntry)
        /\ caDeployed.depth \in Nat \ {0}
    BY Zenon, CaAssumption DEF CaIInv, CaTypeOK
  <2>2. \A fallback : ResolveChain(caDeployed.listed, caDeployed.depth,
                                   written \o appended, fallback)
                    = ResolveChain(caDeployed.listed, caDeployed.depth, appended, fallback)
    BY <2>1, ChainIgnoresWritten
  <2> QED BY Zenon, <2>2 DEF ExtractClientIp, CaIInv
<1> QED BY <1>1, CaInductive, PTL DEF CaSpec

\* The request is attributed to its client, to a proxy it passed or to nobody.
THEOREM NobodyIsForged == CaSpec => []NeverWritten
<1>1. CaIInv => NeverWritten
  <2> SUFFICES ASSUME CaIInv, caAt = "done", sender \notin caDeployed.listed
               PROVE  resolved \in {sender, CaNobody} \cup {hops[i] : i \in 1..Len(hops)}
    BY Zenon DEF NeverWritten
  <2> DEFINE ips == written \o appended
             listed == caDeployed.listed
             depth == caDeployed.depth
             path == {sender, CaNobody} \cup {hops[i] : i \in 1..Len(hops)}
  <2>1. /\ written \in Seq(CaEntry) /\ appended \in Seq(CaEntry) /\ depth \in Nat \ {0}
        /\ hops \in Seq(CaHosts) /\ Len(appended) = Len(hops)
    BY Zenon, CaAssumption DEF CaIInv, CaTypeOK
  <2>2. /\ ips \in Seq(CaEntry) /\ Len(ips) = Len(written) + Len(appended)
        /\ \A i \in 1..Len(ips) : i > Len(written) =>
               i - Len(written) \in 1..Len(appended) /\ ips[i] = appended[i - Len(written)]
    <3>1. written \in Seq(CaEntry) /\ appended \in Seq(CaEntry)
      BY Zenon, <2>1
    <3>2. /\ ips \in Seq(CaEntry) /\ Len(ips) = Len(written) + Len(appended)
          /\ \A i \in 1..(Len(written) + Len(appended)) : i > Len(written) =>
                 i - Len(written) \in 1..Len(appended) /\ ips[i] = appended[i - Len(written)]
      BY <3>1, Concatenation, Zenon
    <3> HIDE DEF ips
    <3> QED BY <3>2, Zenon
  <2>3. peer.host \in path
    BY <2>1 DEF CaIInv
  <2>4. \A i \in 1..Len(appended) : appended[i].host \in path
    <3> SUFFICES ASSUME NEW i \in 1..Len(appended) PROVE appended[i].host \in path
      BY Zenon
    <3>1. i # 1 => i - 1 \in 1..Len(hops)
      BY <2>1
    <3> QED BY Zenon, <3>1 DEF CaIInv
  <2>5. \A i \in 1..Len(ips) : i > Len(written) => Or(ips[i], peer.host) \in path
    <3> HIDE DEF ips, path
    <3> SUFFICES ASSUME NEW i \in 1..Len(ips), i > Len(written)
                 PROVE  Or(ips[i], peer.host) \in path
      BY Zenon
    <3>1. ips[i].host \in path
      BY Zenon, <2>2, <2>4
    <3> QED BY Zenon, <2>3, <3>1 DEF Or
  <2>6. CASE hops = <<>>
    <3>1. peer.host = sender
      BY Zenon, <2>6 DEF CaIInv
    <3>2. resolved = sender
      BY <3>1, CaAssumption DEF CaIInv, CaTypeOK, ExtractClientIp, ListedPeer
    <3> QED BY Zenon, <3>2
  <2>7. CASE hops # <<>>
    <3> DEFINE first == Len(written) + 1
    <3>1. first \in 1..Len(ips) /\ ips[first] = appended[1] /\ 1 \in 1..Len(appended)
      BY <2>1, <2>2, <2>7
    <3>2. ~ListedEntry(listed, ips[first])
      BY Zenon, <3>1 DEF CaIInv, ListedEntry
    <3>3. \A i \in 1..Len(ips) : WalkStops(listed, ips, i) => i >= first
      BY <3>1, <3>2 DEF WalkStops
    <3>4. RightToLeft(listed, ips, peer.host) \in path
      <4>1. CASE \E i \in 1..Len(ips) : WalkStops(listed, ips, i)
        <5> DEFINE c == CHOOSE i \in 1..Len(ips) : WalkStops(listed, ips, i)
        <5>1. c \in 1..Len(ips) /\ WalkStops(listed, ips, c)
          BY Zenon, <4>1
        <5> HIDE DEF c, ips, path, listed
        <5>2. c \in 1..Len(ips) /\ c > Len(written)
          BY <2>1, <3>3, <5>1
        <5>3. Or(ips[c], peer.host) \in path
          BY Zenon, <2>5, <5>2
        <5> QED BY Zenon, <4>1, <5>3 DEF RightToLeft, c
      <4>2. CASE ~\E i \in 1..Len(ips) : WalkStops(listed, ips, i)
        BY Zenon, <2>3, <4>2 DEF RightToLeft
      <4> QED BY Zenon, <4>1, <4>2
    <3>5. ~(Len(ips) < depth) /\ ~RightSideUnlisted(listed, depth, ips)
              => Or(ips[Len(ips) - depth + 1], peer.host) \in path
      <4> SUFFICES ASSUME ~(Len(ips) < depth), ~RightSideUnlisted(listed, depth, ips)
                   PROVE  Or(ips[Len(ips) - depth + 1], peer.host) \in path
        BY Zenon
      <4> HIDE DEF ips, listed, depth, path
      <4>1. ~(first \in (Len(ips) - depth + 2)..Len(ips))
        BY Zenon, <3>2 DEF RightSideUnlisted
      <4>2. Len(ips) - depth + 1 \in 1..Len(ips) /\ Len(ips) - depth + 1 > Len(written)
        BY <2>1, <2>2, <3>1, <4>1
      <4> QED BY Zenon, <2>5, <4>2
    <3>6. ResolveChain(listed, depth, ips, peer.host) \in path
      BY Zenon, <2>3, <3>4, <3>5 DEF ResolveChain
    <3> HIDE DEF ips, path
    <3>7. ExtractClientIp(caDeployed, peer, ips) \in path
      BY Zenon, <2>3, <3>6 DEF ExtractClientIp
    <3> QED BY Zenon, <3>7 DEF CaIInv, ips, path
  <2> QED BY Zenon, <2>6, <2>7
<1> QED BY <1>1, CaInductive, PTL DEF CaSpec

\* A chain whose first appended entry is unlisted and usable and whose others,
\* at most as many as the depth, are listed, resolves to that first entry.
LEMMA ChainFindsFirst ==
    ASSUME NEW listed, NEW depth \in Nat \ {0}, NEW w \in Seq(CaEntry),
           NEW a \in Seq(CaEntry), NEW fallback,
           Len(a) \in 1..depth, Len(w) + Len(a) >= depth,
           ~ListedEntry(listed, a[1]), Usable(a[1]),
           \A i \in 2..Len(a) : ListedEntry(listed, a[i])
    PROVE  ResolveChain(listed, depth, w \o a, fallback) = a[1].host
<1> DEFINE ips == w \o a
           first == Len(w) + 1
<1>1. /\ ips \in Seq(CaEntry) /\ Len(ips) = Len(w) + Len(a) /\ Len(w) \in Nat /\ Len(a) \in Nat
      /\ ~(Len(ips) < depth) /\ first \in 1..Len(ips)
  BY Concatenation
<1>c. /\ \A i \in 1..Len(a) : ips[Len(w) + i] = a[i]
      /\ \A i \in 1..(Len(w) + Len(a)) : i > Len(w) => ips[i] = a[i - Len(w)]
  BY Concatenation
<1> HIDE DEF ips
<1>2. ips[first] = a[1]
  <2>1. 1 \in 1..Len(a)
    OBVIOUS
  <2> QED BY Zenon, <1>c, <2>1
<1>3. ASSUME NEW j \in 1..Len(ips), j > first PROVE ListedEntry(listed, ips[j])
  <2>1. j - Len(w) \in 2..Len(a) /\ j \in 1..(Len(w) + Len(a)) /\ j > Len(w)
    BY <1>1, <1>3
  <2>2. ips[j] = a[j - Len(w)]
    BY Zenon, <1>c, <2>1
  <2> QED BY Zenon, <2>1, <2>2
<1>4. Or(ips[first], fallback) = a[1].host
  BY Zenon, <1>2 DEF Or
<1> HIDE DEF first
<1>5. CASE RightSideUnlisted(listed, depth, ips)
  <2>1. WalkStops(listed, ips, first)
    BY Zenon, <1>1, <1>2, <1>3 DEF WalkStops
  <2> DEFINE c == CHOOSE k \in 1..Len(ips) : WalkStops(listed, ips, k)
  <2>2. c \in 1..Len(ips) /\ WalkStops(listed, ips, c)
    BY Zenon, <1>1, <2>1
  <2>3. c = first
    <3> HIDE DEF c
    <3> QED BY Zenon, <1>1, <2>1, <2>2, OneStop
  <2>4. RightToLeft(listed, ips, fallback) = Or(ips[c], fallback)
    BY Zenon, <1>1, <2>1 DEF RightToLeft
  <2> QED BY Zenon, <1>1, <1>4, <1>5, <2>3, <2>4 DEF ResolveChain, ips
<1>6. CASE ~RightSideUnlisted(listed, depth, ips)
  <2>1. first = Len(ips) - depth + 1
    <3>1. ~(first \in (Len(ips) - depth + 2)..Len(ips))
      BY Zenon, <1>2, <1>6 DEF RightSideUnlisted
    <3> QED BY <1>1, <3>1 DEF first
  <2> QED BY Zenon, <1>1, <1>4, <1>6, <2>1 DEF ResolveChain, ips
<1> QED BY Zenon, <1>5, <1>6

\* Behind listed proxies, no more of them than the declared depth, a request is
\* attributed to the host that sent it, whatever that host wrote.
THEOREM SenderIsFound == CaSpec => []RealClientFound
<1>1. CaIInv => RealClientFound
  <2> SUFFICES ASSUME CaIInv, caAt = "done", sender \notin caDeployed.listed,
                      Len(hops) \in 1..caDeployed.depth,
                      Len(written) + Len(appended) >= caDeployed.depth,
                      \A i \in 1..Len(hops) : hops[i] \in caDeployed.listed,
                      IF peer.host = CaNobody THEN caDeployed.unix ELSE peer.spelling = "plain"
               PROVE  resolved = sender
    BY Zenon DEF RealClientFound
  <2>1. /\ written \in Seq(CaEntry) /\ appended \in Seq(CaEntry)
        /\ caDeployed.depth \in Nat \ {0} /\ hops \in Seq(CaHosts) /\ Len(appended) = Len(hops)
    BY Zenon, CaAssumption DEF CaIInv, CaTypeOK
  <2>2. 1 \in 1..Len(appended) /\ Len(hops) \in 1..Len(hops) /\ hops # <<>>
    BY <2>1
  <2>3. appended[1].host = sender /\ appended[1].spelling \in {"plain", "mapped"}
    BY Zenon, <2>2 DEF CaIInv
  <2>4. Usable(appended[1]) /\ ~ListedEntry(caDeployed.listed, appended[1])
    BY Zenon, <2>3 DEF Usable, StripPort, ListedEntry
  <2>5. ASSUME NEW i \in 2..Len(appended) PROVE ListedEntry(caDeployed.listed, appended[i])
    <3>1. i \in 1..Len(appended) /\ i # 1 /\ i - 1 \in 1..Len(hops)
      BY <2>1
    <3>2. appended[i].host \in caDeployed.listed /\ appended[i].spelling \in {"plain", "mapped"}
      BY Zenon, <3>1 DEF CaIInv
    <3> QED BY Zenon, <3>2 DEF ListedEntry, StripPort
  <2>6. \A fallback :
          ResolveChain(caDeployed.listed, caDeployed.depth, written \o appended, fallback) = sender
    <3>1. Len(appended) \in 1..caDeployed.depth
      BY Zenon, <2>1
    <3>2. \A fallback :
            ResolveChain(caDeployed.listed, caDeployed.depth, written \o appended, fallback)
              = appended[1].host
      BY <2>1, <2>4, <2>5, <3>1, ChainFindsFirst
    <3> QED BY Zenon, <2>3, <3>2
  <2>7. peer.host = CaNobody \/ peer.host = hops[Len(hops)]
    BY Zenon, <2>2 DEF CaIInv
  <2>8. peer.host # CaNobody => ListedPeer(caDeployed.listed, peer)
    BY Zenon, <2>2, <2>7 DEF ListedPeer
  <2> QED BY Zenon, <2>6, <2>8 DEF ExtractClientIp, CaIInv
<1> QED BY <1>1, CaInductive, PTL DEF CaSpec

-----------------------------------------------------------------------------
(***************************************************************************)
(* For any processes, versions and patterns: no verdict of another version *)
(* is used; and a lone process never repeats a probe, over crashes and     *)
(* restarts.                                                               *)
(***************************************************************************)
VcVerdicts == {VcNone} \cup vcDeployed.versions
VcFiles == [VcPatterns -> VcVerdicts]

VcTypes ==
    /\ vcDeployed \in VcDeployments
    /\ file \in VcFiles
    /\ entries \in [VcProcs -> VcFiles]
    /\ tmp \in [VcProcs -> VcFiles]
    /\ version \in [VcProcs -> VcVerdicts]
    /\ vcAt \in [VcProcs -> {"down", "idle", "put", "replace"}]
    /\ probing \in [VcProcs -> VcPatterns \cup {VcNone}]
    /\ certified \subseteq vcDeployed.versions \X VcPatterns

\* A process that runs has a version, and one that saves a pattern.
Running ==
    \A p \in VcProcs :
        /\ vcAt[p] # "down" => version[p] \in vcDeployed.versions
        /\ vcAt[p] \in {"put", "replace"} => probing[p] \in VcPatterns
        /\ vcAt[p] = "replace" => /\ tmp[p] = entries[p]
                                  /\ entries[p][probing[p]] = version[p]

\* One process of one version, and files that can be read and written.
Alone == /\ ~vcDeployed.faults
         /\ \A p, q \in vcDeployed.procs : p = q
         /\ \A v, w \in vcDeployed.versions : v = w

\* Then the file holds every verdict that ever reached it, and the process, as
\* long as it runs, every verdict of the file.
Durable ==
    /\ \A c \in certified : file[c[2]] = c[1]
    /\ \A p \in vcDeployed.procs, k \in VcPatterns :
           vcAt[p] # "down" /\ file[k] # VcNone => entries[p][k] # VcNone
    /\ probed = {}

VcInv == VcTypes /\ Running /\ OwnVersionOnly /\ (Alone => Durable)

LEMMA VcInvInit == VcInit => VcInv
<1> SUFFICES ASSUME VcInit PROVE VcInv
  BY Zenon
<1> USE DEF VcInit, VcEmpty
<1>1. VcTypes
  BY Zenon DEF VcTypes, VcFiles, VcVerdicts
<1>2. Running /\ OwnVersionOnly
  BY Zenon DEF Running, OwnVersionOnly
<1>3. Durable
  BY Zenon, <1>1 DEF Durable, VcTypes, VcFiles, VcVerdicts
<1> QED BY Zenon, <1>1, <1>2, <1>3 DEF VcInv

LEMMA VcInvStep == VcInv /\ [VcNext]_vcVars => VcInv'
<1> SUFFICES ASSUME VcInv, [VcNext]_vcVars PROVE VcInv'
  BY Zenon
<1>0. CASE UNCHANGED vcVars
  BY <1>0 DEF vcVars, VcInv, VcTypes, VcFiles, VcVerdicts, Running, OwnVersionOnly, Alone,
              Durable
<1> SUFFICES ASSUME VcNext PROVE VcInv'
  BY Zenon, <1>0
<1> PICK p \in vcDeployed.procs :
        \/ \E v \in vcDeployed.versions : Open(p, v)
        \/ \E k \in VcPatterns : ValidatePatternSafety(p, k)
        \/ Put(p) \/ ReplaceFile(p) \/ SaveFailed(p) \/ Stop(p)
  BY Zenon DEF VcNext
<1>1. p \in VcProcs /\ VcNone \notin vcDeployed.versions
  BY Zenon, VcAssumption DEF VcInv, VcTypes
<1>2. /\ vcDeployed' = vcDeployed
      /\ VcVerdicts' = VcVerdicts /\ VcFiles' = VcFiles /\ (Alone' <=> Alone)
  BY Zenon DEF Open, ValidatePatternSafety, Put, ReplaceFile, SaveFailed, Stop, VcVerdicts, VcFiles,
         Alone
<1>t. /\ entries \in [VcProcs -> VcFiles] /\ tmp \in [VcProcs -> VcFiles]
      /\ version \in [VcProcs -> VcVerdicts]
      /\ vcAt \in [VcProcs -> {"down", "idle", "put", "replace"}]
      /\ probing \in [VcProcs -> VcPatterns \cup {VcNone}]
      /\ Running /\ OwnVersionOnly /\ (Alone => Durable)
  BY Zenon DEF VcInv, VcTypes
<1> USE DEF VcGoto
<1>3. CASE \E v \in vcDeployed.versions : Open(p, v)
  <2> PICK v \in vcDeployed.versions : Open(p, v)
    BY Zenon, <1>3
  <2>1. Load(v) \in VcFiles /\ VcEmpty \in VcFiles
    BY Zenon DEF Load, VcEmpty, VcFiles, VcVerdicts
  <2>2. PICK e \in {Load(v), VcEmpty} : /\ entries' = [entries EXCEPT ![p] = e]
                                        /\ ~vcDeployed.faults => e = Load(v)
    BY Zenon DEF Open
  <2>3. VcTypes'
    BY Zenon, <1>1, <1>2, <2>1, <2>2 DEF Open, VcInv, VcTypes, VcVerdicts
  <2>u. /\ vcAt'[p] = "idle" /\ version'[p] = v /\ entries'[p] = e
        /\ \A q \in VcProcs : q # p => /\ vcAt'[q] = vcAt[q] /\ version'[q] = version[q]
                                       /\ entries'[q] = entries[q]
        /\ tmp' = tmp /\ probing' = probing
    BY Zenon, <1>1, <1>t, <2>2 DEF Open
  <2>4. Running'
    BY Zenon, <1>2, <1>t, <2>u DEF Running
  <2>5. OwnVersionOnly'
    <3>1. \A k \in VcPatterns : e[k] \in {VcNone, v}
      BY Zenon DEF Load, VcEmpty
    <3> QED BY Zenon, <1>t, <2>u, <3>1 DEF OwnVersionOnly
  <2>6. ASSUME Alone PROVE Durable'
    <3>1. \A k \in VcPatterns : file[k] # VcNone => Load(v)[k] # VcNone
      BY Zenon, <1>1, <2>6 DEF Alone, Load, VcInv, VcTypes, VcFiles, VcVerdicts
    <3>2. UNCHANGED <<certified, file, probed>> /\ entries'[p] = Load(v)
      BY Zenon, <1>1, <2>2, <2>6 DEF Open, Alone, VcInv, VcTypes
    <3> QED BY Zenon, <1>2, <2>6, <3>1, <3>2 DEF Alone, Durable, VcInv
  <2> QED BY Zenon, <1>2, <2>3, <2>4, <2>5, <2>6 DEF VcInv
<1>4. CASE \E k \in VcPatterns : ValidatePatternSafety(p, k)
  <2> PICK k \in VcPatterns : ValidatePatternSafety(p, k)
    BY Zenon, <1>4
  <2>1. VcTypes'
    BY Zenon, <1>1, <1>2 DEF ValidatePatternSafety, VcInv, VcTypes
  <2>2. Running' /\ OwnVersionOnly'
    <3>1. Running'
      BY Zenon, <1>1, <1>2 DEF ValidatePatternSafety, VcInv, VcTypes, Running
    <3>2. OwnVersionOnly'
      BY Zenon DEF ValidatePatternSafety, VcInv, OwnVersionOnly
    <3> QED BY Zenon, <3>1, <3>2
  <2>3. ASSUME Alone PROVE Durable'
    \* A certified verdict of the only version is among the entries.
    <3>1. <<version[p], k>> \notin certified
      <4> SUFFICES ASSUME <<version[p], k>> \in certified PROVE FALSE
        BY Zenon
      <4>1. file[k] = version[p] /\ version[p] # VcNone /\ vcAt[p] # "down"
        <5>1. <<version[p], k>>[1] = version[p] /\ <<version[p], k>>[2] = k
          OBVIOUS
        <5> QED BY Zenon, <1>1, <1>t, <2>3, <5>1 DEF ValidatePatternSafety, Running, Durable
      <4> QED BY Zenon, <1>1, <1>t, <2>3, <4>1 DEF ValidatePatternSafety, Durable
    <3>2. UNCHANGED <<certified, file, probed, entries>> /\ vcAt[p] # "down"
      BY Zenon, <3>1 DEF ValidatePatternSafety
    <3>3. \A q \in VcProcs : vcAt'[q] # "down" => vcAt[q] # "down"
      BY Zenon, <1>t, <3>2 DEF ValidatePatternSafety
    <3>4. vcDeployed.procs \subseteq VcProcs
      BY Zenon, VcAssumption DEF VcInv, VcTypes
    <3> QED BY Zenon, <1>2, <1>t, <2>3, <3>2, <3>3, <3>4 DEF Durable
  <2> QED BY Zenon, <1>2, <2>1, <2>2, <2>3 DEF VcInv
<1>5. CASE Put(p)
  <2>1. probing[p] \in VcPatterns /\ version[p] \in vcDeployed.versions
    BY Zenon, <1>1, <1>5 DEF Put, VcInv, Running
  <2>2. /\ entries' = [entries EXCEPT ![p] = [entries[p] EXCEPT ![probing[p]] = version[p]]]
        /\ tmp' = [tmp EXCEPT ![p] = entries'[p]]
        /\ vcAt' = [vcAt EXCEPT ![p] = "replace"]
        /\ UNCHANGED <<vcDeployed, file, version, probing, starts, certified, probed>>
    BY Zenon, <1>5 DEF Put
  <2>3. VcTypes'
    BY Zenon, <1>1, <1>2, <2>1, <2>2 DEF VcInv, VcTypes, VcFiles, VcVerdicts
  <2>u. /\ vcAt'[p] = "replace" /\ vcAt[p] # "down" /\ tmp'[p] = entries'[p]
        /\ entries'[p] = [entries[p] EXCEPT ![probing[p]] = version[p]]
        /\ \A q \in VcProcs : q # p => /\ vcAt'[q] = vcAt[q] /\ entries'[q] = entries[q]
                                       /\ tmp'[q] = tmp[q]
    BY Zenon, <1>1, <1>t, <1>5, <2>2 DEF Put
  <2>v. /\ entries'[p][probing[p]] = version[p]
        /\ \A k \in VcPatterns : k # probing[p] => entries'[p][k] = entries[p][k]
    BY Zenon, <1>1, <1>t, <2>1, <2>u DEF VcFiles
  <2>4. Running'
    BY Zenon, <1>2, <1>t, <2>1, <2>2, <2>u, <2>v DEF Running
  <2>5. OwnVersionOnly'
    BY Zenon, <1>1, <1>t, <2>1, <2>2, <2>u, <2>v DEF OwnVersionOnly
  <2>6. ASSUME Alone PROVE Durable'
    <3>1. vcDeployed.procs \subseteq VcProcs /\ version[p] # VcNone
      BY Zenon, <1>1, <2>1, VcAssumption DEF VcInv, VcTypes
    <3>2. ASSUME NEW q \in vcDeployed.procs, NEW k \in VcPatterns, vcAt'[q] # "down", file[k] # VcNone
          PROVE  entries'[q][k] # VcNone
      <4>1. vcAt[q] # "down"
        BY Zenon, <2>u, <3>1, <3>2
      <4>2. entries[q][k] # VcNone
        BY Zenon, <1>t, <2>6, <3>2, <4>1 DEF Durable
      <4> QED BY Zenon, <2>u, <2>v, <3>1, <4>2
    <3> QED BY Zenon, <1>2, <2>2, <2>6, <3>2 DEF VcInv, Durable
  <2> QED BY Zenon, <1>2, <2>3, <2>4, <2>5, <2>6 DEF VcInv
<1>6. CASE ReplaceFile(p)
  <2>1. /\ probing[p] \in VcPatterns /\ version[p] \in vcDeployed.versions
        /\ tmp[p] = entries[p] /\ entries[p][probing[p]] = version[p]
    BY Zenon, <1>1, <1>6 DEF ReplaceFile, VcInv, Running
  <2>2. VcTypes'
    BY <1>1, <1>2, <1>6, <2>1 DEF ReplaceFile, VcInv, VcTypes
  <2>3. Running' /\ OwnVersionOnly'
    BY Zenon, <1>1, <1>2, <1>6 DEF ReplaceFile, VcInv, VcTypes, Running, OwnVersionOnly
  <2>4. ASSUME Alone PROVE Durable'
    <3>1. file' = entries[p] /\ UNCHANGED <<entries, probed>>
      BY Zenon, <1>6, <2>1 DEF ReplaceFile
    <3>2. ASSUME NEW c \in certified PROVE entries[p][c[2]] = c[1]
      <4>1. c[1] \in vcDeployed.versions /\ c[2] \in VcPatterns
        BY <3>2 DEF VcInv, VcTypes
      <4>2. file[c[2]] = c[1] /\ entries[p][c[2]] # VcNone
        BY Zenon, <1>1, <1>6, <1>t, <2>4, <3>2, <4>1 DEF ReplaceFile, Durable
      <4>3. entries[p][c[2]] = version[p] /\ version[p] = c[1]
        BY Zenon, <1>1, <1>t, <2>1, <2>4, <4>1, <4>2 DEF OwnVersionOnly, Alone
      <4> QED BY Zenon, <4>3
    <3>3. \A c \in certified' : file'[c[2]] = c[1]
      <4>1. certified' = certified \cup {<<version[p], probing[p]>>}
        BY Zenon, <1>6 DEF ReplaceFile
      <4>2. <<version[p], probing[p]>>[1] = version[p] /\ <<version[p], probing[p]>>[2] = probing[p]
        OBVIOUS
      <4> QED BY Zenon, <2>1, <3>1, <3>2, <4>1, <4>2
    <3> QED BY Zenon, <1>2, <2>4, <3>1, <3>3 DEF Alone, VcInv, Durable
  <2> QED BY Zenon, <1>2, <2>2, <2>3, <2>4 DEF VcInv
<1>7. CASE SaveFailed(p)
  <2>1. VcTypes'
    BY Zenon, <1>1, <1>2, <1>7 DEF SaveFailed, VcInv, VcTypes
  <2>2. Running' /\ OwnVersionOnly' /\ ~Alone
    <3>1. /\ vcAt'[p] = "idle"
          /\ \A q \in VcProcs : q # p => vcAt'[q] = vcAt[q] /\ probing'[q] = probing[q]
      BY Zenon, <1>1, <1>t, <1>7 DEF SaveFailed
    <3>2. /\ entries' = entries /\ tmp' = tmp /\ version' = version
          /\ vcAt[p] = "replace" /\ vcDeployed.faults
      BY Zenon, <1>7 DEF SaveFailed
    <3>3. Running'
      <4> SUFFICES ASSUME NEW q \in VcProcs
                   PROVE  /\ vcAt'[q] # "down" => version'[q] \in vcDeployed'.versions
                          /\ vcAt'[q] \in {"put", "replace"} => probing'[q] \in VcPatterns
                          /\ vcAt'[q] = "replace" => /\ tmp'[q] = entries'[q]
                                                     /\ entries'[q][probing'[q]] = version'[q]
        BY Zenon DEF Running
      <4>1. CASE q = p
        BY Zenon, <1>2, <1>t, <3>1, <3>2, <4>1 DEF Running
      <4>2. CASE q # p
        BY Zenon, <1>2, <1>t, <3>1, <3>2, <4>2 DEF Running
      <4> QED BY Zenon, <4>1, <4>2
    <3> QED BY Zenon, <1>t, <3>2, <3>3 DEF OwnVersionOnly, Alone
  <2> QED BY Zenon, <1>2, <2>1, <2>2 DEF VcInv
<1>8. CASE Stop(p)
  <2>1. VcEmpty \in VcFiles
    BY Zenon DEF VcEmpty, VcFiles, VcVerdicts
  <2>2. VcTypes'
    BY Zenon, <1>1, <1>2, <1>8, <2>1 DEF Stop, VcInv, VcTypes, VcVerdicts
  <2>3. Running'
    BY Zenon, <1>1, <1>2, <1>8 DEF Stop, VcInv, VcTypes, Running
  <2>4. OwnVersionOnly'
    BY Zenon, <1>1, <1>8 DEF Stop, VcInv, VcTypes, OwnVersionOnly, VcEmpty
  <2>5. Alone => Durable'
    <3>1. vcDeployed.procs \subseteq VcProcs
      BY Zenon, VcAssumption DEF VcInv, VcTypes
    <3>2. \A q \in VcProcs : vcAt'[q] # "down" => vcAt[q] # "down" /\ entries'[q] = entries[q]
      BY Zenon, <1>t, <1>8 DEF Stop
    <3>3. file' = file /\ certified' = certified /\ probed' = probed
      BY Zenon, <1>8 DEF Stop
    <3>4. ASSUME Alone, NEW q \in vcDeployed.procs, NEW k \in VcPatterns, vcAt'[q] # "down",
                 file[k] # VcNone
          PROVE  entries'[q][k] # VcNone
      BY Zenon, <1>t, <3>1, <3>2, <3>4 DEF Durable
    <3>5. Alone => (\A c \in certified : file[c[2]] = c[1]) /\ probed = {}
      BY Zenon, <1>t DEF Durable
    <3> QED BY Zenon, <1>2, <3>3, <3>4, <3>5 DEF Durable
  <2> QED BY Zenon, <1>2, <2>2, <2>3, <2>4, <2>5 DEF VcInv
<1> QED BY Zenon, <1>3, <1>4, <1>5, <1>6, <1>7, <1>8

LEMMA VcInvAlways == VcSpec => []VcInv
BY VcInvInit, VcInvStep, PTL DEF VcSpec

\* A process decides by verdicts of its own version only, whatever processes and
\* versions write the file.
THEOREM VerdictsAreOwn == VcSpec => []OwnVersionOnly
<1>1. VcInv => OwnVersionOnly
  BY Zenon DEF VcInv
<1> QED BY <1>1, VcInvAlways, PTL

LEMMA AtMostOne ==
  ASSUME NEW S, IsFiniteSet(S), ~(Cardinality(S) > 1)
  PROVE  \A x, y \in S : x = y
<1> SUFFICES ASSUME NEW x \in S, NEW y \in S, x # y PROVE FALSE
  BY Zenon
<1>1. IsFiniteSet({x}) /\ Cardinality({x}) = 1
  BY Zenon, FS_Singleton
<1>2. Cardinality({x} \cup {y}) = 2
  BY <1>1, FS_AddElement
<1>3. {x} \cup {y} \subseteq S
  BY Zenon
<1>4. Cardinality({x} \cup {y}) <= Cardinality(S) /\ Cardinality(S) \in Nat
  BY Zenon, <1>3, FS_Subset, FS_CardinalityType
<1> QED BY <1>2, <1>4

\* A verdict that reached the file saves a lone process of one version the
\* probes for good, over any number of restarts and crashes between the steps
\* of _save.
THEOREM ProbedOnce == VcSpec => []NeverReprobed
<1>1. ASSUME VcInv PROVE NeverReprobed
  <2> SUFFICES ASSUME ~vcDeployed.faults, ~(Cardinality(vcDeployed.procs) > 1),
                      ~(Cardinality(vcDeployed.versions) > 1)
               PROVE  probed = {}
    BY Zenon DEF NeverReprobed
  <2>1. IsFiniteSet(vcDeployed.procs) /\ IsFiniteSet(vcDeployed.versions)
    BY Zenon, <1>1, VcAssumption DEF VcInv, VcTypes
  <2>2. Alone
    BY Zenon, <2>1, AtMostOne DEF Alone
  <2> QED BY Zenon, <1>1, <2>2 DEF VcInv, Durable
<1> QED BY <1>1, VcInvAlways, PTL

-----------------------------------------------------------------------------
(***************************************************************************)
(* For any number of scanning threads and of workers, and however many     *)
(* slow jobs: no pool of threads is lost, and no scan is handed a pool     *)
(* that has been shut down.                                                *)
(***************************************************************************)
\* The labels at which a scan is on its way.
RxLabels == {"idle", "lock", "submit", "wait", "success", "reset", "timeout",
             "shutdown"}

RxTypes == /\ executor \in Nat /\ created \in Nat /\ shut \subseteq Nat
           /\ rxAt \in [RxScans -> RxLabels]
           /\ pool \in [RxScans -> Nat]

\* The current pool is the last one created, so that whatever has been, or is
\* about to be, shut down is an earlier one.
LastCreated == /\ executor = created
               /\ \A p \in shut : p < executor
               /\ \A s \in RxScans : rxAt[s] = "shutdown" => pool[s] < executor

\* A scan is only past the choice of a pool when there is one.
PoolChosen == \A s \in RxScans : rxAt[s] \notin {"idle", "lock"} => executor > 0

RxInv == RxTypes /\ LastCreated /\ PoolChosen /\ NoPoolLost

LEMMA RxInvInit == RxInit => RxInv
BY DEF RxInit, RxInv, RxTypes, RxLabels, LastCreated, PoolChosen, NoPoolLost

\* A step that neither creates nor shuts down a pool, nor moves a scan to or
\* from the shutdown of the one it replaced.
LEMMA RxQuiet ==
  ASSUME RxInv, RxTypes', UNCHANGED <<executor, created, shut>>, PoolChosen',
         \A s \in RxScans : /\ rxAt[s] = "shutdown" <=> rxAt'[s] = "shutdown"
                            /\ rxAt[s] = "shutdown" => pool'[s] = pool[s]
  PROVE  RxInv'
BY Zenon DEF RxInv, RxTypes, LastCreated, NoPoolLost

LEMMA RxInvStep == RxInv /\ [RxNext]_rxVars => RxInv'
<1> SUFFICES ASSUME RxInv, [RxNext]_rxVars PROVE RxInv'
  BY Zenon
<1> USE DEF RxGoto
<1>1. ASSUME NEW s \in RxScans, SharedRegexExecutor(s) PROVE RxInv'
  <2>1. RxTypes' /\ PoolChosen'
    BY <1>1 DEF SharedRegexExecutor, RxInv, RxTypes, RxLabels, PoolChosen
  <2> QED BY Zenon, <1>1, <2>1, RxQuiet DEF SharedRegexExecutor, RxInv, RxTypes
<1>2. ASSUME NEW s \in RxScans, CreateExecutor(s) PROVE RxInv'
  <2>1. RxTypes'
    BY <1>2 DEF CreateExecutor, RxInv, RxTypes, RxLabels
  <2>2. PoolChosen'
    BY <1>2 DEF CreateExecutor, RxInv, RxTypes, PoolChosen
  <2>3. LastCreated'
    BY <1>2 DEF CreateExecutor, RxInv, RxTypes, LastCreated
  <2>4. NoPoolLost'
    <3>1. CASE executor = 0
      \* The pool created is the first one.
      BY <1>2, <3>1 DEF CreateExecutor, RxInv, RxTypes, LastCreated, NoPoolLost
    <3>2. CASE executor # 0
      BY Zenon, <1>2, <3>2 DEF CreateExecutor, RxInv, RxTypes, NoPoolLost
    <3> QED BY Zenon, <3>1, <3>2
  <2> QED BY Zenon, <2>1, <2>2, <2>3, <2>4 DEF RxInv
<1>3. ASSUME NEW s \in RxScans, Submit(s) PROVE RxInv'
  <2>1. /\ \E label \in {"idle", "wait"} : RxGoto(s, label)
        /\ pool' = pool \/ pool' = [pool EXCEPT ![s] = 0]
        /\ UNCHANGED <<executor, created, shut>>
    BY Zenon, <1>3 DEF Submit
  <2>2. RxTypes'
    BY <2>1 DEF RxInv, RxTypes, RxLabels
  <2>3. PoolChosen'
    BY Zenon, <1>3 DEF Submit, RxInv, RxTypes, PoolChosen
  <2> QED BY Zenon, <1>3, <2>2, <2>3, RxQuiet DEF Submit, RxInv, RxTypes
<1>4. ASSUME NEW s \in RxScans, RunJob(s) PROVE RxInv'
  BY Zenon, <1>4, RxQuiet DEF RunJob, RxInv, RxTypes, PoolChosen
<1>5. ASSUME NEW s \in RxScans, Result(s) PROVE RxInv'
  <2>1. RxTypes' /\ PoolChosen'
    BY Zenon, <1>5 DEF Result, RxInv, RxTypes, RxLabels, PoolChosen
  <2> QED BY Zenon, <1>5, <2>1, RxQuiet DEF Result, RxInv, RxTypes
<1>6. ASSUME NEW s \in RxScans, TimedOut(s) PROVE RxInv'
  <2>1. RxTypes' /\ PoolChosen'
    BY Zenon, <1>6 DEF TimedOut, RxInv, RxTypes, RxLabels, PoolChosen
  <2> QED BY Zenon, <1>6, <2>1, RxQuiet DEF TimedOut, RxInv, RxTypes
<1>7. ASSUME NEW s \in RxScans, ReportScanSuccess(s) PROVE RxInv'
  <2>1. RxTypes' /\ PoolChosen'
    BY Zenon, <1>7 DEF ReportScanSuccess, RxInv, RxTypes, RxLabels, PoolChosen
  <2> QED BY Zenon, <1>7, <2>1, RxQuiet DEF ReportScanSuccess, RxInv, RxTypes
<1>8. ASSUME NEW s \in RxScans, ResetTimeouts(s) PROVE RxInv'
  <2>1. RxTypes' /\ PoolChosen'
    BY Zenon, <1>8 DEF ResetTimeouts, RxInv, RxTypes, RxLabels, PoolChosen
  <2> QED BY Zenon, <1>8, <2>1, RxQuiet DEF ResetTimeouts, RxInv, RxTypes
<1>9. ASSUME NEW s \in RxScans, ReportScanTimeout(s) PROVE RxInv'
  <2>1. CASE timeouts + 1 < RxWorkers
    <3>1. RxTypes' /\ PoolChosen'
      BY <1>9, <2>1 DEF ReportScanTimeout, RxInv, RxTypes, RxLabels, PoolChosen
    <3> QED BY Zenon, <1>9, <2>1, <3>1, RxQuiet DEF ReportScanTimeout, RxInv, RxTypes
  <2>2. CASE ~(timeouts + 1 < RxWorkers)
    <3>1. RxTypes'
      BY <1>9, <2>2 DEF ReportScanTimeout, RxInv, RxTypes, RxLabels
    <3>2. PoolChosen' /\ LastCreated'
      BY <1>9, <2>2 DEF ReportScanTimeout, RxInv, RxTypes, PoolChosen, LastCreated
    <3>3. NoPoolLost'
      <4> SUFFICES ASSUME NEW p \in 1..created', p # executor', p \notin shut'
                   PROVE \E t \in RxScans : rxAt'[t] = "shutdown" /\ pool'[t] = p
        BY Zenon DEF NoPoolLost
      <4>1. CASE p = executor
        \* The pool that was current is the one this scan is to shut down.
        BY Zenon, <1>9, <2>2, <4>1 DEF ReportScanTimeout, RxInv, RxTypes
      <4>2. CASE p # executor
        <5>1. p \in 1..created
          BY <1>9, <2>2 DEF ReportScanTimeout, RxInv, RxTypes
        <5>2. PICK t \in RxScans : rxAt[t] = "shutdown" /\ pool[t] = p
          BY Zenon, <1>9, <4>2, <5>1 DEF ReportScanTimeout, RxInv, NoPoolLost
        <5> QED BY Zenon, <1>9, <2>2, <5>2 DEF ReportScanTimeout, RxInv, RxTypes
      <4> QED BY Zenon, <4>1, <4>2
    <3> QED BY Zenon, <3>1, <3>2, <3>3 DEF RxInv
  <2> QED BY Zenon, <2>1, <2>2
<1>10. ASSUME NEW s \in RxScans, ShutDownStale(s) PROVE RxInv'
  <2>1. RxTypes' /\ PoolChosen' /\ LastCreated'
    BY Zenon, <1>10 DEF ShutDownStale, RxInv, RxTypes, RxLabels, PoolChosen, LastCreated
  <2>2. NoPoolLost'
    BY Zenon, <1>10 DEF ShutDownStale, RxInv, RxTypes, NoPoolLost
  <2> QED BY Zenon, <2>1, <2>2 DEF RxInv
<1>11. ASSUME NEW p \in 1..created, FinishLate(p) PROVE RxInv'
  BY Zenon, <1>11, RxQuiet DEF FinishLate, RxInv, RxTypes, PoolChosen
<1>12. CASE UNCHANGED rxVars
  BY Zenon, <1>12, RxQuiet DEF rxVars, RxInv, RxTypes, PoolChosen
<1> QED
  BY Zenon, <1>1, <1>2, <1>3, <1>4, <1>5, <1>6, <1>7, <1>8, <1>9, <1>10, <1>11, <1>12
  DEF RxNext, RxStep

LEMMA RxInvAlways == RxSpec => []RxInv
BY RxInvInit, RxInvStep, PTL DEF RxSpec

\* No pool of threads is lost, for any number of scans and workers: every pool
\* shared_regex_executor or report_scan_timeout creates is the current one, shut
\* down, or about to be.
THEOREM PoolsAreShutDown == RxSpec => []NoPoolLost
<1>1. RxInv => NoPoolLost
  BY Zenon DEF RxInv
<1> QED BY <1>1, RxInvAlways, PTL

\* What shared_regex_executor returns has not been shut down, for any number of
\* scans and workers.
THEOREM LivePoolReturned == RxSpec => NoDeadPoolReturned
<1>1. ASSUME RxInv, [RxNext]_rxVars, NEW s \in RxScans,
             rxAt[s] # "submit", rxAt'[s] = "submit"
      PROVE  pool'[s] \notin shut
  <2> USE DEF RxGoto
  <2>1. CASE SharedRegexExecutor(s)
    BY <1>1, <2>1 DEF SharedRegexExecutor, RxInv, RxTypes, LastCreated
  <2>2. CASE CreateExecutor(s)
    BY <1>1, <2>2 DEF CreateExecutor, RxInv, RxTypes, LastCreated
  <2>3. ASSUME NEW t \in RxScans, t # s, RxStep(t) PROVE FALSE
    BY Zenon, <1>1, <2>3
    DEF RxStep, SharedRegexExecutor, CreateExecutor, Submit, Result, TimedOut,
        ReportScanSuccess, ResetTimeouts, ReportScanTimeout, ShutDownStale, RxInv, RxTypes
  <2>4. CASE \/ Submit(s) \/ Result(s) \/ TimedOut(s) \/ ReportScanSuccess(s)
             \/ ResetTimeouts(s) \/ ReportScanTimeout(s) \/ ShutDownStale(s)
    BY Zenon, <1>1, <2>4
    DEF Submit, Result, TimedOut, ReportScanSuccess, ResetTimeouts,
        ReportScanTimeout, ShutDownStale, RxInv, RxTypes
  <2>5. CASE UNCHANGED rxAt
    BY Zenon, <1>1, <2>5
  <2> QED BY Zenon, <1>1, <2>1, <2>2, <2>3, <2>4, <2>5
          DEF RxNext, RxStep, RunJob, FinishLate, rxVars
<1>2. RxInv /\ [RxNext]_rxVars
        => \A s \in RxScans : rxAt[s] # "submit" /\ rxAt'[s] = "submit"
                                => pool'[s] \notin shut
  BY Zenon, <1>1
<1> QED BY <1>2, RxInvAlways, PTL DEF RxSpec, NoDeadPoolReturned

\* A pool is handed out only before it is shut down, and is shut down once it is
\* replaced, for any number of scans and workers.
THEOREM PoolsLiveInOrder == RxSpec => PoolLifecycle
BY PoolsAreShutDown, LivePoolReturned, PTL DEF PoolLifecycle
=============================================================================
