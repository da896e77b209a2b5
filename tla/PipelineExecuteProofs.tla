------------------------ MODULE PipelineExecuteProofs ------------------------
(***************************************************************************)
(* For every set of check lists and any number of requests, rebuilds and   *)
(* edits: as long as no check is inserted before or removed from a list    *)
(* that a request is walking, each request meets every check of its list,  *)
(* and none of them twice.                                                 *)
(***************************************************************************)
EXTENDS PipelineExecute, WellFoundedInduction, SequenceTheorems, TLAPS

-----------------------------------------------------------------------------
(* Facts about lists of checks.                                            *)

\* The least of a set of positions is one of them.
LEMMA LeastIsMember ==
  ASSUME NEW S, S \subseteq Nat, S # {}
  PROVE  \E x \in S : \A y \in S : x <= y
<1> DEFINE less == {ss \in Nat \X Nat : ss[1] < ss[2]}
<1>1. IsWellFoundedOn(less, Nat)
  BY NatLessThanWellFounded, Zenon DEF OpToRel
<1>2. PICK x \in S : \A y \in S : ~(<<y, x>> \in less)
  <2> HIDE DEF less
  <2> QED BY <1>1, WFMin, Zenon
<1>3. \A y \in S : y \in Nat /\ x \in Nat /\ ~(y < x)
  BY <1>2, Zenon
<1> QED BY <1>3

\* add_check: a check that is not on the list goes to its end.
LEMMA AppendKeeps ==
  ASSUME NEW S, NEW s \in Seq(S), IsInjective(s), NEW e \in S, e \notin Range(s)
  PROVE  /\ Append(s, e) \in Seq(S) /\ IsInjective(Append(s, e))
         /\ Len(Append(s, e)) = Len(s) + 1
         /\ \A i \in 1..Len(s) : Append(s, e)[i] = s[i]
<1>1. /\ Append(s, e) \in Seq(S) /\ Len(Append(s, e)) = Len(s) + 1 /\ Len(s) \in Nat
      /\ \A i \in 1..Len(s) : Append(s, e)[i] = s[i]
      /\ Append(s, e)[Len(s) + 1] = e
      /\ DOMAIN s = 1..Len(s)
      /\ DOMAIN Append(s, e) = 1..(Len(s) + 1)
  OBVIOUS
<1>2. \A i \in 1..Len(s) : s[i] # e
  BY Zenon, <1>1 DEF Range
<1>3. IsInjective(Append(s, e))
  BY <1>1, <1>2 DEF IsInjective
<1> QED BY Zenon, <1>1, <1>3

\* Elements that move up to make room for a new one stay different.
LEMMA ShiftedUp ==
  ASSUME NEW n \in Nat, NEW s, NEW t, NEW e, NEW i \in 1..n,
         \A j, k \in 1..n : s[j] = s[k] => j = k,
         \A j \in 1..n : s[j] # e,
         \A j \in 1..(n + 1) : t[j] = IF j < i THEN s[j] ELSE IF j = i THEN e ELSE s[j - 1]
  PROVE  \A j, k \in 1..(n + 1) : t[j] = t[k] => j = k
<1>1. ASSUME NEW j \in 1..(n + 1), NEW k \in 1..(n + 1), t[j] = t[k], j < k PROVE FALSE
  BY <1>1
<1> QED BY <1>1

\* What is behind the i-th element.
LEMMA SuffixFrom ==
  ASSUME NEW S, NEW s, NEW n \in Nat, NEW i \in 1..n, \A j \in 1..n : s[j] \in S
  PROVE  /\ SubSeq(s, i + 1, n) \in Seq(S)
         /\ Len(SubSeq(s, i + 1, n)) = n - i
         /\ \A j \in 1..(n - i) : SubSeq(s, i + 1, n)[j] = s[i + j]
<1> DEFINE m == i + 1
           b == SubSeq(s, m, n)
<1>1. m \in Int /\ n \in Int /\ m..n \subseteq 1..n
  OBVIOUS
<1>2. m = i + 1
  BY Zenon
<1> HIDE DEF m
<1>3. /\ b \in Seq(S)
      /\ Len(b) = IF m <= n THEN n - m + 1 ELSE 0
      /\ \A j \in 1..(n - m + 1) : b[j] = s[m + j - 1]
  BY <1>1, SubSeqProperties
<1> HIDE DEF b
<1>4. Len(b) = n - i
  BY <1>2, <1>3
<1>5. \A j \in 1..(n - i) : b[j] = s[i + j]
  BY <1>2, <1>3
<1> QED BY Zenon, <1>3, <1>4, <1>5 DEF b, m

\* insert_check: the elements from its place on move up by one.
LEMMA InsertKeeps ==
  ASSUME NEW S, NEW s \in Seq(S), IsInjective(s), NEW e \in S, e \notin Range(s),
         NEW i \in 1..Len(s)
  PROVE  Inserted(s, i, e) \in Seq(S) /\ IsInjective(Inserted(s, i, e))
<1> DEFINE a == SubSeq(s, 1, i - 1)
           b == SubSeq(s, i, Len(s))
           t == Inserted(s, i, e)
<1>1. Len(s) \in Nat /\ i \in Int /\ DOMAIN s = 1..Len(s) /\ \A j \in 1..Len(s) : s[j] \in S
  OBVIOUS
<1>2. /\ a \in Seq(S) /\ Len(a) = i - 1 /\ \A j \in 1..(i - 1) : a[j] = s[j]
  BY <1>1, SubSeqProperties
<1>3. /\ b \in Seq(S) /\ Len(b) = Len(s) - i + 1
      /\ \A j \in 1..(Len(s) - i + 1) : b[j] = s[i + j - 1]
  BY <1>1, SubSeqProperties
<1>4. <<e>> \in Seq(S) /\ Len(<<e>>) = 1 /\ <<e>>[1] = e
  OBVIOUS
<1> DEFINE c == a \o <<e>>
<1>5. t = c \o b
  BY Zenon DEF Inserted
<1> HIDE DEF a, b, t
<1>6. c \in Seq(S) /\ Len(c) = i /\ \A j \in 1..i : c[j] = IF j < i THEN s[j] ELSE e
  BY <1>1, <1>2, <1>4, ConcatProperties
<1> HIDE DEF c
<1>7. /\ t \in Seq(S) /\ Len(t) = Len(c) + Len(b)
      /\ \A j \in 1..(Len(c) + Len(b)) : t[j] = IF j <= Len(c) THEN c[j] ELSE b[j - Len(c)]
  BY <1>3, <1>5, <1>6, ConcatProperties
<1>8. DOMAIN t = 1..(Len(s) + 1)
  BY <1>1, <1>3, <1>6, <1>7
<1>9. ASSUME NEW j \in 1..(Len(s) + 1)
      PROVE  t[j] = IF j < i THEN s[j] ELSE IF j = i THEN e ELSE s[j - 1]
  <2>1. CASE j <= i
    BY <1>1, <1>3, <1>6, <1>7, <2>1
  <2>2. CASE j > i
    <3>1. t[j] = b[j - i] /\ j - i \in 1..(Len(s) - i + 1)
      BY <1>1, <1>3, <1>6, <1>7, <2>2
    <3> QED BY <1>1, <1>3, <2>2, <3>1
  <2> QED BY <1>1, <2>1, <2>2
<1>10. \A j \in 1..Len(s) : s[j] # e
  BY Zenon, <1>1 DEF Range
<1>11. \A j, k \in 1..Len(s) : s[j] = s[k] => j = k
  BY Zenon, <1>1 DEF IsInjective
<1>12. \A j, k \in 1..(Len(s) + 1) : t[j] = t[k] => j = k
  BY <1>1, <1>9, <1>10, <1>11, ShiftedUp
<1> QED BY <1>7, <1>8, <1>12, Zenon DEF IsInjective, t

\* A sequence without its i-th element.
LEMMA WithoutOne ==
  ASSUME NEW S, NEW s, NEW n \in Nat, NEW i \in 1..n, \A j \in 1..n : s[j] \in S
  PROVE  LET t == SubSeq(s, 1, i - 1) \o SubSeq(s, i + 1, n)
         IN  /\ t \in Seq(S) /\ Len(t) = n - 1
             /\ \A j \in 1..(n - 1) : t[j] = IF j < i THEN s[j] ELSE s[j + 1]
<1> DEFINE t == SubSeq(s, 1, i - 1) \o SubSeq(s, i + 1, n)
           a == SubSeq(s, 1, i - 1)
           b == SubSeq(s, i + 1, n)
<1>1. a \in Seq(S) /\ Len(a) = i - 1 /\ \A j \in 1..(i - 1) : a[j] = s[j]
  BY SubSeqProperties
<1>2. b \in Seq(S) /\ Len(b) = n - i /\ \A j \in 1..(n - i) : b[j] = s[i + j]
  BY SuffixFrom
<1>3. t = a \o b
  BY Zenon
<1> HIDE DEF a, b, t
<1>4. /\ t \in Seq(S) /\ Len(t) = Len(a) + Len(b)
      /\ \A j \in 1..(Len(a) + Len(b)) : t[j] = IF j <= Len(a) THEN a[j] ELSE b[j - Len(a)]
  BY ZenonT(30), <1>1, <1>2, <1>3, ConcatProperties
<1>5. /\ Len(t) = (i - 1) + (n - i)
      /\ \A j \in 1..((i - 1) + (n - i)) : t[j] = IF j <= i - 1 THEN a[j] ELSE b[j - (i - 1)]
  BY <1>1, <1>2, <1>4, Zenon
<1>6. Len(t) = n - 1
  BY <1>5
<1>7. \A j \in 1..(n - 1) : t[j] = IF j < i THEN s[j] ELSE s[j + 1]
  <2> SUFFICES ASSUME NEW j \in 1..(n - 1) PROVE t[j] = IF j < i THEN s[j] ELSE s[j + 1]
    BY Zenon
  <2>1. CASE j < i
    <3>1. j \in 1..((i - 1) + (n - i)) /\ j <= i - 1 /\ j \in 1..(i - 1)
      BY <2>1
    <3> QED BY <1>1, <1>5, <2>1, <3>1, Zenon
  <2>2. CASE j >= i
    <3>1. /\ j \in 1..((i - 1) + (n - i)) /\ ~(j <= i - 1) /\ ~(j < i)
          /\ j - (i - 1) \in 1..(n - i) /\ i + (j - (i - 1)) = j + 1
      BY <2>2
    <3>2. b[j - (i - 1)] = s[i + (j - (i - 1))]
      BY <1>2, <3>1, Zenon
    <3> QED BY <1>5, <3>1, <3>2, Zenon
  <2> QED BY <2>1, <2>2
<1>8. /\ t \in Seq(S) /\ Len(t) = n - 1
      /\ \A j \in 1..(n - 1) : t[j] = IF j < i THEN s[j] ELSE s[j + 1]
  BY <1>4, <1>6, <1>7, Zenon
<1> QED BY <1>8, Zenon DEF t

\* remove_check: the elements behind it move down by one.
LEMMA RemoveKeeps ==
  ASSUME NEW S, NEW s \in Seq(S), IsInjective(s), NEW i \in 1..Len(s)
  PROVE  Removed(s, i) \in Seq(S) /\ IsInjective(Removed(s, i))
<1> DEFINE n == Len(s)
           t == Removed(s, i)
<1>1. n \in Nat /\ DOMAIN s = 1..n /\ i \in 1..n /\ \A j \in 1..n : s[j] \in S
  OBVIOUS
<1>2. \A j, k \in 1..n : s[j] = s[k] => j = k
  BY <1>1, Zenon DEF IsInjective
<1>3. /\ t \in Seq(S) /\ Len(t) = n - 1
      /\ \A j \in 1..(n - 1) : t[j] = IF j < i THEN s[j] ELSE s[j + 1]
  <2> HIDE DEF n
  <2>1. t = SubSeq(s, 1, i - 1) \o SubSeq(s, i + 1, n)
    BY Zenon DEF Removed, n
  <2>2. LET u == SubSeq(s, 1, i - 1) \o SubSeq(s, i + 1, n)
        IN  /\ u \in Seq(S) /\ Len(u) = n - 1
            /\ \A j \in 1..(n - 1) : u[j] = IF j < i THEN s[j] ELSE s[j + 1]
    BY <1>1, WithoutOne
  <2> HIDE DEF t
  <2> QED BY <2>1, <2>2, Zenon
<1> HIDE DEF t, n
<1>4. \A j, k \in 1..(n - 1) : t[j] = t[k] => j = k
  <2> SUFFICES ASSUME NEW j \in 1..(n - 1), NEW k \in 1..(n - 1), t[j] = t[k]
               PROVE  j = k
    BY Zenon
  <2> DEFINE x == IF j < i THEN j ELSE j + 1
             y == IF k < i THEN k ELSE k + 1
  <2>1. s[x] = s[y]
    BY <1>3, Zenon
  <2>2. x \in 1..n /\ y \in 1..n /\ (x = y => j = k)
    BY <1>1
  <2> QED BY <1>2, <2>1, <2>2, Zenon
<1>5. DOMAIN t = 1..(n - 1)
  BY <1>3
<1> QED BY <1>3, <1>4, <1>5, Zenon DEF IsInjective, t

LEMMA AppendedRange ==
  ASSUME NEW S, NEW s \in Seq(S), NEW e \in S
  PROVE  Range(Append(s, e)) = Range(s) \cup {e}
<1>1. /\ Len(s) \in Nat /\ DOMAIN s = 1..Len(s) /\ DOMAIN Append(s, e) = 1..(Len(s) + 1)
      /\ \A i \in 1..Len(s) : Append(s, e)[i] = s[i]
      /\ Append(s, e)[Len(s) + 1] = e
  OBVIOUS
<1> QED BY <1>1 DEF Range

-----------------------------------------------------------------------------
(* The inductive invariant.                                                *)

\* A list is inserted into or removed from only while no request walks it.
EditsWhenIdle == LiveEdits \subseteq {"add"}

RequestStates ==
    [at: Checks \cup {None}, list: Nat, next: Nat, scoped: BOOLEAN,
     must: SUBSET Checks, ran: Seq(Checks),
     outcome: {None, "allow", "block", "error", "raised"}]

\* Where a request stands between two elements of the list L it walks: it has
\* run only checks before that place, and under fail_secure the ones it still
\* has to pass are behind it.
Between(q, L, next, secure) ==
    /\ next \in 1..(Len(L) + 1)
    /\ \A c \in Range(q.ran) : \E j \in 1..(next - 1) : L[j] = c
    /\ \A c \in q.must : Applies(c, q)
    /\ secure => \A c \in q.must \ Range(q.ran) : \E j \in next..Len(L) : L[j] = c

\* A request that is at a check stands in front of it; one that was let through
\* has passed all that it had to.
Good(q, ls, secure) ==
    /\ q \in RequestStates /\ IsInjective(q.ran)
    /\ q.at = None =>
         (secure /\ q.outcome = "allow" => q.must \subseteq Range(q.ran))
    /\ q.at # None =>
         /\ q.outcome = None
         /\ q.list \in DOMAIN ls
         /\ q.next - 1 \in DOMAIN ls[q.list] /\ q.at = ls[q.list][q.next - 1]
         /\ Between(q, ls[q.list], q.next - 1, secure)

ListsOk(ls) ==
    ls \in Seq(Seq(Checks)) /\ \A i \in DOMAIN ls : IsInjective(ls[i])

IInv ==
    /\ ListsOk(lists) /\ cur \in DOMAIN lists /\ wanted \in Builds
    /\ DOMAIN req = Requests
    /\ \A r \in Requests : Good(req[r], lists, failSecure)

-----------------------------------------------------------------------------
(* The loop.                                                               *)

\* Moving on from a place between two elements ends at the next check that
\* applies, or, when there is none, with the request let through.
LEMMA AdvancedKeeps ==
  ASSUME NEW q \in RequestStates, IsInjective(q.ran), q.outcome = None,
         NEW secure, q.list \in DOMAIN lists', lists'[q.list] \in Seq(Checks),
         Between(q, lists'[q.list], q.next, secure)
  PROVE  Good(Advanced(q), lists', secure)
<1> DEFINE L == lists'[q.list]
           rest == {i \in q.next..Len(L) : Applies(L[i], q)}
           i == CHOOSE i \in rest : \A j \in rest : i <= j
           p == [q EXCEPT !.at = L[i], !.next = i + 1]
           w == [Waiting EXCEPT !.must = q.must, !.ran = q.ran, !.outcome = "allow"]
<1>1. Advanced(q) = IF rest = {} THEN w ELSE p
  BY Zenon DEF Advanced
<1>2. Len(L) \in Nat /\ DOMAIN L = 1..Len(L) /\ \A j \in 1..Len(L) : L[j] \in Checks
  OBVIOUS
<1>3. CASE rest = {}
  <2>1. secure => q.must \subseteq Range(q.ran)
    BY <1>3, Zenon DEF Between
  <2>2. w \in RequestStates /\ w.at = None /\ w.ran = q.ran /\ w.must = q.must
    BY Zenon DEF RequestStates, Waiting
  <2> QED BY <1>1, <1>3, <2>1, <2>2, Zenon DEF Good
<1>4. CASE rest # {}
  <2>1. q.next \in Nat /\ rest \subseteq Nat
    BY DEF RequestStates
  <2>2. i \in rest /\ \A j \in rest : i <= j
    <3> HIDE DEF rest
    <3> QED BY <1>4, <2>1, LeastIsMember, Zenon
  <2>3. i \in q.next..Len(L) /\ i \in 1..Len(L)
    BY <2>2 DEF Between
  <2> HIDE DEF i
  <2>4. /\ p \in RequestStates /\ p.at = L[i] /\ p.next = i + 1 /\ p.list = q.list
        /\ p.ran = q.ran /\ p.must = q.must /\ p.scoped = q.scoped /\ p.outcome = None
    <3> HIDE DEF L
    <3>1. L[i] \in Checks /\ i + 1 \in Nat
      BY <1>2, <2>3
    <3> DEFINE x == L[i]
               n == i + 1
    <3> HIDE DEF x, n
    <3>2. x \in Checks /\ n \in Nat
      BY Zenon, <3>1 DEF x, n
    <3>3. [q EXCEPT !.at = x, !.next = n] \in RequestStates
      BY Zenon, <3>2 DEF RequestStates
    <3> QED BY Zenon, <3>3 DEF x, n, RequestStates
  <2>5. \A c : Applies(c, p) = Applies(c, q)
    BY Zenon, <2>4 DEF Applies
  <2>6. \A c \in Range(q.ran) : \E j \in 1..(i - 1) : L[j] = c
    BY <2>1, <2>3 DEF Between
  <2>7. secure => \A c \in q.must \ Range(q.ran) : \E j \in i..Len(L) : L[j] = c
    <3> SUFFICES ASSUME secure, NEW c \in q.must \ Range(q.ran)
                 PROVE  \E j \in i..Len(L) : L[j] = c
      BY Zenon
    <3>1. PICK j \in q.next..Len(L) : L[j] = c
      BY Zenon DEF Between
    <3>2. j \in rest
      BY Zenon, <3>1 DEF Between
    <3>3. i <= j
      BY Zenon, <2>2, <3>2
    <3> QED BY <2>1, <2>3, <3>1, <3>3
  <2>8. L[i] # None /\ p.next - 1 = i
    BY <1>2, <2>3, <2>4, BuildsAssumption
  <2> HIDE DEF p
  <2>9. Between(p, L, i, secure)
    BY <1>2, <2>3, <2>4, <2>5, <2>6, <2>7 DEF Between
  <2>10. Good(p, lists', secure)
    BY Zenon, <1>2, <2>3, <2>4, <2>8, <2>9 DEF Good
  <2> QED BY Zenon, <1>1, <1>4, <2>10
<1> QED BY Zenon, <1>3, <1>4

\* A request that starts its loop has the whole list in front of it.
LEMMA EnteredKeeps ==
  ASSUME NEW scoped \in BOOLEAN, NEW secure, ListsOk(lists'), cur' \in DOMAIN lists'
  PROVE  Good(Entered(scoped), lists', secure)
<1> DEFINE q == [Waiting EXCEPT !.list = cur', !.next = 1, !.scoped = scoped]
           L == lists'[cur']
           must == {c \in Range(L) : Applies(c, q)}
           p == [q EXCEPT !.must = must]
<1>1. Entered(scoped) = Advanced(p)
  BY Zenon DEF Entered
<1>2. L \in Seq(Checks) /\ cur' \in Nat
  BY DEF ListsOk
<1>3. /\ Len(L) \in Nat /\ \A c \in Range(L) : \E j \in 1..Len(L) : L[j] = c
      /\ Range(L) \subseteq Checks
  BY <1>2 DEF Range
<1>4. must \subseteq Checks /\ must \subseteq Range(L)
  BY Zenon, <1>3
<1>5. \A c \in must : scoped => c \in Enforced
  BY Zenon DEF Applies, Waiting
<1> HIDE DEF L, must
<1>6. /\ p \in RequestStates /\ p.ran = <<>> /\ p.must = must /\ p.list = cur'
      /\ p.next = 1 /\ p.outcome = None /\ p.scoped = scoped
  <2>1. \A n \in Nat, m \in SUBSET Checks :
           [Waiting EXCEPT !.list = n, !.next = 1, !.scoped = scoped, !.must = m]
             \in RequestStates
    <3>1. <<>> \in Seq(Checks)
      OBVIOUS
    <3> QED BY Zenon, <3>1 DEF RequestStates, Waiting
  <2>2. p = [Waiting EXCEPT !.list = cur', !.next = 1, !.scoped = scoped, !.must = must]
    BY Zenon DEF Waiting
  <2> QED BY Zenon, <1>2, <1>4, <2>1, <2>2 DEF Waiting
<1> HIDE DEF p
<1>7. IsInjective(p.ran) /\ Range(p.ran) = {}
  BY <1>6 DEF IsInjective, Range
<1>8. Between(p, L, p.next, secure)
  BY <1>2, <1>3, <1>4, <1>5, <1>6, <1>7 DEF Between, Applies
<1> QED BY Zenon, <1>1, <1>2, <1>6, <1>7, <1>8, AdvancedKeeps DEF L

\* One that ends without being let through owes nothing.
LEMMA EndedKeeps ==
  ASSUME NEW ls, NEW secure, NEW w,
         w = Waiting \/ \E o \in {"block", "error", "raised"} : w = Ended(o)
  PROVE  Good(w, ls, secure)
<1>1. <<>> \in Seq(Checks) /\ IsInjective(<<>>)
  BY DEF IsInjective
<1>2. w \in RequestStates /\ w.at = None /\ w.ran = <<>> /\ w.must = {}
  <2>1. CASE w = Waiting
    BY Zenon, <1>1, <2>1 DEF RequestStates, Waiting
  <2>2. ASSUME NEW o \in {"block", "error", "raised"}, w = Ended(o)
        PROVE  w \in RequestStates /\ w.at = None /\ w.ran = <<>> /\ w.must = {}
    BY Zenon, <1>1, <2>2 DEF RequestStates, Waiting, Ended
  <2> QED BY Zenon, <2>1, <2>2
<1> QED BY <1>1, <1>2, Zenon DEF Good

\* A list grows at its end: what a request in it knows stays true.
Grown(L, M) ==
    /\ L \in Seq(Checks) /\ M \in Seq(Checks) /\ Len(L) <= Len(M)
    /\ \A j \in 1..Len(L) : M[j] = L[j]

LEMMA GrownKeeps ==
  ASSUME NEW q, NEW ls, NEW ms, NEW secure, Good(q, ls, secure),
         q.at # None => q.list \in DOMAIN ms /\ Grown(ls[q.list], ms[q.list])
  PROVE  Good(q, ms, secure)
<1>1. CASE q.at = None
  BY <1>1, Zenon DEF Good
<1>2. CASE q.at # None
  <2> DEFINE L == ls[q.list]
             M == ms[q.list]
             n == q.next - 1
  <2>1. /\ q.outcome = None /\ q.list \in DOMAIN ms /\ n \in DOMAIN L /\ q.at = L[n]
        /\ Between(q, L, n, secure) /\ Grown(L, M)
    BY Zenon, <1>2 DEF Good
  <2>2. /\ Len(L) \in Nat /\ Len(M) \in Nat /\ DOMAIN L = 1..Len(L) /\ DOMAIN M = 1..Len(M)
        /\ Len(L) <= Len(M) /\ \A j \in 1..Len(L) : M[j] = L[j]
    BY <2>1 DEF Grown
  <2> HIDE DEF n, L, M
  <2>3. n \in DOMAIN M /\ q.at = M[n]
    BY <2>1, <2>2
  <2>4. Between(q, M, n, secure)
    BY <2>1, <2>2 DEF Between
  <2> QED BY Zenon, <1>2, <2>1, <2>3, <2>4 DEF Good, n, M
<1> QED BY Zenon, <1>1, <1>2

\* The check a request is at lets it go on.
LEMMA PassKeeps ==
  ASSUME NEW q, NEW secure, Good(q, lists, secure), q.at # None,
         ListsOk(lists), lists' = lists
  PROVE  Good(Advanced([q EXCEPT !.ran = Append(q.ran, q.at)]), lists', secure)
<1> DEFINE L == lists[q.list]
           n == q.next - 1
           ran == Append(q.ran, q.at)
           p == [q EXCEPT !.ran = ran]
<1>1. /\ q \in RequestStates /\ q.next \in Nat /\ q.ran \in Seq(Checks) /\ q.outcome = None
      /\ q.at \in Checks
  BY Zenon DEF Good, RequestStates
<1>2. /\ q.list \in DOMAIN lists /\ n \in DOMAIN L /\ q.at = L[n] /\ Between(q, L, n, secure)
      /\ IsInjective(q.ran)
  BY Zenon DEF Good
<1>3. L \in Seq(Checks) /\ IsInjective(L)
  BY <1>2 DEF ListsOk
<1>4. Len(L) \in Nat /\ DOMAIN L = 1..Len(L) /\ \A j, k \in 1..Len(L) : L[j] = L[k] => j = k
  BY <1>3 DEF IsInjective
<1>5. q.next = n + 1 /\ n \in 1..Len(L)
  BY <1>1, <1>2, <1>4
<1> HIDE DEF L, n
<1>6. q.at \notin Range(q.ran)
  BY <1>2, <1>4, <1>5 DEF Between
<1>7. ran \in Seq(Checks) /\ IsInjective(ran) /\ Range(ran) = Range(q.ran) \cup {q.at}
  BY <1>1, <1>2, <1>6, AppendKeeps, AppendedRange
<1> HIDE DEF ran
<1>8. /\ p \in RequestStates /\ p.ran = ran /\ p.must = q.must /\ p.list = q.list
      /\ p.next = n + 1 /\ p.outcome = None /\ p.scoped = q.scoped
  BY Zenon, <1>1, <1>5, <1>7 DEF RequestStates
<1> HIDE DEF p
<1>9. Between(p, L, n + 1, secure)
  <2>1. n + 1 \in 1..(Len(L) + 1) /\ (n + 1) - 1 = n
    BY <1>4, <1>5
  <2>2. \A c \in Range(ran) : \E j \in 1..n : L[j] = c
    BY <1>2, <1>4, <1>5, <1>7 DEF Between
  <2>3. \A c \in q.must : Applies(c, p)
    BY Zenon, <1>2, <1>8 DEF Between, Applies
  <2>4. secure => \A c \in q.must \ Range(ran) : \E j \in (n + 1)..Len(L) : L[j] = c
    BY <1>2, <1>4, <1>5, <1>7 DEF Between
  <2> QED BY Zenon, <1>8, <2>1, <2>2, <2>3, <2>4 DEF Between
<1> QED BY Zenon, <1>2, <1>3, <1>7, <1>8, <1>9, AdvancedKeeps DEF L, p, ran

\* The check it is at raises and is tolerated: a Redis error excuses it from
\* that check; any other error is tolerated only without fail_secure.
LEMMA RaiseKeeps ==
  ASSUME NEW q, NEW secure, Good(q, lists, secure), q.at # None,
         ListsOk(lists), lists' = lists, NEW must \in SUBSET q.must,
         secure => must = q.must \ {q.at}
  PROVE  Good(Advanced([q EXCEPT !.must = must]), lists', secure)
<1> DEFINE L == lists[q.list]
           n == q.next - 1
           p == [q EXCEPT !.must = must]
<1>1. /\ q \in RequestStates /\ q.next \in Nat /\ q.outcome = None /\ must \in SUBSET Checks
  BY Zenon DEF Good, RequestStates
<1>2. /\ q.list \in DOMAIN lists /\ n \in DOMAIN L /\ q.at = L[n] /\ Between(q, L, n, secure)
      /\ IsInjective(q.ran)
  BY Zenon DEF Good
<1>3. L \in Seq(Checks)
  BY <1>2 DEF ListsOk
<1>4. Len(L) \in Nat /\ DOMAIN L = 1..Len(L)
  BY <1>3
<1>5. q.next = n + 1 /\ n \in 1..Len(L)
  BY <1>1, <1>2, <1>4
<1> HIDE DEF L, n
<1>6. /\ p \in RequestStates /\ p.ran = q.ran /\ p.must = must /\ p.list = q.list
      /\ p.next = n + 1 /\ p.outcome = None /\ p.scoped = q.scoped
  BY Zenon, <1>1, <1>5 DEF RequestStates
<1> HIDE DEF p
<1>7. Between(p, L, n + 1, secure)
  <2>1. n + 1 \in 1..(Len(L) + 1) /\ (n + 1) - 1 = n
    BY <1>4, <1>5
  <2>2. \A c \in Range(q.ran) : \E j \in 1..n : L[j] = c
    BY <1>2, <1>4, <1>5 DEF Between
  <2>3. \A c \in must : Applies(c, p)
    BY Zenon, <1>2, <1>6 DEF Between, Applies
  <2>4. secure => \A c \in must \ Range(q.ran) : \E j \in (n + 1)..Len(L) : L[j] = c
    BY <1>2, <1>4, <1>5 DEF Between
  <2> QED BY Zenon, <1>6, <2>1, <2>2, <2>3, <2>4 DEF Between
<1> QED BY Zenon, <1>2, <1>3, <1>6, <1>7, AdvancedKeeps DEF L, p

-----------------------------------------------------------------------------
(* Every step keeps the invariant.                                         *)

LEMMA InitInv == Init => IInv
<1> SUFFICES ASSUME Init PROVE IInv
  BY Zenon
<1>1. PICK b \in Builds : lists = <<b>> /\ wanted = b
  BY Zenon DEF Init
<1>2. b \in Seq(Checks) /\ IsInjective(b)
  BY Zenon, BuildsAssumption
<1>3. ListsOk(lists) /\ cur \in DOMAIN lists
  BY <1>1, <1>2 DEF ListsOk, Init
<1>4. ASSUME NEW r \in Requests PROVE Good(req[r], lists, failSecure)
  BY Zenon, EndedKeeps DEF Init
<1> QED BY Zenon, <1>1, <1>3, <1>4 DEF IInv, Init

\* One request moves, the others and the configuration stay.
LEMMA MovedOne ==
  ASSUME IInv, ListsOk(lists'), cur' \in DOMAIN lists', wanted' \in Builds,
         UNCHANGED config, NEW r \in Requests, NEW q,
         req' = [req EXCEPT ![r] = q], Good(q, lists', failSecure),
         \A i \in DOMAIN lists : i \in DOMAIN lists' /\ lists'[i] = lists[i]
  PROVE  IInv'
<1>1. failSecure' = failSecure
  BY Zenon DEF config
<1>2. DOMAIN req' = Requests
  BY Zenon DEF IInv
<1>3. ASSUME NEW s \in Requests PROVE Good(req'[s], lists', failSecure)
  <2>1. CASE s = r
    BY Zenon, <2>1 DEF IInv
  <2>2. CASE s # r
    <3>1. req'[s] = req[s] /\ Good(req[s], lists, failSecure)
      BY Zenon, <2>2 DEF IInv
    <3>2. ASSUME req[s].at # None
          PROVE  req[s].list \in DOMAIN lists' /\ Grown(lists[req[s].list], lists'[req[s].list])
      <4>1. req[s].list \in DOMAIN lists
        BY Zenon, <3>1, <3>2 DEF Good
      <4>2. lists[req[s].list] \in Seq(Checks)
        BY <4>1 DEF IInv, ListsOk
      <4> QED BY <4>1, <4>2 DEF Grown
    <3> QED BY Zenon, <3>1, <3>2, GrownKeeps
  <2> QED BY Zenon, <2>1, <2>2
<1> QED BY Zenon, <1>1, <1>2, <1>3 DEF IInv

LEMMA ExecuteKeeps ==
  ASSUME IInv, NEW r \in Requests, Execute(r)
  PROVE  IInv'
<1>1. /\ ListsOk(lists') /\ cur' \in DOMAIN lists'
      /\ \A i \in DOMAIN lists : i \in DOMAIN lists' /\ lists'[i] = lists[i]
  <2>1. CASE ~stale
    BY Zenon, <2>1 DEF Execute, IInv
  <2>2. CASE stale
    <3>1. lists' = Append(lists, wanted) /\ cur' = Len(lists) + 1
      BY Zenon, <2>2 DEF Execute
    <3>2. wanted \in Seq(Checks) /\ IsInjective(wanted) /\ lists \in Seq(Seq(Checks))
      BY Zenon, BuildsAssumption DEF IInv, ListsOk
    <3>3. /\ lists' \in Seq(Seq(Checks)) /\ Len(lists) \in Nat /\ DOMAIN lists = 1..Len(lists)
          /\ DOMAIN lists' = 1..(Len(lists) + 1)
          /\ \A i \in 1..Len(lists) : lists'[i] = lists[i]
          /\ lists'[Len(lists) + 1] = wanted
      BY <3>1, <3>2
    <3>4. \A i \in DOMAIN lists : IsInjective(lists[i])
      BY Zenon DEF IInv, ListsOk
    <3>5. \A i \in DOMAIN lists' : IsInjective(lists'[i])
      <4> TAKE i \in DOMAIN lists'
      <4>1. i \in DOMAIN lists \/ i = Len(lists) + 1
        BY <3>3
      <4> QED BY <3>2, <3>3, <3>4, <4>1, Zenon
    <3> QED BY <3>1, <3>3, <3>5 DEF ListsOk
  <2> QED BY Zenon, <2>1, <2>2
<1>2. PICK scoped \in BOOLEAN : req' = [req EXCEPT ![r] = Entered(scoped)]
  BY Zenon DEF Execute
<1>3. Good(Entered(scoped), lists', failSecure)
  BY Zenon, <1>1, EnteredKeeps
<1>4. wanted' \in Builds /\ UNCHANGED config
  BY Zenon DEF Execute, IInv
<1> QED BY Zenon, <1>1, <1>2, <1>3, <1>4, MovedOne

LEMMA UnchangedPipeline ==
  ASSUME IInv, UNCHANGED <<pipeline, config>>
  PROVE  /\ ListsOk(lists') /\ cur' \in DOMAIN lists' /\ wanted' \in Builds /\ lists' = lists
         /\ UNCHANGED config
         /\ \A i \in DOMAIN lists : i \in DOMAIN lists' /\ lists'[i] = lists[i]
BY Zenon DEF IInv, pipeline

LEMMA ExecuteRebuildFailsKeeps ==
  ASSUME IInv, NEW r \in Requests, ExecuteRebuildFails(r)
  PROVE  IInv'
<1>1. UNCHANGED <<pipeline, config>>
  BY Zenon DEF ExecuteRebuildFails
<1>2. PICK scoped \in BOOLEAN :
        req' = [req EXCEPT ![r] =
                  IF ~failSecure THEN Entered(scoped)
                  ELSE Ended(IF lists[cur] = <<>> THEN "raised" ELSE "error")]
  BY Zenon DEF ExecuteRebuildFails
<1>3. Good(Entered(scoped), lists', failSecure)
  BY Zenon, <1>1, UnchangedPipeline, EnteredKeeps
<1>4. Good(Ended("raised"), lists', failSecure) /\ Good(Ended("error"), lists', failSecure)
  BY Zenon, EndedKeeps
<1> DEFINE q == IF ~failSecure THEN Entered(scoped)
                ELSE Ended(IF lists[cur] = <<>> THEN "raised" ELSE "error")
<1>5. Good(q, lists', failSecure)
  BY <1>3, <1>4, Zenon
<1>6. req' = [req EXCEPT ![r] = q]
  BY Zenon, <1>2
<1> HIDE DEF q
<1> QED BY Zenon, <1>1, <1>5, <1>6, UnchangedPipeline, MovedOne

LEMMA StepKeeps ==
  ASSUME IInv, NEW r \in Requests, Step(r)
  PROVE  IInv'
<1>1. UNCHANGED <<pipeline, config>> /\ req[r].at # None
  BY Zenon DEF Step, CheckPasses, CheckBlocks, CheckRaises, InFlight
<1>2. /\ ListsOk(lists) /\ Good(req[r], lists, failSecure) /\ r \in DOMAIN req
  BY Zenon DEF IInv
<1>3. CASE CheckPasses(r)
  <2>1. req' = [req EXCEPT ![r] = Advanced([req[r] EXCEPT !.ran = Append(req[r].ran, req[r].at)])]
    BY Zenon, <1>3 DEF CheckPasses
  <2>2. Good(Advanced([req[r] EXCEPT !.ran = Append(req[r].ran, req[r].at)]), lists', failSecure)
    BY Zenon, <1>1, <1>2, UnchangedPipeline, PassKeeps
  <2> QED BY Zenon, <1>1, <2>1, <2>2, UnchangedPipeline, MovedOne
<1>4. CASE CheckBlocks(r)
  <2>1. Good(Ended("block"), lists', failSecure)
    BY Zenon, EndedKeeps
  <2> QED BY Zenon, <1>1, <1>4, <2>1, UnchangedPipeline, MovedOne DEF CheckBlocks
<1>5. CASE CheckRaises(r)
  <2>1. PICK isRedisError \in BOOLEAN :
          req' = [req EXCEPT ![r] =
                    IF Tolerated(isRedisError)
                    THEN Advanced(IF isRedisError
                                  THEN [req[r] EXCEPT !.must = @ \ {req[r].at}] ELSE req[r])
                    ELSE Ended("error")]
    BY Zenon, <1>5 DEF CheckRaises
  <2>2. CASE ~Tolerated(isRedisError)
    <3>1. Good(Ended("error"), lists', failSecure)
      BY Zenon, EndedKeeps
    <3>2. req' = [req EXCEPT ![r] = Ended("error")]
      BY Zenon, <2>1, <2>2
    <3> QED BY Zenon, <1>1, <3>1, <3>2, UnchangedPipeline, MovedOne
  <2>3. CASE Tolerated(isRedisError) /\ isRedisError
    <3> DEFINE q == Advanced([req[r] EXCEPT !.must = req[r].must \ {req[r].at}])
    <3>1. Good(q, lists', failSecure)
      BY Zenon, <1>1, <1>2, UnchangedPipeline, RaiseKeeps
    <3>2. req' = [req EXCEPT ![r] = q]
      BY Zenon, <2>1, <2>3
    <3> HIDE DEF q
    <3> QED BY Zenon, <1>1, <3>1, <3>2, UnchangedPipeline, MovedOne
  <2>4. CASE Tolerated(isRedisError) /\ ~isRedisError
    <3> DEFINE q == Advanced(req[r])
    <3>1. ~failSecure
      BY Zenon, <2>4 DEF Tolerated
    <3>2. req[r] = [req[r] EXCEPT !.must = req[r].must]
      BY Zenon, <1>2 DEF Good, RequestStates
    <3>3. Good(q, lists', failSecure)
      BY Zenon, <1>1, <1>2, <3>1, <3>2, UnchangedPipeline, RaiseKeeps
    <3>4. req' = [req EXCEPT ![r] = q]
      BY Zenon, <2>1, <2>4
    <3> HIDE DEF q
    <3> QED BY Zenon, <1>1, <3>3, <3>4, UnchangedPipeline, MovedOne
  <2> QED BY Zenon, <2>2, <2>3, <2>4
<1> QED BY Zenon, <1>3, <1>4, <1>5 DEF Step

\* The editing methods.  add_check grows the current list at its end; the other
\* two find no request at a check.
LEMMA EditKeeps ==
  ASSUME IInv, ListsOk(lists'), DOMAIN lists' = DOMAIN lists,
         UNCHANGED <<cur, wanted, config>>, req' = req,
         \A i \in DOMAIN lists \ {cur} : lists'[i] = lists[i],
         \/ Grown(lists[cur], lists'[cur])
         \/ \A r \in Requests : ~InFlight(r)
  PROVE  IInv'
<1>1. failSecure' = failSecure
  BY Zenon DEF config
<1>2. ASSUME NEW r \in Requests PROVE Good(req[r], lists', failSecure)
  <2>1. Good(req[r], lists, failSecure)
    BY Zenon DEF IInv
  <2>2. ASSUME req[r].at # None
        PROVE  req[r].list \in DOMAIN lists' /\ Grown(lists[req[r].list], lists'[req[r].list])
    <3>1. req[r].list \in DOMAIN lists
      BY Zenon, <2>1, <2>2 DEF Good
    <3>2. Grown(lists[cur], lists'[cur])
      BY Zenon, <2>2 DEF InFlight
    <3>3. lists[req[r].list] \in Seq(Checks)
      BY <3>1 DEF IInv, ListsOk
    <3>4. CASE req[r].list = cur
      BY Zenon, <3>1, <3>2, <3>4
    <3>5. CASE req[r].list # cur
      BY <3>1, <3>3, <3>5 DEF Grown
    <3> QED BY Zenon, <3>4, <3>5
  <2> QED BY Zenon, <2>1, <2>2, GrownKeeps
<1> QED BY Zenon, <1>1, <1>2 DEF IInv

\* The list that is edited, and the list of lists with it.
LEMMA EditedLists ==
  ASSUME IInv, NEW L \in Seq(Checks), IsInjective(L), lists' = [lists EXCEPT ![cur] = L]
  PROVE  /\ ListsOk(lists') /\ DOMAIN lists' = DOMAIN lists /\ lists'[cur] = L
         /\ \A i \in DOMAIN lists \ {cur} : lists'[i] = lists[i]
<1>1. lists \in Seq(Seq(Checks)) /\ cur \in DOMAIN lists /\ \A i \in DOMAIN lists : IsInjective(lists[i])
  BY Zenon DEF IInv, ListsOk
<1>2. lists' \in Seq(Seq(Checks)) /\ DOMAIN lists' = DOMAIN lists
  BY <1>1
<1>3. lists'[cur] = L /\ \A i \in DOMAIN lists \ {cur} : lists'[i] = lists[i]
  BY Zenon, <1>1
<1>4. \A i \in DOMAIN lists' : IsInjective(lists'[i])
  BY <1>1, <1>2, <1>3, Zenon
<1> QED BY <1>2, <1>3, <1>4, Zenon DEF ListsOk

LEMMA CurrentList ==
  ASSUME IInv
  PROVE  lists[cur] \in Seq(Checks) /\ IsInjective(lists[cur])
BY DEF IInv, ListsOk

LEMMA AddCheckKeeps ==
  ASSUME IInv, NEW c \in Customs, AddCheck(c)
  PROVE  IInv'
<1> DEFINE L == Append(lists[cur], c)
<1>1. c \in Checks /\ c \notin Range(lists[cur]) /\ lists' = [lists EXCEPT ![cur] = L]
  BY Zenon DEF AddCheck, Checks
<1>2. /\ L \in Seq(Checks) /\ IsInjective(L) /\ Len(L) = Len(lists[cur]) + 1
      /\ \A i \in 1..Len(lists[cur]) : L[i] = lists[cur][i]
  BY <1>1, CurrentList, AppendKeeps
<1> HIDE DEF L
<1>3. Grown(lists[cur], L)
  BY <1>2, CurrentList DEF Grown
<1>4. /\ ListsOk(lists') /\ DOMAIN lists' = DOMAIN lists /\ lists'[cur] = L
      /\ \A i \in DOMAIN lists \ {cur} : lists'[i] = lists[i]
  BY Zenon, <1>1, <1>2, EditedLists
<1>5. UNCHANGED <<cur, wanted, config>> /\ req' = req
  BY Zenon DEF AddCheck
<1> QED BY Zenon, <1>3, <1>4, <1>5, EditKeeps

LEMMA InsertCheckKeeps ==
  ASSUME IInv, EditsWhenIdle, NEW c \in Customs, NEW i, InsertCheck(i, c)
  PROVE  IInv'
<1> DEFINE L == Inserted(lists[cur], i, c)
<1>1. /\ c \in Checks /\ c \notin Range(lists[cur]) /\ lists' = [lists EXCEPT ![cur] = L]
      /\ i \in 1..Len(lists[cur])
  BY Zenon DEF InsertCheck, Checks
<1>2. L \in Seq(Checks) /\ IsInjective(L)
  BY Zenon, <1>1, CurrentList, InsertKeeps
<1> HIDE DEF L
<1>3. \A r \in Requests : ~InFlight(r)
  BY Zenon DEF InsertCheck, MayEdit, EditsWhenIdle
<1>4. /\ ListsOk(lists') /\ DOMAIN lists' = DOMAIN lists
      /\ \A j \in DOMAIN lists \ {cur} : lists'[j] = lists[j]
  BY Zenon, <1>1, <1>2, EditedLists
<1>5. UNCHANGED <<cur, wanted, config>> /\ req' = req
  BY Zenon DEF InsertCheck
<1> QED BY Zenon, <1>3, <1>4, <1>5, EditKeeps

\* remove_check also takes the check from what the requests owe.
LEMMA RemoveCheckKeeps ==
  ASSUME IInv, EditsWhenIdle, NEW c \in Customs, RemoveCheck(c)
  PROVE  IInv'
<1>1. PICK i \in 1..Len(lists[cur]) : lists' = [lists EXCEPT ![cur] = Removed(lists[cur], i)]
  BY Zenon DEF RemoveCheck
<1> DEFINE L == Removed(lists[cur], i)
<1>2. L \in Seq(Checks) /\ IsInjective(L) /\ lists' = [lists EXCEPT ![cur] = L]
  BY <1>1, CurrentList, RemoveKeeps, Zenon
<1> HIDE DEF L
<1>3. ListsOk(lists') /\ DOMAIN lists' = DOMAIN lists
  BY Zenon, <1>2, EditedLists
<1>4. UNCHANGED <<cur, wanted, config>>
  BY Zenon DEF RemoveCheck
<1>5. ASSUME NEW r \in Requests PROVE Good(req'[r], lists', failSecure)
  <2>1. Good(req[r], lists, failSecure) /\ req[r].at = None
    BY Zenon DEF IInv, RemoveCheck, MayEdit, EditsWhenIdle, InFlight
  <2>2. PICK must \in SUBSET req[r].must : req'[r] = [req[r] EXCEPT !.must = must]
    <3>1. CASE req[r].list = cur
      BY Zenon, <3>1 DEF RemoveCheck
    <3>2. CASE req[r].list # cur
      <4>1. req'[r] = req[r]
        BY Zenon, <3>2 DEF RemoveCheck
      <4>2. req[r] = [req[r] EXCEPT !.must = req[r].must]
        BY Zenon, <2>1 DEF Good, RequestStates
      <4> QED BY Zenon, <4>1, <4>2
    <3> QED BY Zenon, <3>1, <3>2
  <2>3. /\ req'[r] \in RequestStates /\ req'[r].at = None /\ req'[r].ran = req[r].ran
        /\ req'[r].must \subseteq req[r].must /\ req'[r].outcome = req[r].outcome
    BY <2>1, <2>2 DEF Good, RequestStates
  <2> QED BY <2>1, <2>3, Zenon DEF Good
<1>6. DOMAIN req' = Requests
  BY Zenon DEF RemoveCheck
<1>7. failSecure' = failSecure
  BY Zenon, <1>4 DEF config
<1> QED BY Zenon, <1>3, <1>4, <1>5, <1>6, <1>7 DEF IInv

LEMMA StutterKeeps ==
  ASSUME IInv, Reconfigure \/ UNCHANGED vars
  PROVE  IInv'
<1>1. lists' = lists /\ cur' = cur /\ req' = req /\ failSecure' = failSecure
  BY Zenon DEF Reconfigure, vars, pipeline, config
<1>2. wanted' \in Builds
  BY Zenon DEF Reconfigure, vars, pipeline, IInv
<1> QED BY Zenon, <1>1, <1>2 DEF IInv

LEMMA InvHolds == EditsWhenIdle /\ Spec => []IInv
<1> SUFFICES ASSUME EditsWhenIdle PROVE Spec => []IInv
  BY Zenon
<1>1. IInv /\ [Next]_vars => IInv'
  BY ExecuteKeeps, ExecuteRebuildFailsKeeps, StepKeeps, AddCheckKeeps, InsertCheckKeeps,
     RemoveCheckKeeps, StutterKeeps, Zenon DEF Next
<1> QED BY <1>1, InitInv, PTL DEF Spec

-----------------------------------------------------------------------------

\* A request that execute lets through under fail_secure has been passed by
\* every check that applied to it and stayed on the list it walked: for any
\* configurations, any number of requests and rebuilds, failing rebuilds and
\* checks added behind its back included.
THEOREM AdmittedAreChecked == EditsWhenIdle /\ Spec => []AdmittedOnlyIfChecked
<1>1. IInv => AdmittedOnlyIfChecked
  <2> SUFFICES ASSUME IInv, NEW r \in Requests, failSecure, req[r].outcome = "allow"
               PROVE  req[r].must \subseteq Range(req[r].ran)
    BY Zenon DEF AdmittedOnlyIfChecked
  <2>1. Good(req[r], lists, failSecure) /\ req[r].outcome # None
    BY Zenon, BuildsAssumption DEF IInv
  <2> QED BY <2>1, Zenon DEF Good
<1> QED BY <1>1, InvHolds, PTL

\* The loop of execute hands a request to no check twice.
THEOREM ChecksRunOnce == EditsWhenIdle /\ Spec => []NoCheckRunsTwice
<1>1. IInv => NoCheckRunsTwice
  BY Zenon DEF IInv, NoCheckRunsTwice, Good
<1> QED BY <1>1, InvHolds, PTL
=============================================================================
