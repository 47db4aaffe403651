-------------------------- MODULE DiscoveryProofs --------------------------
(* A process that waits for news has the mailbox etcd has, and game 1      *)
(* counts no start of a db_manager twice: TypeOK, MailboxIsCurrent and     *)
(* CountsStartsOfDbs of Discovery, for any processes, watchers,            *)
(* db_managers and faults.                                                 *)
EXTENDS Discovery, Functions, FiniteSetTheorems, WellFoundedInduction, TLAPS

(* A set of numbers that is not empty has a least one: what is true of the *)
(* first and passes from each number to the next is true of all.           *)
LEMMA LeastNat ==
  ASSUME NEW T, T \subseteq Nat, T # {}
  PROVE  \E x \in T : \A y \in T : x <= y
<1>1. \E x \in T : \A y \in T : ~ (<<y, x>> \in OpToRel(<, Nat))
  BY WFMin, NatLessThanWellFounded
<1>2. OpToRel(<, Nat) = {ss \in Nat \X Nat : ss[1] < ss[2]}
  BY Zenon DEF OpToRel
<1>3. \A x \in Nat, y \in Nat : <<y, x>> \in OpToRel(<, Nat) <=> y < x
  BY <1>2, Zenon
<1>4. \E x \in T : \A y \in T : ~ (y < x)
  BY <1>1, <1>3, Zenon
<1> QED
  BY <1>4

-----------------------------------------------------------------------------
(* The element a sum takes next, and the table of the sums over the        *)
(* subsets of S.                                                           *)
Taken(s) == CHOOSE x \in s : TRUE
IsSums(g, f, S) ==
  g = [s \in SUBSET S |-> IF s = {} THEN 0 ELSE f[Taken(s)] + g[s \ {Taken(s)}]]

(* It is one of the set.                                                   *)
LEMMA TakenIsIn == ASSUME NEW s, s # {} PROVE Taken(s) \in s
BY DEF Taken

(* What passes to each set from its proper subsets holds of every subset   *)
(* of a finite set.                                                        *)
LEMMA EverySubset ==
  ASSUME NEW S, IsFiniteSet(S), NEW T,
         \A s \in SUBSET S : (\A t \in SUBSET s : t # s => t \in T) => s \in T
  PROVE  \A s \in SUBSET S : s \in T
<1> DEFINE N == {n \in Nat : \E s \in SUBSET S : s \notin T /\ Cardinality(s) = n}
<1> SUFFICES ASSUME NEW s0 \in SUBSET S, s0 \notin T PROVE FALSE
  OBVIOUS
<1>1. \A s \in SUBSET S : IsFiniteSet(s) /\ Cardinality(s) \in Nat
  BY FS_Subset, FS_CardinalityType
<1>2. N \subseteq Nat /\ N # {}
  BY <1>1
<1>3. PICK n \in N : \A m \in N : n <= m
  <2> HIDE DEF N
  <2> QED
    BY <1>2, LeastNat
<1>4. PICK s \in SUBSET S : s \notin T /\ Cardinality(s) = n
  OBVIOUS
<1>5. PICK t \in SUBSET s : t # s /\ t \notin T
  BY <1>4
<1>6. Cardinality(t) < n /\ t \in SUBSET S
  BY <1>1, <1>4, <1>5, FS_Subset
<1>7. Cardinality(t) \in N
  BY <1>1, <1>5, <1>6
<1> QED
  BY <1>1, <1>3, <1>6, <1>7

(* Two tables agree where both are defined, ...                            *)
LEMMA SumsAgree ==
  ASSUME NEW S, IsFiniteSet(S), NEW R, S \subseteq R, NEW f, NEW g, NEW h,
         IsSums(g, f, S), IsSums(h, f, R)
  PROVE  \A s \in SUBSET S : g[s] = h[s]
<1> DEFINE T == {s \in SUBSET S : g[s] = h[s]}
<1>1. {} \in T
  BY DEF IsSums
<1>2. ASSUME NEW s \in SUBSET S, \A t \in SUBSET s : t # s => t \in T PROVE s \in T
  <2>1. CASE s = {}
    BY <1>1, <2>1
  <2>2. CASE s # {}
    <3>1. Taken(s) \in s /\ s \ {Taken(s)} \in T
      BY <1>2, <2>2, TakenIsIn
    <3>2. g[s] = f[Taken(s)] + g[s \ {Taken(s)}]
      BY <2>2 DEF IsSums
    <3>3. h[s] = f[Taken(s)] + h[s \ {Taken(s)}]
      BY <2>2 DEF IsSums
    <3> QED
      BY <3>1, <3>2, <3>3
  <2> QED
    BY <2>1, <2>2
<1>3. \A s \in SUBSET S : s \in T
  <2> HIDE DEF T
  <2> QED
    BY <1>2, EverySubset
<1> QED
  BY <1>3

(* ... there is one for every finite set, ...                              *)
LEMMA SumsExist ==
  ASSUME NEW S, IsFiniteSet(S), NEW f
  PROVE  \E g : IsSums(g, f, S)
<1> DEFINE T == {s \in SUBSET S : \E g : IsSums(g, f, s)}
           Table(s) == CHOOSE g : IsSums(g, f, s)
<1>1. ASSUME NEW s \in SUBSET S, \A t \in SUBSET s : t # s => t \in T PROVE s \in T
  <2> DEFINE Up(u) == IF u = {} THEN 0
                      ELSE f[Taken(u)] + Table(u \ {Taken(u)})[u \ {Taken(u)}]
             g == [u \in SUBSET s |-> Up(u)]
  <2>1. \A t \in SUBSET s : t # s => IsSums(Table(t), f, t)
    BY <1>1
  <2>2. ASSUME NEW u \in SUBSET s, u # s PROVE g[u] = Table(u)[u]
    <3>1. IsSums(Table(u), f, u)
      BY <2>1, <2>2
    <3>2. CASE u = {}
      BY <3>1, <3>2 DEF IsSums
    <3>3. CASE u # {}
      <4> DEFINE r == u \ {Taken(u)}
      <4>1. r \in SUBSET u /\ r \in SUBSET s /\ r # s
        BY <2>2
      <4>2. IsSums(Table(r), f, r) /\ IsFiniteSet(r)
        BY <2>1, <4>1, FS_Subset
      <4>3. Table(r)[r] = Table(u)[r]
        <5> HIDE DEF Table, r
        <5> QED
          BY <3>1, <4>1, <4>2, SumsAgree
      <4>4. Table(u)[u] = f[Taken(u)] + Table(u)[r]
        <5> HIDE DEF Table
        <5> QED
          BY <3>1, <3>3 DEF IsSums
      <4> QED
        BY <3>3, <4>3, <4>4
    <3> QED
      BY <3>2, <3>3
  <2>3. IsSums(g, f, s)
    <3>1. ASSUME NEW u \in SUBSET s
          PROVE  g[u] = IF u = {} THEN 0 ELSE f[Taken(u)] + g[u \ {Taken(u)}]
      <4>1. CASE u = {}
        BY <4>1
      <4>2. CASE u # {}
        <5>1. Taken(u) \in u /\ u \ {Taken(u)} \in SUBSET s /\ u \ {Taken(u)} # s
          BY <4>2, TakenIsIn
        <5>2. g[u \ {Taken(u)}] = Table(u \ {Taken(u)})[u \ {Taken(u)}]
          BY <2>2, <5>1
        <5> HIDE DEF Table
        <5> QED
          BY <4>2, <5>2
      <4> QED
        BY <4>1, <4>2
    <3>2. g = [u \in SUBSET s |-> g[u]]
      OBVIOUS
    <3> HIDE DEF g
    <3> QED
      BY <3>1, <3>2 DEF IsSums
  <2> QED
    BY <2>3
<1>2. \A s \in SUBSET S : s \in T
  <2> HIDE DEF T
  <2> QED
    BY <1>1, EverySubset
<1> QED
  BY <1>2

(* ... and SumFunctionOnSet looks the sums up in it.                       *)
LEMMA SumsOf ==
  ASSUME NEW S, IsFiniteSet(S), NEW f
  PROVE  \E g : IsSums(g, f, S) /\ \A s \in SUBSET S : SumFunctionOnSet(f, s) = g[s]
<1>1. PICK g : IsSums(g, f, S)
  BY SumsExist
<1>2. ASSUME NEW s \in SUBSET S PROVE SumFunctionOnSet(f, s) = g[s]
  <2>1. SumFunctionOnSet(f, s) = (CHOOSE h : IsSums(h, f, s))[s]
    BY DEF SumFunctionOnSet, FoldFunctionOnSet, MapThenFoldSet, IsSums, Taken
  <2>2. IsFiniteSet(s)
    BY FS_Subset
  <2>3. \E h : IsSums(h, f, s)
    BY <2>2, SumsExist
  <2>4. IsSums(CHOOSE h : IsSums(h, f, s), f, s)
    BY <2>3
  <2>5. \A h : IsSums(h, f, s) => h[s] = g[s]
    BY <1>1, <2>2, SumsAgree
  <2> QED
    BY <2>1, <2>4, <2>5
<1> QED
  BY <1>1, <1>2

(* A sum over a set is the value of its next element and the sum of the    *)
(* others.                                                                 *)
LEMMA SumStep ==
  ASSUME NEW S, IsFiniteSet(S), NEW f
  PROVE  \A s \in SUBSET S :
           /\ s = {} => SumFunctionOnSet(f, s) = 0
           /\ s # {} => /\ Taken(s) \in s
                        /\ SumFunctionOnSet(f, s) =
                             f[Taken(s)] + SumFunctionOnSet(f, s \ {Taken(s)})
<1>1. PICK g : IsSums(g, f, S) /\ \A s \in SUBSET S : SumFunctionOnSet(f, s) = g[s]
  BY SumsOf
<1>2. ASSUME NEW s \in SUBSET S, s # {}
      PROVE  SumFunctionOnSet(f, s) = f[Taken(s)] + SumFunctionOnSet(f, s \ {Taken(s)})
  <2>1. s \ {Taken(s)} \in SUBSET S
    OBVIOUS
  <2>2. g[s] = f[Taken(s)] + g[s \ {Taken(s)}]
    BY <1>1, <1>2 DEF IsSums
  <2> QED
    BY <1>1, <2>1, <2>2
<1>3. ASSUME NEW s \in SUBSET S, s = {} PROVE SumFunctionOnSet(f, s) = 0
  BY <1>1, <1>3 DEF IsSums
<1> QED
  BY <1>2, <1>3, TakenIsIn

(* Sums of numbers compare as the numbers do.                              *)
LEMMA SumsCompare ==
  ASSUME NEW S, IsFiniteSet(S), NEW f, NEW g, NEW h,
         \A x \in S : f[x] \in Nat /\ g[x] \in Nat /\ h[x] \in Nat /\ f[x] + g[x] <= h[x]
  PROVE  SumFunctionOnSet(f, S) + SumFunctionOnSet(g, S) <= SumFunctionOnSet(h, S)
<1> DEFINE F(s) == SumFunctionOnSet(f, s)
           G(s) == SumFunctionOnSet(g, s)
           H(s) == SumFunctionOnSet(h, s)
           T == {s \in SUBSET S : F(s) \in Nat /\ G(s) \in Nat /\ H(s) \in Nat /\ F(s) + G(s) <= H(s)}
<1>1. ASSUME NEW s \in SUBSET S, \A t \in SUBSET s : t # s => t \in T PROVE s \in T
  <2>1. CASE s = {}
    <3>1. F(s) = 0 /\ G(s) = 0 /\ H(s) = 0
      BY <2>1, SumStep
    <3> QED
      BY <3>1
  <2>2. CASE s # {}
    <3> DEFINE x == Taken(s)
               r == s \ {x}
    <3>1. /\ x \in s /\ F(s) = f[x] + F(r) /\ G(s) = g[x] + G(r) /\ H(s) = h[x] + H(r)
      BY <2>2, SumStep
    <3>2. r \in T
      BY <1>1, <3>1
    <3>3. F(r) \in Nat /\ G(r) \in Nat /\ H(r) \in Nat /\ F(r) + G(r) <= H(r)
      BY <3>2
    <3>4. f[x] \in Nat /\ g[x] \in Nat /\ h[x] \in Nat /\ f[x] + g[x] <= h[x]
      BY <3>1
    <3> HIDE DEF F, G, H, x, r
    <3>5. F(s) \in Nat /\ G(s) \in Nat /\ H(s) \in Nat /\ F(s) + G(s) <= H(s)
      BY <3>1, <3>3, <3>4
    <3> QED
      BY <3>5
  <2> QED
    BY <2>1, <2>2
<1>2. \A s \in SUBSET S : s \in T
  <2> HIDE DEF T
  <2> QED
    BY <1>1, EverySubset
<1> QED
  BY <1>2

(* One more at one place is one more in the sum.                           *)
LEMMA SumsDiffer ==
  ASSUME NEW S, IsFiniteSet(S), NEW f, NEW g, NEW d \in S, g[d] = f[d] + 1,
         \A x \in S : f[x] \in Nat /\ (x # d => g[x] = f[x])
  PROVE  SumFunctionOnSet(g, S) = SumFunctionOnSet(f, S) + 1
<1> DEFINE F(s) == SumFunctionOnSet(f, s)
           G(s) == SumFunctionOnSet(g, s)
           T == {s \in SUBSET S : F(s) \in Nat /\ G(s) = F(s) + IF d \in s THEN 1 ELSE 0}
<1>1. ASSUME NEW s \in SUBSET S, \A t \in SUBSET s : t # s => t \in T PROVE s \in T
  <2>1. CASE s = {}
    <3>1. F(s) = 0 /\ G(s) = 0
      BY <2>1, SumStep
    <3> QED
      BY <2>1, <3>1
  <2>2. CASE s # {}
    <3> DEFINE x == Taken(s)
               r == s \ {x}
    <3>1. /\ x \in s /\ F(s) = f[x] + F(r) /\ G(s) = g[x] + G(r)
      BY <2>2, SumStep
    <3>2. r \in T
      BY <1>1, <3>1
    <3>3. F(r) \in Nat /\ G(r) = F(r) + IF d \in r THEN 1 ELSE 0
      BY <3>2
    <3>4. /\ f[x] \in Nat /\ (x # d => g[x] = f[x]) /\ (x = d => g[x] = f[x] + 1)
          /\ (x = d => d \notin r /\ d \in s) /\ (x # d => (d \in r <=> d \in s))
      BY <3>1
    <3> HIDE DEF F, G, x, r
    <3>5. F(s) \in Nat /\ G(s) = F(s) + IF d \in s THEN 1 ELSE 0
      BY <3>1, <3>3, <3>4
    <3> QED
      BY <3>5
  <2> QED
    BY <2>1, <2>2
<1>2. \A s \in SUBSET S : s \in T
  <2> HIDE DEF T
  <2> QED
    BY <1>1, EverySubset
<1> QED
  BY <1>2

(* A sum of nothing but zeros.                                             *)
LEMMA SumOfZeros ==
  ASSUME NEW S, IsFiniteSet(S), NEW f, \A x \in S : f[x] = 0
  PROVE  SumFunctionOnSet(f, S) = 0
<1> DEFINE F(s) == SumFunctionOnSet(f, s)
           T == {s \in SUBSET S : F(s) = 0}
<1>1. ASSUME NEW s \in SUBSET S, \A t \in SUBSET s : t # s => t \in T PROVE s \in T
  <2>1. CASE s = {}
    BY <2>1, SumStep
  <2>2. CASE s # {}
    <3> DEFINE x == Taken(s)
               r == s \ {x}
    <3>1. x \in s /\ F(s) = f[x] + F(r)
      BY <2>2, SumStep
    <3>2. r \in T
      BY <1>1, <3>1
    <3> QED
      BY <3>1, <3>2
  <2> QED
    BY <2>1, <2>2
<1>2. \A s \in SUBSET S : s \in T
  <2> HIDE DEF T
  <2> QED
    BY <1>1, EverySubset
<1> QED
  BY <1>2

-----------------------------------------------------------------------------
(* The value of game 1's key after the first k events of h.                *)
IsStubAt(h, s, k) ==
  \/ s = NULL /\ \A i \in 1..k : h[i].proc # StubProc
  \/ \E i \in 1..k : /\ h[i].proc = StubProc /\ s = h[i].value
                     /\ \A j \in 1..k : i < j => h[j].proc # StubProc

(* What a mailbox may be when the key of game 1 has the value s.           *)
Agrees(box, s) ==
  \/ s = NULL /\ box = NULL
  \/ s # NULL /\ s.stubs > 0 /\ box = s
  \/ s # NULL /\ ~(s.stubs > 0) /\ (box = NULL \/ box.inc < s.inc)

(* The values of game 1, those stored by the events of h and then those of *)
(* the requests q on their way, come in the order of its n starts, and in  *)
(* each start first without stubs.                                         *)
Before(v, x) == v.inc <= x.inc /\ (v.stubs > 0 /\ ~(x.stubs > 0) => v.inc < x.inc)
Stores(e)    == e.proc = StubProc /\ e.value # NULL
InOrder(h, q, n) ==
  /\ \A i \in DOMAIN h : h[i].action = "set" <=> h[i].value # NULL
  /\ \A i \in DOMAIN h : Stores(h[i]) => h[i].value.inc <= n
  /\ \A i \in DOMAIN q : q[i].inc <= n
  /\ \A i, j \in DOMAIN h :
       i < j /\ Stores(h[i]) /\ Stores(h[j]) => Before(h[i].value, h[j].value)
  /\ \A i \in DOMAIN h, j \in DOMAIN q : Stores(h[i]) => Before(h[i].value, q[j])
  /\ \A i, j \in DOMAIN q : i < j => Before(q[i], q[j])

RunningWereStarted ==
  /\ \A p \in Procs : up[p] => inc[p] > 0
  /\ \A w \in Watchers : chain[w] # "idle" => up[w]
  /\ \A d \in Dbs : dialled[d] > 0 => up[StubProc]
  /\ cached => up[StubProc] /\ stubs > 0

StoredInOrder == InOrder(history, puts[StubProc], inc[StubProc])

StoreIsLast == IsStubAt(history, store[StubProc], Len(history))

(* A process knows of game 1 what etcd had at the index it has seen, ...   *)
ViewsAgree ==
  \A w \in Watchers :
    /\ \E s \in Values \cup {NULL} : IsStubAt(history, s, waitIndex[w]) /\ Agrees(mailbox[w], s)
    /\ chain[w] \in {"idle", "all"} => mailbox[w] = NULL

(* ... and an answer is either all there was at its index or the event     *)
(* after that index.                                                       *)
IsListing(a, w) ==
  /\ a.action = "set" /\ mailbox[w] = NULL /\ a.index \in 0..Len(history)
  /\ \E s \in Values \cup {NULL} :
       /\ IsStubAt(history, s, a.index)
       /\ s = NULL => StubProc \notin DOMAIN a.values
       /\ s # NULL => StubProc \in DOMAIN a.values /\ a.values[StubProc] = s

IsNews(a, w) ==
  /\ a.index = waitIndex[w] + 1 /\ a.index \in 1..Len(history)
  /\ LET e == history[a.index] IN
       \/ e.action = "set" /\ a.action = "set" /\ a.values = [p \in {e.proc} |-> e.value]
       \/ e.action = "expire" /\ a.action = "expire" /\ a.proc = e.proc

AnswersAreSound ==
  \A w \in Watchers : chain[w] = "answered" => IsListing(answer[w], w) \/ IsNews(answer[w], w)

DInv == /\ RunningWereStarted /\ StoredInOrder /\ StoreIsLast
        /\ ViewsAgree /\ AnswersAreSound

-----------------------------------------------------------------------------
(* One value at a time, and what a further event does to it.               *)
LEMMA StubAtIsUnique ==
  ASSUME NEW h, NEW k \in Nat, NEW s, NEW t, IsStubAt(h, s, k), IsStubAt(h, t, k)
  PROVE  s = t
<1>1. CASE \A i \in 1..k : h[i].proc # StubProc
  BY <1>1 DEF IsStubAt
<1>2. CASE \E i \in 1..k : h[i].proc = StubProc
  <2>1. PICK i \in 1..k : /\ h[i].proc = StubProc /\ s = h[i].value
                          /\ \A n \in 1..k : i < n => h[n].proc # StubProc
    BY <1>2 DEF IsStubAt
  <2>2. PICK j \in 1..k : /\ h[j].proc = StubProc /\ t = h[j].value
                          /\ \A n \in 1..k : j < n => h[n].proc # StubProc
    BY <1>2 DEF IsStubAt
  <2>3. ~(i < j) /\ ~(j < i)
    BY <2>1, <2>2
  <2>4. i = j
    BY <2>3
  <2> QED
    BY <2>1, <2>2, <2>4
<1> QED
  BY <1>1, <1>2

LEMMA StubAtStays ==
  ASSUME NEW S, NEW h \in Seq(S), NEW e, NEW k \in 0..Len(h), NEW s, IsStubAt(h, s, k)
  PROVE  IsStubAt(Append(h, e), s, k)
<1>1. \A i \in 1..k : Append(h, e)[i] = h[i]
  OBVIOUS
<1> QED
  BY <1>1 DEF IsStubAt

LEMMA StubAtNext ==
  ASSUME NEW h, NEW k \in Nat, NEW s, IsStubAt(h, s, k)
  PROVE  /\ h[k + 1].proc = StubProc => IsStubAt(h, h[k + 1].value, k + 1)
         /\ h[k + 1].proc # StubProc => IsStubAt(h, s, k + 1)
<1>1. /\ k + 1 \in 1..k + 1 /\ \A i \in 1..k + 1 : i \in 1..k \/ i = k + 1
      /\ \A i \in 1..k : i \in 1..k + 1 /\ ~(k + 1 < i)
      /\ \A j \in 1..k + 1 : ~(k + 1 < j)
  OBVIOUS
<1>2. h[k + 1].proc = StubProc => IsStubAt(h, h[k + 1].value, k + 1)
  BY <1>1 DEF IsStubAt
<1>3. h[k + 1].proc # StubProc => IsStubAt(h, s, k + 1)
  <2> SUFFICES ASSUME h[k + 1].proc # StubProc PROVE IsStubAt(h, s, k + 1)
    OBVIOUS
  <2>1. CASE s = NULL /\ \A i \in 1..k : h[i].proc # StubProc
    BY <1>1, <2>1 DEF IsStubAt
  <2>2. CASE \E i \in 1..k : /\ h[i].proc = StubProc /\ s = h[i].value
                             /\ \A j \in 1..k : i < j => h[j].proc # StubProc
    <3>1. PICK i \in 1..k : /\ h[i].proc = StubProc /\ s = h[i].value
                            /\ \A j \in 1..k : i < j => h[j].proc # StubProc
      BY <2>2
    <3>2. \A j \in 1..k + 1 : i < j => h[j].proc # StubProc
      BY <1>1, <3>1
    <3> QED
      BY <1>1, <3>1, <3>2 DEF IsStubAt
  <2> QED
    BY <2>1, <2>2 DEF IsStubAt
<1> QED
  BY <1>2, <1>3

-----------------------------------------------------------------------------
(* The order of the values, when one is lost, stored or requested.         *)
Events == [action : {"set", "expire"}, proc : Procs, value : Values \cup {NULL}]

LEMMA NextIsLost ==
  ASSUME NEW h, NEW q \in Seq(Values), NEW n, InOrder(h, q, n), q # <<>>
  PROVE  InOrder(h, Tail(q), n)
<1>1. \A i \in DOMAIN Tail(q) : i + 1 \in DOMAIN q /\ Tail(q)[i] = q[i + 1]
  OBVIOUS
<1>2. \A i, j \in DOMAIN Tail(q) : i < j => i + 1 < j + 1
  OBVIOUS
<1> QED
  BY <1>1, <1>2 DEF InOrder

LEMMA NextIsStored ==
  ASSUME NEW h \in Seq(Events), NEW q \in Seq(Values), NEW n, InOrder(h, q, n), q # <<>>,
         NEW e, e = [action |-> "set", proc |-> StubProc, value |-> Head(q)]
  PROVE  InOrder(Append(h, e), Tail(q), n)
<1>1. /\ \A i \in DOMAIN Tail(q) : i + 1 \in DOMAIN q /\ Tail(q)[i] = q[i + 1] /\ 1 < i + 1
      /\ \A i, j \in DOMAIN Tail(q) : i < j => i + 1 < j + 1
      /\ 1 \in DOMAIN q /\ q[1] = Head(q) /\ q[1] \in Values
  OBVIOUS
<1>2. /\ \A i \in DOMAIN Append(h, e) : \/ i \in DOMAIN h /\ Append(h, e)[i] = h[i]
                                        \/ i = Len(h) + 1 /\ Append(h, e)[i] = e
      /\ \A i \in DOMAIN h : i < Len(h) + 1
      /\ ~(Len(h) + 1 < Len(h) + 1) /\ \A i \in DOMAIN h : ~(Len(h) + 1 < i)
  OBVIOUS
<1>3. e.action = "set" /\ e.value = q[1] /\ e.value # NULL /\ Stores(e)
  BY <1>1, NullAssumption DEF Stores
<1> DEFINE g == Append(h, e)
           r == Tail(q)
<1>4. \A i \in DOMAIN g : g[i].action = "set" <=> g[i].value # NULL
  BY <1>2, <1>3 DEF InOrder
<1>5. \A i \in DOMAIN g : Stores(g[i]) => g[i].value.inc <= n
  BY <1>1, <1>2, <1>3 DEF InOrder
<1>6. \A i \in DOMAIN r : r[i].inc <= n
  BY <1>1 DEF InOrder
<1>7. ASSUME NEW i \in DOMAIN g, NEW j \in DOMAIN g, i < j, Stores(g[i]), Stores(g[j])
      PROVE  Before(g[i].value, g[j].value)
  <2>1. i \in DOMAIN h /\ g[i] = h[i]
    BY <1>2, <1>7
  <2>2. CASE j \in DOMAIN h /\ g[j] = h[j]
    BY <1>7, <2>1, <2>2 DEF InOrder
  <2>3. CASE g[j] = e
    BY <1>1, <1>3, <1>7, <2>1, <2>3 DEF InOrder
  <2> QED
    BY <1>2, <2>2, <2>3
<1>8. ASSUME NEW i \in DOMAIN g, NEW j \in DOMAIN r, Stores(g[i]) PROVE Before(g[i].value, r[j])
  <2>1. j + 1 \in DOMAIN q /\ r[j] = q[j + 1] /\ 1 < j + 1
    BY <1>1
  <2>2. CASE i \in DOMAIN h /\ g[i] = h[i]
    BY <1>8, <2>1, <2>2 DEF InOrder
  <2>3. CASE g[i] = e
    BY <1>1, <1>3, <2>1, <2>3 DEF InOrder
  <2> QED
    BY <1>2, <2>2, <2>3
<1>9. \A i, j \in DOMAIN r : i < j => Before(r[i], r[j])
  BY <1>1 DEF InOrder
<1> QED
  BY <1>4, <1>5, <1>6, <1>7, <1>8, <1>9 DEF InOrder

LEMMA OtherIsStored ==
  ASSUME NEW h \in Seq(Events), NEW q, NEW n, InOrder(h, q, n),
         NEW e, e.action = "set" <=> e.value # NULL, e.proc # StubProc \/ e.value = NULL
  PROVE  InOrder(Append(h, e), q, n)
<1>1. /\ \A i \in DOMAIN Append(h, e) : \/ i \in DOMAIN h /\ Append(h, e)[i] = h[i]
                                        \/ i = Len(h) + 1 /\ Append(h, e)[i] = e
  OBVIOUS
<1>2. ~Stores(e)
  BY DEF Stores
<1> DEFINE g == Append(h, e)
<1> HIDE DEF g
<1>3. \A i \in DOMAIN g : g[i].action = "set" <=> g[i].value # NULL
  BY <1>1 DEF InOrder, g
<1>4. \A i \in DOMAIN g : Stores(g[i]) => i \in DOMAIN h /\ g[i] = h[i]
  BY <1>1, <1>2 DEF g
<1> QED
  BY <1>3, <1>4 DEF InOrder, g

LEMMA NextIsRequested ==
  ASSUME NEW h, NEW q \in Seq(Values), NEW n \in Nat, InOrder(h, q, n),
         \A i \in DOMAIN h : h[i].value # NULL => h[i].value \in Values,
         NEW v \in Values, v.inc >= n, v.stubs > 0 \/ v.inc > n
  PROVE  InOrder(h, Append(q, v), v.inc)
<1>1. /\ \A i \in DOMAIN Append(q, v) : \/ i \in DOMAIN q /\ Append(q, v)[i] = q[i]
                                        \/ i = Len(q) + 1 /\ Append(q, v)[i] = v
      /\ \A i \in DOMAIN q : i < Len(q) + 1 /\ q[i] \in Values
      /\ ~(Len(q) + 1 < Len(q) + 1) /\ \A i \in DOMAIN q : ~(Len(q) + 1 < i)
  OBVIOUS
<1>2. ASSUME NEW x \in Values, x.inc <= n PROVE Before(x, v) /\ x.inc <= v.inc
  <2>1. x.inc \in Nat /\ v.inc \in Nat
    BY DEF Values
  <2> QED
    BY <1>2, <2>1 DEF Before
<1> DEFINE r == Append(q, v)
<1>3. v.inc <= v.inc
  BY DEF Values
<1>4. ASSUME NEW i \in DOMAIN h, Stores(h[i]) PROVE h[i].value.inc <= v.inc /\ Before(h[i].value, v)
  BY <1>2, <1>4 DEF InOrder, Stores
<1>5. ASSUME NEW i \in DOMAIN q PROVE q[i].inc <= v.inc /\ Before(q[i], v)
  BY <1>1, <1>2 DEF InOrder
<1>6. \A i \in DOMAIN r : r[i].inc <= v.inc
  BY <1>1, <1>3, <1>5
<1>7. ASSUME NEW i \in DOMAIN h, NEW j \in DOMAIN r, Stores(h[i]) PROVE Before(h[i].value, r[j])
  <2>1. CASE j \in DOMAIN q /\ r[j] = q[j]
    BY <1>7, <2>1 DEF InOrder
  <2>2. CASE r[j] = v
    BY <1>4, <1>7, <2>2
  <2> QED
    BY <1>1, <2>1, <2>2
<1>8. ASSUME NEW i \in DOMAIN r, NEW j \in DOMAIN r, i < j PROVE Before(r[i], r[j])
  <2>1. i \in DOMAIN q /\ r[i] = q[i]
    BY <1>1, <1>8
  <2>2. CASE j \in DOMAIN q /\ r[j] = q[j]
    BY <1>8, <2>1, <2>2 DEF InOrder
  <2>3. CASE r[j] = v
    BY <1>5, <2>1, <2>3
  <2> QED
    BY <1>1, <2>2, <2>3
<1> QED
  BY <1>4, <1>6, <1>7, <1>8 DEF InOrder

-----------------------------------------------------------------------------
(* A step that sends nothing to etcd and hears nothing from it.            *)
LEMMA QuietStep ==
  ASSUME TypeOK, DInv, TypeOK', RunningWereStarted', StoredInOrder',
         UNCHANGED <<history, waitIndex, mailbox, answer>>, store'[StubProc] = store[StubProc],
         \A w \in Watchers : chain'[w] = chain[w] \/ chain'[w] = "ended"
                               \/ (chain[w] = "idle" /\ chain'[w] = "all")
  PROVE  DInv'
<1>1. StoreIsLast'
  BY DEF DInv, StoreIsLast
<1>2. ViewsAgree'
  BY DEF DInv, ViewsAgree
<1>3. AnswersAreSound'
  BY DEF DInv, AnswersAreSound, IsListing, IsNews
<1> QED
  BY <1>1, <1>2, <1>3 DEF DInv

(* An event of etcd: what the processes know of it so far is still true.   *)
LEMMA EventStep ==
  ASSUME TypeOK, DInv, NEW p \in Procs, NEW v \in Values \cup {NULL},
         NEW e, e.proc = p, e.value = v, history' = Append(history, e),
         store' = [store EXCEPT ![p] = v], UNCHANGED viewVars
  PROVE  StoreIsLast' /\ ViewsAgree' /\ AnswersAreSound'
<1>1. PICK n \in Nat : n = Len(history)
  BY DEF TypeOK
<1>2. history \in Seq(Events) /\ store \in [Procs -> Values \cup {NULL}] /\ StubProc \in Procs
  BY DiscoveryAssumption DEF TypeOK, Events
<1>3. PICK h : h = Append(history, e)
  OBVIOUS
<1>4. /\ Len(h) = n + 1 /\ h[n + 1] = e /\ history' = h
      /\ \A i \in 1..n : h[i] = history[i]
  BY <1>1, <1>2, <1>3
<1>5. \A k \in 0..n : \A s : IsStubAt(history, s, k) => IsStubAt(h, s, k)
  BY <1>1, <1>2, <1>3, StubAtStays
<1>6. StoreIsLast'
  <2>1. IsStubAt(h, store[StubProc], n)
    BY <1>1, <1>5 DEF DInv, StoreIsLast
  <2>2. /\ e.proc = StubProc => IsStubAt(h, e.value, n + 1)
        /\ e.proc # StubProc => IsStubAt(h, store[StubProc], n + 1)
    BY <1>4, <2>1, StubAtNext
  <2>3. IsStubAt(h, store'[StubProc], n + 1)
    BY <1>2, <2>2
  <2> QED
    BY <1>4, <2>3 DEF StoreIsLast
<1>7. UNCHANGED <<chain, answer, waitIndex, mailbox>>
  BY DEF viewVars
<1>8. ViewsAgree'
  <2> SUFFICES ASSUME NEW w \in Watchers
               PROVE  /\ \E s \in Values \cup {NULL} : IsStubAt(h, s, waitIndex[w]) /\ Agrees(mailbox[w], s)
                      /\ chain[w] \in {"idle", "all"} => mailbox[w] = NULL
    BY <1>4, <1>7 DEF ViewsAgree
  <2>1. waitIndex[w] \in 0..n
    BY <1>1 DEF TypeOK
  <2> QED
    BY <1>5, <2>1 DEF DInv, ViewsAgree
<1>9. AnswersAreSound'
  <2> SUFFICES ASSUME NEW w \in Watchers, chain[w] = "answered"
               PROVE  IsListing(answer[w], w)' \/ IsNews(answer[w], w)'
    BY <1>7 DEF AnswersAreSound
  <2>1. CASE IsListing(answer[w], w)
    <3>1. answer[w].index \in 0..n /\ answer[w].index \in 0..n + 1
      BY <1>1, <2>1 DEF IsListing
    <3> QED
      BY <1>4, <1>5, <1>7, <2>1, <3>1 DEF IsListing
  <2>2. CASE IsNews(answer[w], w)
    <3>1. answer[w].index \in 1..n /\ answer[w].index \in 1..n + 1
      BY <1>1, <2>2 DEF IsNews
    <3>2. h[answer[w].index] = history[answer[w].index]
      BY <1>4, <3>1
    <3> QED
      BY <1>4, <1>7, <2>2, <3>1, <3>2 DEF IsNews
  <2> QED
    BY <2>1, <2>2 DEF DInv, AnswersAreSound
<1> QED
  BY <1>6, <1>8, <1>9

-----------------------------------------------------------------------------
(* One lemma per action.                                                   *)
LEMMA StubIsAProcess == StubProc \in Procs /\ StubProc \in Watchers /\ Watchers \subseteq Procs
                        /\ StubProc \notin Dbs /\ Dbs \subseteq Procs
BY DiscoveryAssumption

LEMMA EventsAreTyped ==
  ASSUME TypeOK
  PROVE  /\ history \in Seq(Events) /\ puts[StubProc] \in Seq(Values) /\ inc[StubProc] \in Nat
         /\ \A i \in DOMAIN history : history[i] \in Events
         /\ \A i \in DOMAIN history : history[i].value # NULL => history[i].value \in Values
<1>1. history \in Seq(Events) /\ puts[StubProc] \in Seq(Values) /\ inc[StubProc] \in Nat
  BY StubIsAProcess DEF TypeOK, Events
<1>2. \A i \in DOMAIN history : history[i] \in Events
  BY <1>1
<1> QED
  BY <1>1, <1>2 DEF Events

LEMMA RequestedInOrder ==
  ASSUME TypeOK, StoredInOrder, NEW v \in Values, v.inc >= inc[StubProc],
         v.stubs > 0 \/ v.inc > inc[StubProc]
  PROVE  InOrder(history, Append(puts[StubProc], v), v.inc)
BY EventsAreTyped, NextIsRequested DEF StoredInOrder

LEMMA StartKeeps ==
  ASSUME TypeOK, DInv, NEW p \in Procs, Start(p)
  PROVE  TypeOK' /\ DInv'
<1> USE DEF viewVars, gameVars, etcdVars
<1> DEFINE v == [inc |-> inc[p] + 1, stubs |-> 0]
<1>1. v \in Values
  BY DEF TypeOK, Values
<1>2. TypeOK'
  <2>1. puts' \in [Procs -> Seq(Values)]
    BY <1>1 DEF TypeOK, Start
  <2> QED
    BY <2>1 DEF TypeOK, Start
<1>3. RunningWereStarted'
  <2>1. \A q \in Procs : up'[q] => inc'[q] > 0
    BY DEF DInv, RunningWereStarted, TypeOK, Start
  <2>2. \A q \in Procs : up[q] => up'[q]
    BY DEF TypeOK, Start
  <2> QED
    BY <2>1, <2>2, StubIsAProcess DEF DInv, RunningWereStarted, Start
<1>4. StoredInOrder'
  <2>1. CASE p = StubProc
    <3>1. v.inc = inc[StubProc] + 1 /\ v.inc >= inc[StubProc] /\ v.inc > inc[StubProc]
      BY <2>1, EventsAreTyped
    <3>2. InOrder(history, Append(puts[StubProc], v), v.inc)
      BY <1>1, <3>1, RequestedInOrder DEF DInv
    <3>3. /\ history' = history /\ puts'[StubProc] = Append(puts[StubProc], v)
          /\ inc'[StubProc] = v.inc
      BY <2>1, StubIsAProcess DEF TypeOK, Start
    <3> QED
      BY <3>2, <3>3 DEF StoredInOrder
  <2>2. CASE p # StubProc
    BY <2>2, StubIsAProcess DEF DInv, StoredInOrder, TypeOK, Start
  <2> QED
    BY <2>1, <2>2
<1> QED
  BY <1>2, <1>3, <1>4, QuietStep DEF Start

LEMMA CrashKeeps ==
  ASSUME TypeOK, DInv, NEW p \in Procs, Crash(p)
  PROVE  TypeOK' /\ DInv'
<1> USE DEF viewVars, gameVars, etcdVars
<1>1. /\ UNCHANGED <<inc, puts, store, history>> /\ up' = [up EXCEPT ![p] = FALSE]
      /\ faults < MaxFault /\ faults' = faults + 1
      /\ \A w \in Watchers : w # p =>
           UNCHANGED <<chain[w], answer[w], waitIndex[w], mailbox[w]>>
      /\ p \in Watchers => /\ chain'[p] = "idle" /\ answer'[p] = NULL
                           /\ waitIndex'[p] = 0 /\ mailbox'[p] = NULL
      /\ p = StubProc => stubs' = 0 /\ cached' = FALSE /\ dialled' = [d \in Dbs |-> 0] /\ dbNum' = 0
      /\ p # StubProc => UNCHANGED <<stubs, cached, dialled, dbNum>>
  <2>1. CASE p \in Watchers
    <3>1. /\ chain' = [chain EXCEPT ![p] = "idle"] /\ answer' = [answer EXCEPT ![p] = NULL]
          /\ waitIndex' = [waitIndex EXCEPT ![p] = 0] /\ mailbox' = [mailbox EXCEPT ![p] = NULL]
      BY <2>1 DEF Crash
    <3> QED
      BY <2>1, <3>1 DEF Crash, Fault, TypeOK
  <2>2. CASE p \notin Watchers
    BY <2>2, StubIsAProcess DEF Crash, Fault
  <2> QED
    BY <2>1, <2>2
<1>2. TypeOK'
  <2>1. \A w \in Watchers : chain'[w] \in {"idle", "all", "one", "answered", "ended"}
                            /\ waitIndex'[w] \in 0..Len(history) /\ mailbox'[w] \in Values \cup {NULL}
    <3> SUFFICES ASSUME NEW w \in Watchers
                 PROVE  /\ chain'[w] \in {"idle", "all", "one", "answered", "ended"}
                        /\ waitIndex'[w] \in 0..Len(history) /\ mailbox'[w] \in Values \cup {NULL}
      OBVIOUS
    <3>1. Len(history) \in Nat
      BY EventsAreTyped
    <3>2. CASE w = p
      BY <1>1, <3>1, <3>2
    <3>3. CASE w # p
      BY <1>1, <3>3 DEF TypeOK
    <3> QED
      BY <3>2, <3>3
  <2>2. \A w \in Watchers : IF chain'[w] = "answered" THEN \E S \in SUBSET Procs : answer'[w] \in Answers(S)
                            ELSE answer'[w] = NULL
    BY <1>1 DEF TypeOK
  <2>3. /\ chain' \in [Watchers -> {"idle", "all", "one", "answered", "ended"}]
        /\ waitIndex' \in [Watchers -> 0..Len(history)] /\ mailbox' \in [Watchers -> Values \cup {NULL}]
        /\ DOMAIN answer' = Watchers
    BY <2>1 DEF Crash, TypeOK
  <2>4. /\ stubs' \in Nat /\ cached' \in BOOLEAN /\ dialled' \in [Dbs -> Nat] /\ dbNum' \in Nat
    <3>1. CASE p = StubProc
      <4>1. stubs' = 0 /\ cached' = FALSE /\ dialled' = [d \in Dbs |-> 0] /\ dbNum' = 0
        BY <1>1, <3>1
      <4> QED
        BY <4>1
    <3>2. CASE p # StubProc
      BY <1>1, <3>2 DEF TypeOK
    <3> QED
      BY <3>1, <3>2
  <2>5. up' \in [Procs -> BOOLEAN] /\ faults' \in 0..MaxFault
    BY <1>1, DiscoveryAssumption DEF TypeOK
  <2> QED
    BY <1>1, <2>2, <2>3, <2>4, <2>5 DEF TypeOK
<1>3. RunningWereStarted'
  <2>1. \A q \in Procs : up'[q] => up[q] /\ inc'[q] = inc[q]
    BY <1>1 DEF TypeOK
  <2>2. \A q \in Procs : up[q] /\ q # p => up'[q]
    BY <1>1 DEF TypeOK
  <2>3. \A w \in Watchers : chain'[w] # "idle" => up'[w]
    BY <1>1, <2>2, StubIsAProcess DEF DInv, RunningWereStarted
  <2> QED
    BY <1>1, <2>1, <2>2, <2>3, StubIsAProcess DEF DInv, RunningWereStarted
<1>4. StoredInOrder' /\ StoreIsLast'
  BY <1>1 DEF DInv, StoredInOrder, StoreIsLast
<1>5. ViewsAgree'
  <2> SUFFICES ASSUME NEW w \in Watchers
               PROVE  /\ \E s \in Values \cup {NULL} : IsStubAt(history, s, waitIndex'[w]) /\ Agrees(mailbox'[w], s)
                      /\ chain'[w] \in {"idle", "all"} => mailbox'[w] = NULL
    BY <1>1 DEF ViewsAgree
  <2>1. CASE w # p
    BY <1>1, <2>1 DEF DInv, ViewsAgree
  <2>2. CASE w = p
    <3>1. IsStubAt(history, NULL, 0)
      BY DEF IsStubAt
    <3> QED
      BY <1>1, <2>2, <3>1 DEF Agrees
  <2> QED
    BY <2>1, <2>2
<1>6. AnswersAreSound'
  BY <1>1 DEF DInv, AnswersAreSound, IsListing, IsNews
<1> QED
  BY <1>2, <1>3, <1>4, <1>5, <1>6 DEF DInv

LEMMA PutKeeps ==
  ASSUME TypeOK, DInv, NEW p \in Procs, Put(p)
  PROVE  TypeOK' /\ DInv'
<1> USE DEF viewVars, gameVars, etcdVars
<1> DEFINE v == Head(puts[p])
           e == [action |-> "set", proc |-> p, value |-> v]
<1>1. v \in Values /\ Tail(puts[p]) \in Seq(Values) /\ puts[p] \in Seq(Values) /\ e \in Events
  BY DEF TypeOK, Put, Events
<1>2. history' \in Seq(Events) /\ Len(history') = Len(history) + 1 /\ Len(history) \in Nat
  BY <1>1, EventsAreTyped DEF Put
<1>3. TypeOK'
  <2>1. waitIndex' \in [Watchers -> 0..Len(history')]
    BY <1>2 DEF TypeOK, Put
  <2> QED
    BY <1>1, <1>2, <2>1 DEF TypeOK, Put, Events
<1>4. RunningWereStarted'
  BY DEF DInv, RunningWereStarted, Put
<1>5. StoredInOrder'
  <2>1. CASE p = StubProc
    <3>1. InOrder(Append(history, e), Tail(puts[StubProc]), inc[StubProc])
      BY <1>1, <2>1, EventsAreTyped, NextIsStored DEF DInv, StoredInOrder, Put
    <3> QED
      BY <2>1, <3>1, StubIsAProcess DEF StoredInOrder, TypeOK, Put
  <2>2. CASE p # StubProc
    <3>1. v # NULL
      BY <1>1, NullAssumption
    <3>2. InOrder(Append(history, e), puts[StubProc], inc[StubProc])
      BY <2>2, <3>1, EventsAreTyped, OtherIsStored DEF DInv, StoredInOrder
    <3> QED
      BY <2>2, <3>2, StubIsAProcess DEF StoredInOrder, TypeOK, Put
  <2> QED
    BY <2>1, <2>2
<1>6. StoreIsLast' /\ ViewsAgree' /\ AnswersAreSound'
  BY <1>1, EventStep DEF Put
<1> QED
  BY <1>3, <1>4, <1>5, <1>6 DEF DInv

LEMMA PutFailsKeeps ==
  ASSUME TypeOK, DInv, NEW p \in Procs, PutFails(p)
  PROVE  TypeOK' /\ DInv'
<1> USE DEF viewVars, gameVars, etcdVars
<1>1. TypeOK'
  <2>1. faults' \in 0..MaxFault
    BY DiscoveryAssumption DEF TypeOK, PutFails, Fault
  <2>2. puts' \in [Procs -> Seq(Values)]
    BY DEF TypeOK, PutFails
  <2> QED
    BY <2>1, <2>2 DEF TypeOK, PutFails
<1>2. RunningWereStarted'
  BY DEF DInv, RunningWereStarted, PutFails
<1>3. StoredInOrder'
  <2>1. CASE p = StubProc
    <3>1. InOrder(history, Tail(puts[StubProc]), inc[StubProc])
      BY <2>1, EventsAreTyped, NextIsLost DEF DInv, StoredInOrder, PutFails
    <3> QED
      BY <2>1, <3>1, StubIsAProcess DEF StoredInOrder, TypeOK, PutFails
  <2>2. CASE p # StubProc
    BY <2>2, StubIsAProcess DEF DInv, StoredInOrder, TypeOK, PutFails
  <2> QED
    BY <2>1, <2>2
<1> QED
  BY <1>1, <1>2, <1>3, QuietStep DEF PutFails

LEMMA ExpireKeeps ==
  ASSUME TypeOK, DInv, NEW p \in Procs, Expire(p)
  PROVE  TypeOK' /\ DInv'
<1> USE DEF viewVars, gameVars, etcdVars
<1> DEFINE e == [action |-> "expire", proc |-> p, value |-> NULL]
<1>1. e \in Events
  BY DEF Events
<1>2. history' \in Seq(Events) /\ Len(history') = Len(history) + 1 /\ Len(history) \in Nat
  BY <1>1, EventsAreTyped DEF Expire
<1>3. TypeOK'
  <2>1. waitIndex' \in [Watchers -> 0..Len(history')]
    BY <1>2 DEF TypeOK, Expire
  <2>2. faults' \in 0..MaxFault
    BY DiscoveryAssumption DEF TypeOK, Expire, Fault
  <2> QED
    BY <1>1, <1>2, <2>1, <2>2 DEF TypeOK, Expire, Events
<1>4. RunningWereStarted'
  BY DEF DInv, RunningWereStarted, Expire
<1>5. StoredInOrder'
  <2>1. InOrder(Append(history, e), puts[StubProc], inc[StubProc])
    BY EventsAreTyped, OtherIsStored DEF DInv, StoredInOrder
  <2> QED
    BY <2>1 DEF StoredInOrder, Expire
<1>6. StoreIsLast' /\ ViewsAgree' /\ AnswersAreSound'
  BY EventStep DEF Expire
<1> QED
  BY <1>3, <1>4, <1>5, <1>6 DEF DInv

LEMMA RequestAllKeeps ==
  ASSUME TypeOK, DInv, NEW w \in Watchers, RequestAll(w)
  PROVE  TypeOK' /\ DInv'
<1> USE DEF viewVars, gameVars, etcdVars
<1>1. TypeOK'
  BY DEF TypeOK, RequestAll
<1>2. /\ chain[w] = "idle" /\ chain'[w] = "all" /\ up[w]
      /\ \A x \in Watchers : x # w => chain'[x] = chain[x]
  BY DEF TypeOK, RequestAll
<1>3. RunningWereStarted'
  BY <1>2 DEF DInv, RunningWereStarted, RequestAll
<1>4. StoredInOrder'
  BY DEF DInv, StoredInOrder, RequestAll
<1> QED
  BY <1>1, <1>2, <1>3, <1>4, QuietStep DEF RequestAll

LEMMA RequestFailsKeeps ==
  ASSUME TypeOK, DInv, NEW w \in Watchers, RequestFails(w)
  PROVE  TypeOK' /\ DInv'
<1> USE DEF viewVars, gameVars, etcdVars
<1>1. TypeOK'
  BY DiscoveryAssumption DEF TypeOK, RequestFails, Fault
<1>2. /\ chain[w] # "idle" /\ chain'[w] = "ended"
      /\ \A x \in Watchers : x # w => chain'[x] = chain[x]
  BY DEF TypeOK, RequestFails
<1>3. RunningWereStarted'
  BY <1>2 DEF DInv, RunningWereStarted, RequestFails
<1>4. StoredInOrder'
  BY DEF DInv, StoredInOrder, RequestFails
<1> QED
  BY <1>1, <1>2, <1>3, <1>4, QuietStep DEF RequestFails

(* A new answer: the process has not changed its mind about game 1 yet.    *)
LEMMA AnswerStep ==
  ASSUME TypeOK, DInv, TypeOK', NEW w \in Watchers,
         UNCHANGED <<up, inc, stubs, cached, dialled, puts, store, history, waitIndex, mailbox>>,
         chain[w] # "idle", chain'[w] = "answered",
         IsListing(answer'[w], w) \/ IsNews(answer'[w], w),
         \A x \in Watchers : x # w => chain'[x] = chain[x] /\ answer'[x] = answer[x]
  PROVE  DInv'
<1>1. RunningWereStarted'
  BY DEF DInv, RunningWereStarted
<1>2. StoredInOrder' /\ StoreIsLast'
  BY DEF DInv, StoredInOrder, StoreIsLast
<1>3. ViewsAgree'
  BY DEF DInv, ViewsAgree
<1>4. AnswersAreSound'
  <2> SUFFICES ASSUME NEW x \in Watchers, chain'[x] = "answered"
               PROVE  (IsListing(answer[x], x) \/ IsNews(answer[x], x))'
    BY DEF AnswersAreSound
  <2>1. IsListing(answer'[x], x) \/ IsNews(answer'[x], x)
    BY DEF DInv, AnswersAreSound
  <2>2. IsListing(answer'[x], x) => IsListing(answer[x], x)'
    BY DEF IsListing
  <2>3. IsNews(answer'[x], x) => IsNews(answer[x], x)'
    BY DEF IsNews
  <2> QED
    BY <2>1, <2>2, <2>3
<1> QED
  BY <1>1, <1>2, <1>3, <1>4 DEF DInv

LEMMA AnswerAllKeeps ==
  ASSUME TypeOK, DInv, NEW w \in Watchers, AnswerAll(w)
  PROVE  TypeOK' /\ DInv'
<1> USE DEF viewVars, gameVars, etcdVars
<1>1. CASE Present = {}
  <2>1. /\ chain' = [chain EXCEPT ![w] = "ended"] /\ UNCHANGED answer /\ chain[w] = "all"
        /\ UNCHANGED <<up, inc, stubs, cached, dialled, dbNum, puts, store, history, waitIndex, mailbox, faults>>
    BY <1>1 DEF AnswerAll
  <2>2. TypeOK'
    BY <2>1 DEF TypeOK
  <2>3. /\ chain[w] # "idle" /\ chain'[w] = "ended"
        /\ \A x \in Watchers : x # w => chain'[x] = chain[x]
    BY <2>1 DEF TypeOK
  <2>4. RunningWereStarted'
    BY <2>1, <2>3 DEF DInv, RunningWereStarted
  <2>5. StoredInOrder'
    BY <2>1 DEF DInv, StoredInOrder
  <2> QED
    BY <2>1, <2>2, <2>3, <2>4, <2>5, QuietStep
<1>2. CASE Present # {}
  <2> DEFINE a == Listing(Len(history), Restrict(store, Present))
  <2>1. /\ chain' = [chain EXCEPT ![w] = "answered"] /\ answer' = [answer EXCEPT ![w] = a]
        /\ chain[w] = "all"
        /\ UNCHANGED <<up, inc, stubs, cached, dialled, dbNum, puts, store, history, waitIndex, mailbox, faults>>
    BY <1>2 DEF AnswerAll
  <2>2. /\ a.action = "set" /\ a.index = Len(history) /\ a.values = Restrict(store, Present)
        /\ a = [action |-> "set", index |-> Len(history), values |-> Restrict(store, Present)]
    BY DEF Listing
  <2>3. /\ Restrict(store, Present) \in [Present -> Values] /\ Present \in SUBSET Procs
        /\ \A p \in Present : Restrict(store, Present)[p] = store[p]
    BY DEF Restrict, Present, TypeOK
  <2>4. Len(history) \in Nat
    BY EventsAreTyped
  <2>5. a \in Answers(Present)
    BY <2>2, <2>3, <2>4 DEF Answers
  <2> HIDE DEF a
  <2>6. TypeOK'
    <3>1. \A x \in Watchers : IF chain'[x] = "answered" THEN \E S \in SUBSET Procs : answer'[x] \in Answers(S)
                              ELSE answer'[x] = NULL
      BY <2>1, <2>3, <2>5 DEF TypeOK
    <3> QED
      BY <2>1, <3>1 DEF TypeOK
  <2>7. /\ chain'[w] = "answered" /\ answer'[w] = a
        /\ \A x \in Watchers : x # w => chain'[x] = chain[x] /\ answer'[x] = answer[x]
    BY <2>1 DEF TypeOK
  <2>8. IsListing(a, w)
    <3>1. mailbox[w] = NULL
      BY <2>1 DEF DInv, ViewsAgree
    <3>2. IsStubAt(history, store[StubProc], a.index) /\ store[StubProc] \in Values \cup {NULL}
      BY <2>2, StubIsAProcess DEF DInv, StoreIsLast, TypeOK
    <3>3. /\ store[StubProc] = NULL => StubProc \notin DOMAIN a.values
          /\ store[StubProc] # NULL => StubProc \in DOMAIN a.values /\ a.values[StubProc] = store[StubProc]
      <4>1. DOMAIN a.values = Present
        BY <2>2, <2>3
      <4> QED
        BY <2>2, <2>3, <4>1, StubIsAProcess DEF Present
    <3> QED
      BY <2>2, <2>4, <3>1, <3>2, <3>3 DEF IsListing
  <2> QED
    BY <2>1, <2>6, <2>7, <2>8, AnswerStep
<1> QED
  BY <1>1, <1>2

LEMMA AnswerOneKeeps ==
  ASSUME TypeOK, DInv, NEW w \in Watchers, AnswerOne(w)
  PROVE  TypeOK' /\ DInv'
<1> USE DEF viewVars, gameVars, etcdVars
<1>1. PICK i : i = Awaited(w)
  OBVIOUS
<1>2. i = waitIndex[w] + 1 /\ i \in 1..Len(history) /\ i \in Nat
  BY <1>1, EventsAreTyped DEF AnswerOne, Awaited, TypeOK
<1>3. PICK e : e = history[i]
  OBVIOUS
<1>4. /\ e \in Events /\ e.proc \in Procs /\ e.action \in {"set", "expire"}
      /\ e.action = "set" => e.value \in Values
  BY <1>2, <1>3, EventsAreTyped DEF DInv, StoredInOrder, InOrder, Events
<1>5. PICK a : a = IF e.action = "set" THEN Listing(i, [p \in {e.proc} |-> e.value])
                   ELSE [action |-> "expire", index |-> i, proc |-> e.proc]
  OBVIOUS
<1>6. \E S \in SUBSET Procs : a \in Answers(S)
  <2>1. CASE e.action = "set"
    <3>1. [p \in {e.proc} |-> e.value] \in [{e.proc} -> Values] /\ {e.proc} \in SUBSET Procs
      BY <1>4, <2>1
    <3> QED
      BY <1>2, <1>5, <2>1, <3>1 DEF Answers, Listing
  <2>2. CASE e.action # "set"
    <3>1. a \in Answers({})
      BY <1>2, <1>4, <1>5, <2>2 DEF Answers
    <3> QED
      BY <3>1
  <2> QED
    BY <2>1, <2>2
<1>7. /\ chain' = [chain EXCEPT ![w] = "answered"] /\ answer' = [answer EXCEPT ![w] = a]
      /\ chain[w] = "one"
      /\ UNCHANGED <<up, inc, stubs, cached, dialled, dbNum, puts, store, history, waitIndex, mailbox, faults>>
  BY <1>1, <1>3, <1>5 DEF AnswerOne
<1>8. TypeOK'
  <2>1. \A x \in Watchers : IF chain'[x] = "answered" THEN \E S \in SUBSET Procs : answer'[x] \in Answers(S)
                            ELSE answer'[x] = NULL
    BY <1>6, <1>7 DEF TypeOK
  <2> QED
    BY <1>7, <2>1 DEF TypeOK
<1>9. /\ chain'[w] = "answered" /\ answer'[w] = a
      /\ \A x \in Watchers : x # w => chain'[x] = chain[x] /\ answer'[x] = answer[x]
  BY <1>7 DEF TypeOK
<1>10. IsNews(a, w)
  <2>1. a.index = i /\ history[a.index] = e
    BY <1>3, <1>5 DEF Listing
  <2> QED
    BY <1>2, <1>4, <1>5, <2>1 DEF IsNews, Listing
<1> QED
  BY <1>7, <1>8, <1>9, <1>10, AnswerStep

(* A process has applied an answer and waits for the next event.           *)
LEMMA WatchStep ==
  ASSUME TypeOK, DInv, NEW w \in Watchers, Watch(w), chain[w] = "answered",
         NEW box \in Values \cup {NULL}, mailbox' = [mailbox EXCEPT ![w] = box],
         answer[w].index \in 0..Len(history),
         NEW s \in Values \cup {NULL}, IsStubAt(history, s, answer[w].index), Agrees(box, s),
         UNCHANGED <<up, inc, stubs, cached, dbNum, puts, store, history, faults>>,
         dialled' = dialled \/ (dialled' \in [Dbs -> Nat] /\ w = StubProc)
  PROVE  TypeOK' /\ DInv'
<1>1. /\ waitIndex' = [waitIndex EXCEPT ![w] = answer[w].index]
      /\ chain' = [chain EXCEPT ![w] = "one"] /\ answer' = [answer EXCEPT ![w] = NULL]
  BY DEF Watch
<1>2. /\ waitIndex'[w] = answer[w].index /\ chain'[w] = "one" /\ mailbox'[w] = box
      /\ \A x \in Watchers : x # w => UNCHANGED <<waitIndex[x], chain[x], answer[x], mailbox[x]>>
  BY <1>1 DEF TypeOK
<1>3. TypeOK'
  <2>1. \A x \in Watchers : IF chain'[x] = "answered" THEN \E S \in SUBSET Procs : answer'[x] \in Answers(S)
                            ELSE answer'[x] = NULL
    BY <1>1 DEF TypeOK
  <2>2. /\ waitIndex' \in [Watchers -> 0..Len(history')] /\ mailbox' \in [Watchers -> Values \cup {NULL}]
        /\ dialled' \in [Dbs -> Nat] /\ DOMAIN answer' = Watchers
        /\ chain' \in [Watchers -> {"idle", "all", "one", "answered", "ended"}]
    BY <1>1 DEF TypeOK
  <2> QED
    BY <2>1, <2>2 DEF TypeOK
<1>4. RunningWereStarted'
  <2>1. up[w]
    BY DEF DInv, RunningWereStarted
  <2> QED
    BY <1>2, <2>1 DEF DInv, RunningWereStarted
<1>5. StoredInOrder' /\ StoreIsLast'
  BY DEF DInv, StoredInOrder, StoreIsLast
<1>6. ViewsAgree'
  <2> SUFFICES ASSUME NEW x \in Watchers
               PROVE  /\ \E t \in Values \cup {NULL} : IsStubAt(history, t, waitIndex'[x]) /\ Agrees(mailbox'[x], t)
                      /\ chain'[x] \in {"idle", "all"} => mailbox'[x] = NULL
    BY DEF ViewsAgree
  <2>1. CASE x = w
    BY <1>2, <2>1
  <2>2. CASE x # w
    BY <1>2, <2>2 DEF DInv, ViewsAgree
  <2> QED
    BY <2>1, <2>2
<1>7. AnswersAreSound'
  <2> SUFFICES ASSUME NEW x \in Watchers, chain'[x] = "answered"
               PROVE  (IsListing(answer[x], x) \/ IsNews(answer[x], x))'
    BY DEF AnswersAreSound
  <2>1. x # w
    BY <1>2
  <2>2. UNCHANGED <<waitIndex[x], chain[x], answer[x], mailbox[x]>>
    BY <1>2, <2>1
  <2>3. IsListing(answer[x], x) => IsListing(answer[x], x)'
    BY <2>2 DEF IsListing
  <2>4. IsNews(answer[x], x) => IsNews(answer[x], x)'
    BY <2>2 DEF IsNews
  <2> QED
    BY <2>2, <2>3, <2>4 DEF DInv, AnswersAreSound
<1> QED
  BY <1>3, <1>4, <1>5, <1>6, <1>7 DEF DInv

(* What the answer says of game 1 makes the mailbox agree with etcd at the *)
(* index of the answer.                                                    *)
LEMMA ListingAgrees ==
  ASSUME TypeOK, DInv, NEW w \in Watchers, NEW a, IsListing(a, w)
  PROVE  /\ a.index \in 0..Len(history)
         /\ \E s \in Values \cup {NULL} :
              IsStubAt(history, s, a.index) /\ Agrees(MailboxWith(mailbox[w], a.values), s)
BY DEF IsListing, Agrees, MailboxWith

LEMMA NewsAgrees ==
  ASSUME TypeOK, DInv, NEW w \in Watchers, NEW a, IsNews(a, w)
  PROVE  /\ a.index \in 0..Len(history)
         /\ a.action = "set" => \E s \in Values \cup {NULL} :
              IsStubAt(history, s, a.index) /\ Agrees(MailboxWith(mailbox[w], a.values), s)
         /\ a.action = "expire" => \E s \in Values \cup {NULL} :
              IsStubAt(history, s, a.index) /\ Agrees(MailboxWithout(mailbox[w], a.proc), s)
<1>1. PICK k : k = waitIndex[w]
  OBVIOUS
<1>2. PICK e : e = history[k + 1]
  OBVIOUS
<1>3. /\ k \in Nat /\ a.index = k + 1 /\ k + 1 \in 1..Len(history) /\ Len(history) \in Nat
  BY <1>1, EventsAreTyped DEF IsNews, TypeOK
<1>4. /\ e \in Events /\ (e.action = "set" <=> e.value # NULL)
      /\ e.value # NULL => e.value \in Values
  BY <1>2, <1>3, EventsAreTyped DEF DInv, StoredInOrder, InOrder
<1>5. PICK s \in Values \cup {NULL} : IsStubAt(history, s, k) /\ Agrees(mailbox[w], s)
  BY <1>1 DEF DInv, ViewsAgree
<1>6. /\ e.proc = StubProc => IsStubAt(history, e.value, k + 1)
      /\ e.proc # StubProc => IsStubAt(history, s, k + 1)
  BY <1>2, <1>3, <1>5, StubAtNext
<1>7. ASSUME a.action = "set"
      PROVE  \E t \in Values \cup {NULL} :
               IsStubAt(history, t, a.index) /\ Agrees(MailboxWith(mailbox[w], a.values), t)
  <2>1. e.value \in Values /\ e.value # NULL /\ a.values = [p \in {e.proc} |-> e.value]
    BY <1>2, <1>3, <1>4, <1>7 DEF IsNews
  <2>2. CASE e.proc # StubProc
    <3>1. MailboxWith(mailbox[w], a.values) = mailbox[w]
      BY <2>1, <2>2 DEF MailboxWith
    <3> QED
      BY <1>3, <1>5, <1>6, <2>2, <3>1
  <2>3. CASE e.proc = StubProc
    <3>1. StubProc \in DOMAIN a.values /\ a.values[StubProc] = e.value
      BY <2>1, <2>3
    <3>2. CASE e.value.stubs > 0
      BY <1>3, <1>6, <2>1, <2>3, <3>1, <3>2 DEF MailboxWith, Agrees
    <3>3. CASE ~(e.value.stubs > 0)
      <4>1. MailboxWith(mailbox[w], a.values) = mailbox[w]
        BY <3>1, <3>3 DEF MailboxWith
      <4>2. s # NULL => Before(s, e.value)
        <5> SUFFICES ASSUME s # NULL PROVE Before(s, e.value)
          OBVIOUS
        <5>1. PICK j \in 1..k : history[j].proc = StubProc /\ s = history[j].value
          BY <1>5 DEF IsStubAt
        <5>2. j \in DOMAIN history /\ k + 1 \in DOMAIN history /\ j < k + 1
          BY <1>3, EventsAreTyped
        <5>3. Stores(history[j]) /\ Stores(history[k + 1])
          BY <1>2, <2>1, <2>3, <5>1 DEF Stores
        <5> QED
          BY <1>2, <5>1, <5>2, <5>3 DEF DInv, StoredInOrder, InOrder
      <4>3. mailbox[w] = NULL \/ mailbox[w].inc < e.value.inc
        <5>1. mailbox[w] \in Values \cup {NULL} /\ e.value.inc \in Nat
              /\ (mailbox[w] # NULL => mailbox[w].inc \in Nat) /\ (s # NULL => s.inc \in Nat)
          BY <2>1 DEF TypeOK, Values
        <5>2. CASE s = NULL
          BY <1>5, <5>2 DEF Agrees
        <5>3. CASE s # NULL /\ s.stubs > 0
          BY <1>5, <3>3, <4>2, <5>3 DEF Agrees, Before
        <5>4. CASE s # NULL /\ ~(s.stubs > 0)
          <6>1. s.inc <= e.value.inc
            BY <4>2, <5>4 DEF Before
          <6>2. mailbox[w] = NULL \/ mailbox[w].inc < s.inc
            BY <1>5, <5>4 DEF Agrees
          <6> QED
            BY <5>1, <5>4, <6>1, <6>2
        <5> QED
          BY <5>2, <5>3, <5>4
      <4>4. Agrees(MailboxWith(mailbox[w], a.values), e.value)
        BY <2>1, <3>3, <4>1, <4>3 DEF Agrees
      <4> QED
        BY <1>3, <1>6, <2>1, <2>3, <4>4
    <3> QED
      BY <3>2, <3>3
  <2> QED
    BY <2>2, <2>3
<1>8. ASSUME a.action = "expire"
      PROVE  \E t \in Values \cup {NULL} :
               IsStubAt(history, t, a.index) /\ Agrees(MailboxWithout(mailbox[w], a.proc), t)
  <2>1. e.value = NULL /\ a.proc = e.proc
    BY <1>2, <1>3, <1>4, <1>8 DEF IsNews
  <2>2. CASE e.proc # StubProc
    BY <1>3, <1>5, <1>6, <2>1, <2>2 DEF MailboxWithout
  <2>3. CASE e.proc = StubProc
    BY <1>3, <1>6, <2>1, <2>3 DEF MailboxWithout, Agrees
  <2> QED
    BY <2>2, <2>3
<1>9. a.index \in 0..Len(history)
  BY <1>3
<1> QED
  BY <1>7, <1>8, <1>9

LEMMA MailboxIsTyped ==
  ASSUME TypeOK, NEW w \in Watchers, chain[w] = "answered"
  PROVE  /\ answer[w].action = "set" => MailboxWith(mailbox[w], answer[w].values) \in Values \cup {NULL}
         /\ answer[w].action = "expire" => MailboxWithout(mailbox[w], answer[w].proc) \in Values \cup {NULL}
<1>1. PICK S \in SUBSET Procs : answer[w] \in Answers(S)
  BY DEF TypeOK
<1>2. mailbox[w] \in Values \cup {NULL}
  BY DEF TypeOK
<1>3. answer[w].action = "set" => answer[w].values \in [S -> Values]
  BY <1>1 DEF Answers
<1> QED
  BY <1>2, <1>3 DEF MailboxWith, MailboxWithout

LEMMA OnRegisterEntitiesKeeps ==
  ASSUME TypeOK, DInv, NEW w \in Watchers, OnRegisterEntities(w)
  PROVE  TypeOK' /\ DInv'
<1>1. chain[w] = "answered" /\ answer[w].action = "set" /\ Watch(w)
  BY DEF OnRegisterEntities
<1> DEFINE box == MailboxWith(mailbox[w], answer[w].values)
<1>2. IsListing(answer[w], w) \/ IsNews(answer[w], w)
  BY <1>1 DEF DInv, AnswersAreSound
<1>3. /\ answer[w].index \in 0..Len(history)
      /\ \E s \in Values \cup {NULL} : IsStubAt(history, s, answer[w].index) /\ Agrees(box, s)
  BY <1>1, <1>2, ListingAgrees, NewsAgrees
<1>4. box \in Values \cup {NULL}
  BY <1>1, MailboxIsTyped
<1>5. mailbox' = [mailbox EXCEPT ![w] = box]
  BY DEF OnRegisterEntities
<1> HIDE DEF box
<1>6. dialled' = dialled \/ (dialled' \in [Dbs -> Nat] /\ w = StubProc)
  BY DEF OnRegisterEntities, Connected, TypeOK
<1>7. UNCHANGED <<up, inc, stubs, cached, dbNum, puts, store, history, faults>>
  BY DEF OnRegisterEntities, etcdVars
<1> QED
  BY <1>1, <1>3, <1>4, <1>5, <1>6, <1>7, WatchStep

LEMMA OnUnregisterProcessKeeps ==
  ASSUME TypeOK, DInv, NEW w \in Watchers, OnUnregisterProcess(w)
  PROVE  TypeOK' /\ DInv'
<1>1. chain[w] = "answered" /\ answer[w].action = "expire" /\ Watch(w)
  BY DEF OnUnregisterProcess
<1> DEFINE box == MailboxWithout(mailbox[w], answer[w].proc)
<1>2. IsNews(answer[w], w)
  BY <1>1 DEF DInv, AnswersAreSound, IsListing
<1>3. /\ answer[w].index \in 0..Len(history)
      /\ \E s \in Values \cup {NULL} : IsStubAt(history, s, answer[w].index) /\ Agrees(box, s)
  BY <1>1, <1>2, NewsAgrees
<1>4. box \in Values \cup {NULL}
  BY <1>1, MailboxIsTyped
<1>5. mailbox' = [mailbox EXCEPT ![w] = box]
  BY DEF OnUnregisterProcess
<1> HIDE DEF box
<1>6. UNCHANGED <<up, inc, stubs, cached, dialled, dbNum, puts, store, history, faults>>
  BY DEF OnUnregisterProcess, gameVars, etcdVars
<1> QED
  BY <1>1, <1>3, <1>4, <1>5, <1>6, WatchStep

LEMMA ConnectionLostKeeps ==
  ASSUME TypeOK, DInv, NEW d \in Dbs, ConnectionLost(d)
  PROVE  TypeOK' /\ DInv'
<1> USE DEF viewVars, gameVars, etcdVars
<1>1. /\ dialled' \in [Dbs -> Nat] /\ \A c \in Dbs : dialled'[c] <= dialled[c]
      /\ \A c \in Dbs : dialled'[c] > 0 => dialled[c] > 0
  BY DEF TypeOK, ConnectionLost
<1>2. TypeOK'
  <2>1. faults' \in 0..MaxFault
    BY DiscoveryAssumption DEF TypeOK, ConnectionLost, Fault
  <2> QED
    BY <1>1, <2>1 DEF TypeOK, ConnectionLost
<1>3. RunningWereStarted'
  BY <1>1 DEF DInv, RunningWereStarted, ConnectionLost
<1>4. StoredInOrder'
  BY DEF DInv, StoredInOrder, ConnectionLost
<1> QED
  BY <1>2, <1>3, <1>4, QuietStep DEF ConnectionLost

LEMMA RegisterDbKeeps ==
  ASSUME TypeOK, DInv, NEW d \in Dbs, RegisterDb(d)
  PROVE  TypeOK' /\ DInv'
<1> USE DEF viewVars, gameVars, etcdVars
<1>1. /\ dialled' \in [Dbs -> Nat]
      /\ \A c \in Dbs : dialled'[c] > 0 => dialled[c] > 0
  BY DEF TypeOK, RegisterDb
<1>2. \/ stubs' = stubs + 1 /\ cached' = TRUE
      \/ stubs' = stubs /\ cached' = cached
  BY DEF RegisterDb
<1>3. TypeOK'
  <2>1. stubs' \in Nat /\ dbNum' \in Nat
    BY <1>2 DEF TypeOK, RegisterDb
  <2>2. cached' \in BOOLEAN
    BY <1>2 DEF TypeOK
  <2> QED
    BY <1>1, <2>1, <2>2 DEF TypeOK, RegisterDb
<1>4. RunningWereStarted'
  <2>1. up[StubProc]
    BY DEF DInv, RunningWereStarted, RegisterDb
  <2>2. cached' => stubs' > 0
    <3>1. stubs \in Nat /\ (cached => stubs > 0)
      BY DEF DInv, RunningWereStarted, TypeOK
    <3>2. CASE stubs' = stubs + 1 /\ cached' = TRUE
      BY <3>1, <3>2
    <3>3. CASE stubs' = stubs /\ cached' = cached
      BY <3>1, <3>3
    <3> QED
      BY <1>2, <3>2, <3>3
  <2> QED
    BY <1>1, <2>1, <2>2 DEF DInv, RunningWereStarted, RegisterDb
<1>5. StoredInOrder'
  BY DEF DInv, StoredInOrder, RegisterDb
<1> QED
  BY <1>3, <1>4, <1>5, QuietStep DEF RegisterDb

LEMMA RealRegisterEntityKeeps ==
  ASSUME TypeOK, DInv, RealRegisterEntity
  PROVE  TypeOK' /\ DInv'
<1> USE DEF viewVars, gameVars, etcdVars
<1> DEFINE v == Value(StubProc, stubs)
<1>1. inc[StubProc] > 0 /\ stubs > 0
  BY StubIsAProcess DEF DInv, RunningWereStarted, RealRegisterEntity
<1>2. v \in Values /\ v.inc = inc[StubProc] /\ v.stubs = stubs
  BY <1>1, StubIsAProcess DEF Value, Values, TypeOK
<1>3. puts' = [puts EXCEPT ![StubProc] = Append(@, v)] /\ cached' = FALSE
  BY DEF RealRegisterEntity
<1>4. UNCHANGED <<up, inc, stubs, dialled, dbNum, etcdVars, viewVars, faults>>
  BY DEF RealRegisterEntity
<1> HIDE DEF v
<1>5. TypeOK'
  <2>1. puts' \in [Procs -> Seq(Values)]
    BY <1>2, <1>3, StubIsAProcess DEF TypeOK
  <2> QED
    BY <1>3, <1>4, <2>1 DEF TypeOK
<1>6. RunningWereStarted'
  BY <1>3, <1>4 DEF DInv, RunningWereStarted
<1>7. StoredInOrder'
  <2>1. v.inc >= inc[StubProc] /\ v.stubs > 0
    BY <1>1, <1>2, EventsAreTyped
  <2>2. InOrder(history, Append(puts[StubProc], v), inc[StubProc])
    BY <1>2, <2>1, RequestedInOrder DEF DInv
  <2>3. history' = history /\ puts'[StubProc] = Append(puts[StubProc], v) /\ inc'[StubProc] = inc[StubProc]
    BY <1>3, <1>4, StubIsAProcess DEF TypeOK
  <2> QED
    BY <2>2, <2>3 DEF StoredInOrder
<1> QED
  BY <1>4, <1>5, <1>6, <1>7, QuietStep

-----------------------------------------------------------------------------
LEMMA InitDInv == Init => TypeOK /\ DInv
<1> SUFFICES ASSUME Init PROVE TypeOK /\ DInv
  OBVIOUS
<1>1. StubProc \in Procs /\ Watchers \subseteq Procs /\ StubProc \in Watchers
  BY StubIsAProcess
<1>2. TypeOK
  <2>1. \A w \in Watchers : chain[w] = "idle" /\ answer[w] = NULL
    BY DEF Init
  <2>2. waitIndex \in [Watchers -> 0..Len(history)] /\ history \in Seq(Events)
    BY DEF Init
  <2>3. puts \in [Procs -> Seq(Values)]
    BY DEF Init
  <2>4. faults \in 0..MaxFault
    BY DiscoveryAssumption DEF Init
  <2> QED
    BY <2>1, <2>2, <2>3, <2>4 DEF Init, TypeOK, Events
<1>3. RunningWereStarted
  BY <1>1 DEF Init, RunningWereStarted
<1>4. history = <<>> /\ puts[StubProc] = <<>> /\ store[StubProc] = NULL
  BY <1>1 DEF Init
<1>5. StoredInOrder
  BY <1>4 DEF StoredInOrder, InOrder
<1>6. IsStubAt(history, NULL, 0) /\ Len(history) = 0
  <2>1. Len(history) = 0
    BY <1>4
  <2> QED
    BY <2>1 DEF IsStubAt
<1>7. StoreIsLast
  BY <1>4, <1>6 DEF StoreIsLast
<1>8. ViewsAgree
  BY <1>6 DEF ViewsAgree, Agrees, Init
<1>9. AnswersAreSound
  BY DEF AnswersAreSound, Init
<1> QED
  BY <1>2, <1>3, <1>5, <1>7, <1>8, <1>9 DEF DInv

LEMMA NextKeeps == TypeOK /\ DInv /\ [Next]_vars => TypeOK' /\ DInv'
<1> SUFFICES ASSUME TypeOK, DInv, [Next]_vars PROVE TypeOK' /\ DInv'
  OBVIOUS
<1>1. ASSUME NEW p \in Procs, Start(p) \/ Crash(p) \/ Put(p) \/ PutFails(p) \/ Expire(p)
      PROVE  TypeOK' /\ DInv'
  BY <1>1, StartKeeps, CrashKeeps, PutKeeps, PutFailsKeeps, ExpireKeeps
<1>2. ASSUME NEW w \in Watchers, RequestAll(w) \/ Http(w) \/ RequestFails(w) \/ Apply(w)
      PROVE  TypeOK' /\ DInv'
  BY <1>2, RequestAllKeeps, AnswerAllKeeps, AnswerOneKeeps, RequestFailsKeeps,
     OnRegisterEntitiesKeeps, OnUnregisterProcessKeeps DEF Http, Apply
<1>3. ASSUME NEW d \in Dbs, ConnectionLost(d) \/ RegisterDb(d)
      PROVE  TypeOK' /\ DInv'
  BY <1>3, ConnectionLostKeeps, RegisterDbKeeps
<1>4. CASE RealRegisterEntity
  BY <1>4, RealRegisterEntityKeeps
<1>5. CASE UNCHANGED vars
  <2>1. UNCHANGED <<up, inc, stubs, cached, dialled, dbNum, puts, store, history, viewVars, faults>>
    BY <1>5 DEF vars, gameVars, etcdVars
  <2>2. UNCHANGED <<chain, answer, waitIndex, mailbox>>
    BY <2>1 DEF viewVars
  <2>3. TypeOK'
    BY <2>1, <2>2 DEF TypeOK
  <2>4. RunningWereStarted' /\ StoredInOrder'
    BY <2>1, <2>2 DEF DInv, RunningWereStarted, StoredInOrder
  <2> QED
    BY <2>1, <2>2, <2>3, <2>4, QuietStep
<1> QED
  BY <1>1, <1>2, <1>3, <1>4, <1>5 DEF Next

(* Every process, key, answer and mailbox keeps its type, for any numbers  *)
(* of processes, watchers, db_managers and faults; an answer is at hand    *)
(* exactly while its listing or watch has been answered.                   *)
THEOREM TypeCorrect == Spec => []TypeOK
<1>1. Init => TypeOK /\ DInv
  BY InitDInv
<1>2. TypeOK /\ DInv /\ [Next]_vars => (TypeOK /\ DInv)'
  BY NextKeeps
<1> QED
  BY <1>1, <1>2, PTL DEF Spec

(* etcd keeps the values of game 1 in the order of its starts, a mailbox   *)
(* is what the key was at the index its process has seen, and an answer is *)
(* a whole listing or the event after that index (etcd_manager::watch).    *)
THEOREM ViewsFollowEtcd == Spec => []DInv
<1>1. Init => TypeOK /\ DInv
  BY InitDInv
<1>2. TypeOK /\ DInv /\ [Next]_vars => (TypeOK /\ DInv)'
  BY NextKeeps
<1> QED
  BY <1>1, <1>2, PTL DEF Spec

LEMMA CurrentFromViews == TypeOK /\ DInv => MailboxIsCurrent
<1> SUFFICES ASSUME TypeOK, DInv, NEW w \in Watchers, chain[w] = "one", waitIndex[w] = Len(history),
                    NEW s, s = store[StubProc]
             PROVE  CASE s = NULL -> mailbox[w] = NULL
                      [] s # NULL /\ s.stubs > 0 -> mailbox[w] = s
                      [] OTHER -> mailbox[w] = NULL \/ mailbox[w].inc < s.inc
  BY DEF MailboxIsCurrent
<1>1. PICK t \in Values \cup {NULL} : IsStubAt(history, t, Len(history)) /\ Agrees(mailbox[w], t)
  BY DEF DInv, ViewsAgree
<1>2. IsStubAt(history, s, Len(history)) /\ Len(history) \in Nat
  BY EventsAreTyped DEF DInv, StoreIsLast
<1>3. t = s
  BY <1>1, <1>2, StubAtIsUnique
<1>4. Agrees(mailbox[w], s)
  BY <1>1, <1>3
<1> QED
  BY <1>4 DEF Agrees

(* A process whose watch waits for news has the mailbox etcd has           *)
(* (mailbox_manager::add_entity, del_entity), whatever crashed, expired or *)
(* failed before.                                                          *)
THEOREM MailboxFollowsEtcd == Spec => []MailboxIsCurrent
BY TypeCorrect, ViewsFollowEtcd, CurrentFromViews, PTL

-----------------------------------------------------------------------------
(* Counting the starts of the db_managers: the events with which d was set *)
(* after the first k of h.                                                 *)
StartsAfter(h, d, k) == {i \in k + 1..Len(h) : h[i].proc = d /\ h[i].action = "set"}

LEMMA StartsAreFinite ==
  ASSUME NEW h \in Seq(Events), NEW d, NEW k \in Nat
  PROVE  /\ IsFiniteSet(StartsAfter(h, d, k)) /\ Cardinality(StartsAfter(h, d, k)) \in Nat
         /\ \A i \in StartsAfter(h, d, k) : i \in k + 1..Len(h)
<1>1. IsFiniteSet(k + 1..Len(h))
  BY FS_Interval
<1>2. StartsAfter(h, d, k) \subseteq k + 1..Len(h)
  BY DEF StartsAfter
<1> QED
  BY <1>1, <1>2, FS_Subset, FS_CardinalityType

LEMMA StartsAppend ==
  ASSUME NEW h \in Seq(Events), NEW d, NEW k \in 0..Len(h), NEW e \in Events
  PROVE  /\ e.proc = d /\ e.action = "set" =>
              Cardinality(StartsAfter(Append(h, e), d, k)) = Cardinality(StartsAfter(h, d, k)) + 1
         /\ ~(e.proc = d /\ e.action = "set") => StartsAfter(Append(h, e), d, k) = StartsAfter(h, d, k)
         /\ StartsAfter(h, d, k) \subseteq StartsAfter(Append(h, e), d, k)
<1> DEFINE n == Len(h) + 1
<1>1. /\ Len(Append(h, e)) = n /\ Append(h, e)[n] = e
      /\ \A i \in k + 1..n : i = n \/ (i \in k + 1..Len(h) /\ Append(h, e)[i] = h[i])
      /\ \A i \in k + 1..Len(h) : i \in k + 1..n /\ Append(h, e)[i] = h[i]
      /\ n \in k + 1..n /\ n \notin k + 1..Len(h)
  OBVIOUS
<1>2. CASE e.proc = d /\ e.action = "set"
  <2>1. StartsAfter(Append(h, e), d, k) = StartsAfter(h, d, k) \cup {n}
    BY <1>1, <1>2 DEF StartsAfter
  <2>2. n \notin StartsAfter(h, d, k) /\ IsFiniteSet(StartsAfter(h, d, k))
    BY <1>1, StartsAreFinite
  <2> QED
    BY <1>2, <2>1, <2>2, FS_AddElement
<1>3. CASE ~(e.proc = d /\ e.action = "set")
  <2>1. StartsAfter(Append(h, e), d, k) = StartsAfter(h, d, k)
    BY <1>1, <1>3 DEF StartsAfter
  <2> QED
    BY <1>3, <2>1
<1> QED
  BY <1>2, <1>3, <1>1 DEF StartsAfter

LEMMA StartsLater ==
  ASSUME NEW h \in Seq(Events), NEW d, NEW k \in Nat, NEW m \in Nat, k <= m
  PROVE  /\ Cardinality(StartsAfter(h, d, m)) <= Cardinality(StartsAfter(h, d, k))
         /\ (\E i \in StartsAfter(h, d, k) : i <= m) =>
              Cardinality(StartsAfter(h, d, m)) + 1 <= Cardinality(StartsAfter(h, d, k))
<1>1. StartsAfter(h, d, m) \subseteq StartsAfter(h, d, k)
  BY DEF StartsAfter
<1>2. /\ IsFiniteSet(StartsAfter(h, d, k)) /\ IsFiniteSet(StartsAfter(h, d, m))
      /\ Cardinality(StartsAfter(h, d, k)) \in Nat /\ Cardinality(StartsAfter(h, d, m)) \in Nat
  BY StartsAreFinite
<1>3. Cardinality(StartsAfter(h, d, m)) <= Cardinality(StartsAfter(h, d, k))
  BY <1>1, <1>2, FS_Subset
<1>4. ASSUME NEW i \in StartsAfter(h, d, k), i <= m
      PROVE  Cardinality(StartsAfter(h, d, m)) + 1 <= Cardinality(StartsAfter(h, d, k))
  <2>1. i \notin StartsAfter(h, d, m)
    BY <1>4 DEF StartsAfter
  <2>2. StartsAfter(h, d, m) \subseteq StartsAfter(h, d, k) \ {i}
    BY <1>1, <2>1
  <2>3. /\ IsFiniteSet(StartsAfter(h, d, k) \ {i})
        /\ Cardinality(StartsAfter(h, d, k) \ {i}) = Cardinality(StartsAfter(h, d, k)) - 1
    BY <1>2, <1>4, FS_RemoveElement
  <2>4. Cardinality(StartsAfter(h, d, m)) <= Cardinality(StartsAfter(h, d, k) \ {i})
    BY <2>2, <2>3, FS_Subset
  <2> QED
    BY <1>2, <2>3, <2>4
<1> QED
  BY <1>3, <1>4

-----------------------------------------------------------------------------
(* Every event and every request of a db_manager is one of its starts, ... *)
StartsAreStored ==
  /\ \A d \in Dbs : Cardinality(StartsAfter(history, d, 0)) + Len(puts[d]) <= inc[d]
  /\ \A d \in Dbs : store[d] # NULL => StartsAfter(history, d, 0) # {}

(* ... an answer tells game 1 only of starts after the index it has seen,  *)
TellsOfStarts ==
  /\ chain[StubProc] \in {"idle", "all"} => waitIndex[StubProc] = 0
  /\ chain[StubProc] = "answered" =>
       /\ answer[StubProc].index \in waitIndex[StubProc]..Len(history)
       /\ answer[StubProc].action = "set" =>
            \A d \in Dbs : d \in DOMAIN answer[StubProc].values =>
              \E i \in StartsAfter(history, d, waitIndex[StubProc]) : i <= answer[StubProc].index

(* and of each db_manager those that were counted, that are dialled and    *)
(* that it may still be told of are no more than there were.               *)
DbsAreCounted ==
  \E registered \in [Dbs -> Nat] :
    /\ dbNum = SumFunctionOnSet(registered, Dbs)
    /\ \A d \in Dbs : registered[d] + dialled[d]
                        + Cardinality(StartsAfter(history, d, waitIndex[StubProc])) + Len(puts[d]) <= inc[d]

CountInv == StartsAreStored /\ TellsOfStarts /\ DbsAreCounted

LEMMA CountTypes ==
  ASSUME TypeOK
  PROVE  /\ waitIndex[StubProc] \in Nat /\ waitIndex[StubProc] \in 0..Len(history) /\ history \in Seq(Events)
         /\ Len(history) \in Nat
         /\ \A d \in Dbs : /\ inc[d] \in Nat /\ dialled[d] \in Nat /\ Len(puts[d]) \in Nat
                           /\ Cardinality(StartsAfter(history, d, 0)) \in Nat
                           /\ Cardinality(StartsAfter(history, d, waitIndex[StubProc])) \in Nat
<1>1. history \in Seq(Events) /\ waitIndex[StubProc] \in 0..Len(history) /\ waitIndex[StubProc] \in Nat
      /\ Len(history) \in Nat
  <2>1. history \in Seq(Events) /\ Len(history) \in Nat
    BY EventsAreTyped
  <2>2. waitIndex[StubProc] \in 0..Len(history)
    BY StubIsAProcess DEF TypeOK
  <2> QED
    BY <2>1, <2>2
<1>2. \A d \in Dbs : inc[d] \in Nat /\ dialled[d] \in Nat /\ puts[d] \in Seq(Values)
  BY StubIsAProcess DEF TypeOK
<1>3. \A d \in Dbs : Len(puts[d]) \in Nat
  BY <1>2
<1>4. \A d \in Dbs : /\ Cardinality(StartsAfter(history, d, 0)) \in Nat
                     /\ Cardinality(StartsAfter(history, d, waitIndex[StubProc])) \in Nat
  BY <1>1, StartsAreFinite
<1> QED
  BY <1>1, <1>2, <1>3, <1>4

(* Arithmetic of a step that loses nothing but what was under way, and of  *)
(* one that turns a request into an event.                                 *)
LEMMA StillCounted ==
  ASSUME NEW r \in Nat, NEW x \in Nat, NEW y \in Nat, NEW c \in Nat, NEW p \in Nat, NEW q \in Nat,
         NEW n \in Nat, NEW m \in Nat, r + x + c + p <= n, y <= x, q + n <= p + m
  PROVE  r + y + c + q <= m
OBVIOUS

LEMMA EventCounted ==
  ASSUME NEW r \in Nat, NEW x \in Nat, NEW c \in Nat, NEW p \in Nat, NEW n \in Nat,
         NEW b \in Nat, NEW q \in Int, r + x + c + p <= n, b + q = c + p
  PROVE  r + x + b + q <= n
OBVIOUS

(* A step in which nothing is stored or applied.                           *)
LEMMA CountStays ==
  ASSUME TypeOK, TypeOK', CountInv, history' = history, waitIndex'[StubProc] = waitIndex[StubProc], dbNum' = dbNum,
         \A d \in Dbs : /\ store'[d] = store[d] /\ dialled'[d] <= dialled[d]
                        /\ Len(puts'[d]) + inc[d] <= Len(puts[d]) + inc'[d],
         \/ chain'[StubProc] = chain[StubProc] /\ answer'[StubProc] = answer[StubProc]
         \/ /\ chain'[StubProc] # "answered"
            /\ chain'[StubProc] \in {"idle", "all"} => chain[StubProc] \in {"idle", "all"}
  PROVE  CountInv'
<1>1. ASSUME NEW d \in Dbs
      PROVE  /\ inc[d] \in Nat /\ inc'[d] \in Nat /\ Len(puts[d]) \in Nat /\ Len(puts'[d]) \in Nat
             /\ dialled[d] \in Nat /\ dialled'[d] \in Nat
             /\ Cardinality(StartsAfter(history, d, 0)) \in Nat
             /\ Cardinality(StartsAfter(history, d, waitIndex[StubProc])) \in Nat
             /\ dialled'[d] <= dialled[d] /\ Len(puts'[d]) + inc[d] <= Len(puts[d]) + inc'[d]
  <2>1. inc[d] \in Nat /\ Len(puts[d]) \in Nat /\ dialled[d] \in Nat
    BY CountTypes
  <2>2. inc'[d] \in Nat /\ puts'[d] \in Seq(Values) /\ dialled'[d] \in Nat
    BY StubIsAProcess DEF TypeOK
  <2>3. Len(puts'[d]) \in Nat
    BY <2>2
  <2> QED
    BY <2>1, <2>2, <2>3, CountTypes
<1>2. StartsAreStored'
  <2> SUFFICES ASSUME NEW d \in Dbs
               PROVE  /\ Cardinality(StartsAfter(history, d, 0)) + Len(puts'[d]) <= inc'[d]
                      /\ store'[d] # NULL => StartsAfter(history, d, 0) # {}
    BY DEF StartsAreStored
  <2>1. Cardinality(StartsAfter(history, d, 0)) + Len(puts[d]) <= inc[d]
    BY DEF CountInv, StartsAreStored
  <2>2. Cardinality(StartsAfter(history, d, 0)) + Len(puts'[d]) <= inc'[d]
    BY <1>1, <2>1
  <2> QED
    BY <2>2 DEF CountInv, StartsAreStored
<1>3. TellsOfStarts'
  BY DEF CountInv, TellsOfStarts
<1>4. DbsAreCounted'
  <2>1. PICK r \in [Dbs -> Nat] :
          /\ dbNum = SumFunctionOnSet(r, Dbs)
          /\ \A d \in Dbs : r[d] + dialled[d]
               + Cardinality(StartsAfter(history, d, waitIndex[StubProc])) + Len(puts[d]) <= inc[d]
    BY DEF CountInv, DbsAreCounted
  <2>2. ASSUME NEW d \in Dbs
        PROVE  r[d] + dialled'[d] + Cardinality(StartsAfter(history, d, waitIndex[StubProc]))
                 + Len(puts'[d]) <= inc'[d]
    <3>1. /\ r[d] \in Nat
          /\ r[d] + dialled[d] + Cardinality(StartsAfter(history, d, waitIndex[StubProc]))
               + Len(puts[d]) <= inc[d]
      BY <2>1
    <3> QED
      BY <1>1, <3>1, StillCounted
  <2>3. dbNum' = SumFunctionOnSet(r, Dbs)
    BY <2>1
  <2> QED
    BY <2>2, <2>3 DEF DbsAreCounted
<1> QED
  BY <1>2, <1>3, <1>4 DEF CountInv

(* Game 1 dies, and forgets what it counted.                               *)
LEMMA CountRestarts ==
  ASSUME TypeOK, CountInv, UNCHANGED <<inc, puts, store, history>>,
         chain'[StubProc] = "idle", waitIndex'[StubProc] = 0, dbNum' = 0, dialled' = [d \in Dbs |-> 0]
  PROVE  CountInv'
<1>1. StartsAreStored' /\ TellsOfStarts'
  BY DEF CountInv, StartsAreStored, TellsOfStarts
<1>2. DbsAreCounted'
  <2> DEFINE r == [d \in Dbs |-> 0]
  <2>1. r \in [Dbs -> Nat] /\ \A d \in Dbs : r[d] = 0
    OBVIOUS
  <2>2. SumFunctionOnSet(r, Dbs) = 0
    <3> HIDE DEF r
    <3> QED
      BY <2>1, SumOfZeros, DiscoveryAssumption
  <2>3. ASSUME NEW d \in Dbs
        PROVE  r[d] + dialled'[d] + Cardinality(StartsAfter(history, d, 0)) + Len(puts[d]) <= inc[d]
    <3>1. Cardinality(StartsAfter(history, d, 0)) + Len(puts[d]) <= inc[d]
      BY DEF CountInv, StartsAreStored
    <3>2. Cardinality(StartsAfter(history, d, 0)) \in Nat /\ Len(puts[d]) \in Nat
      BY CountTypes
    <3>3. r[d] = 0 /\ dialled'[d] = 0
      OBVIOUS
    <3> HIDE DEF r
    <3> QED
      BY <3>1, <3>2, <3>3
  <2> HIDE DEF r
  <2> QED
    BY <2>1, <2>2, <2>3 DEF DbsAreCounted
<1> QED
  BY <1>1, <1>2 DEF CountInv

(* An event is stored: one more start is to be told of, and one request    *)
(* less.                                                                   *)
LEMMA CountAtEvent ==
  ASSUME TypeOK, CountInv, NEW e \in Events, history' = Append(history, e),
         UNCHANGED <<inc, dialled, dbNum>>, chain'[StubProc] = chain[StubProc],
         answer'[StubProc] = answer[StubProc], waitIndex'[StubProc] = waitIndex[StubProc],
         \A d \in Dbs :
           IF e.proc = d /\ e.action = "set" THEN Len(puts'[d]) = Len(puts[d]) - 1
           ELSE Len(puts'[d]) = Len(puts[d]) /\ (store'[d] # NULL => store[d] # NULL)
  PROVE  CountInv'
<1> DEFINE h == Append(history, e)
<1>0. /\ history \in Seq(Events) /\ Len(history) \in Nat /\ 0 \in 0..Len(history)
      /\ waitIndex[StubProc] \in 0..Len(history) /\ Len(h) = Len(history) + 1
  BY CountTypes
<1>1. ASSUME NEW d \in Dbs, NEW k \in 0..Len(history)
      PROVE  /\ Cardinality(StartsAfter(h, d, k)) + Len(puts'[d])
                  = Cardinality(StartsAfter(history, d, k)) + Len(puts[d])
             /\ Cardinality(StartsAfter(h, d, k)) \in Nat /\ Len(puts'[d]) \in Int
             /\ StartsAfter(history, d, k) \subseteq StartsAfter(h, d, k)
             /\ e.proc = d /\ e.action = "set" => StartsAfter(h, d, k) # {}
  <2>1. Cardinality(StartsAfter(history, d, k)) \in Nat /\ Len(puts[d]) \in Nat
    BY <1>0, StartsAreFinite, CountTypes
  <2>2. StartsAfter(history, d, k) \subseteq StartsAfter(h, d, k)
    BY <1>0, StartsAppend
  <2>3. CASE e.proc = d /\ e.action = "set"
    <3>1. Cardinality(StartsAfter(h, d, k)) = Cardinality(StartsAfter(history, d, k)) + 1
      BY <1>0, <2>3, StartsAppend
    <3>2. StartsAfter(h, d, k) # {}
      <4>1. h \in Seq(Events) /\ k \in Nat
        BY <1>0
      <4>2. IsFiniteSet(StartsAfter(h, d, k))
        BY <4>1, StartsAreFinite
      <4>3. Cardinality(StartsAfter(h, d, k)) # 0
        BY <2>1, <3>1
      <4> QED
        BY <4>2, <4>3, FS_EmptySet, Zenon
    <3>3. Len(puts'[d]) = Len(puts[d]) - 1
      BY <2>3
    <3>5. /\ Cardinality(StartsAfter(h, d, k)) + Len(puts'[d])
               = Cardinality(StartsAfter(history, d, k)) + Len(puts[d])
          /\ Cardinality(StartsAfter(h, d, k)) \in Nat /\ Len(puts'[d]) \in Int
      <4> DEFINE b == Cardinality(StartsAfter(h, d, k))
                 c == Cardinality(StartsAfter(history, d, k))
                 m == Len(puts'[d])
                 n == Len(puts[d])
      <4>1. b = c + 1 /\ m = n - 1 /\ c \in Nat /\ n \in Nat
        BY <2>1, <3>1, <3>3
      <4> HIDE DEF b, c, m, n
      <4>2. b + m = c + n /\ b \in Nat /\ m \in Int
        BY <4>1
      <4> QED
        BY <4>2 DEF b, c, m, n
    <3> QED
      BY <2>2, <3>2, <3>5
  <2>4. CASE ~(e.proc = d /\ e.action = "set")
    <3>1. StartsAfter(h, d, k) = StartsAfter(history, d, k)
      BY <1>0, <2>4, StartsAppend
    <3>2. Len(puts'[d]) = Len(puts[d])
      BY <2>4
    <3> QED
      BY <2>1, <2>4, <3>1, <3>2
  <2> QED
    BY <2>3, <2>4
<1> HIDE DEF h
<1>2. history' = h
  BY DEF h
<1>3. StartsAreStored'
  <2> SUFFICES ASSUME NEW d \in Dbs
               PROVE  /\ Cardinality(StartsAfter(h, d, 0)) + Len(puts'[d]) <= inc[d]
                      /\ store'[d] # NULL => StartsAfter(h, d, 0) # {}
    BY <1>2 DEF StartsAreStored
  <2>1. Cardinality(StartsAfter(h, d, 0)) + Len(puts'[d]) <= inc[d]
    BY <1>0, <1>1 DEF CountInv, StartsAreStored
  <2>2. store'[d] # NULL => StartsAfter(h, d, 0) # {}
    BY <1>0, <1>1 DEF CountInv, StartsAreStored
  <2> QED
    BY <2>1, <2>2
<1>4. TellsOfStarts'
  <2>1. chain[StubProc] \in {"idle", "all"} => waitIndex[StubProc] = 0
    BY DEF CountInv, TellsOfStarts
  <2>2. ASSUME chain[StubProc] = "answered"
        PROVE  answer[StubProc].index \in waitIndex[StubProc]..Len(h)
    <3>1. answer[StubProc].index \in waitIndex[StubProc]..Len(history)
      BY <2>2 DEF CountInv, TellsOfStarts
    <3> QED
      BY <1>0, <3>1
  <2>3. ASSUME chain[StubProc] = "answered", answer[StubProc].action = "set",
               NEW d \in Dbs, d \in DOMAIN answer[StubProc].values
        PROVE  \E i \in StartsAfter(h, d, waitIndex[StubProc]) : i <= answer[StubProc].index
    <3>1. PICK i \in StartsAfter(history, d, waitIndex[StubProc]) : i <= answer[StubProc].index
      BY <2>3 DEF CountInv, TellsOfStarts
    <3> QED
      BY <1>0, <1>1, <3>1
  <2> QED
    BY <1>2, <2>1, <2>2, <2>3 DEF TellsOfStarts
<1>5. DbsAreCounted'
  <2>1. PICK r \in [Dbs -> Nat] :
          /\ dbNum = SumFunctionOnSet(r, Dbs)
          /\ \A d \in Dbs : r[d] + dialled[d]
               + Cardinality(StartsAfter(history, d, waitIndex[StubProc])) + Len(puts[d]) <= inc[d]
    BY DEF CountInv, DbsAreCounted
  <2>2. ASSUME NEW d \in Dbs
        PROVE  r[d] + dialled[d] + Cardinality(StartsAfter(h, d, waitIndex[StubProc])) + Len(puts'[d]) <= inc[d]
    <3>1. r[d] + dialled[d] + Cardinality(StartsAfter(history, d, waitIndex[StubProc])) + Len(puts[d]) <= inc[d]
      BY <2>1
    <3>2. /\ r[d] \in Nat /\ dialled[d] \in Nat /\ inc[d] \in Nat /\ Len(puts[d]) \in Nat
          /\ Cardinality(StartsAfter(history, d, waitIndex[StubProc])) \in Nat
      BY CountTypes
    <3>3. /\ Cardinality(StartsAfter(h, d, waitIndex[StubProc])) + Len(puts'[d])
               = Cardinality(StartsAfter(history, d, waitIndex[StubProc])) + Len(puts[d])
          /\ Cardinality(StartsAfter(h, d, waitIndex[StubProc])) \in Nat /\ Len(puts'[d]) \in Int
      BY <1>0, <1>1
    <3>4. PICK b \in Nat, q \in Int : /\ b = Cardinality(StartsAfter(h, d, waitIndex[StubProc]))
                                     /\ q = Len(puts'[d])
      BY <3>3
    <3>5. PICK a \in Nat, p \in Nat : /\ a = Cardinality(StartsAfter(history, d, waitIndex[StubProc]))
                                     /\ p = Len(puts[d])
      BY <3>2
    <3>6. r[d] + dialled[d] + b + q <= inc[d]
      <4>1. r[d] + dialled[d] + a + p <= inc[d]
        BY <3>1, <3>5
      <4>2. b + q = a + p
        BY <3>3, <3>4, <3>5
      <4> QED
        BY <3>2, <4>1, <4>2, EventCounted
    <3> QED
      BY <3>4, <3>6
  <2> QED
    BY <1>2, <2>1, <2>2 DEF DbsAreCounted
<1> QED
  BY <1>3, <1>4, <1>5 DEF CountInv

(* Game 1 is answered.                                                     *)
LEMMA CountAtAnswer ==
  ASSUME TypeOK, CountInv, UNCHANGED <<inc, dialled, dbNum, puts, store, history, waitIndex>>,
         chain'[StubProc] = "answered",
         answer'[StubProc].index \in waitIndex[StubProc]..Len(history),
         answer'[StubProc].action = "set" =>
           \A d \in Dbs : d \in DOMAIN answer'[StubProc].values =>
             \E i \in StartsAfter(history, d, waitIndex[StubProc]) : i <= answer'[StubProc].index
  PROVE  CountInv'
<1>1. StartsAreStored' /\ DbsAreCounted'
  BY DEF CountInv, StartsAreStored, DbsAreCounted
<1>2. TellsOfStarts'
  BY DEF TellsOfStarts
<1> QED
  BY <1>1, <1>2 DEF CountInv

(* Game 1 applies its answer: the starts it is told of it is not told of   *)
(* again.                                                                  *)
LEMMA CountAtWatch ==
  ASSUME TypeOK, TypeOK', CountInv, UNCHANGED <<inc, dbNum, puts, store, history>>,
         chain[StubProc] = "answered", chain'[StubProc] = "one",
         waitIndex'[StubProc] = answer[StubProc].index,
         \A d \in Dbs : \/ dialled'[d] = dialled[d]
                        \/ /\ answer[StubProc].action = "set" /\ d \in DOMAIN answer[StubProc].values
                           /\ dialled'[d] = dialled[d] + 1
  PROVE  CountInv'
<1>1. StartsAreStored' /\ TellsOfStarts'
  BY DEF CountInv, StartsAreStored, TellsOfStarts
<1>2. DbsAreCounted'
  <2>1. PICK r \in [Dbs -> Nat] :
          /\ dbNum = SumFunctionOnSet(r, Dbs)
          /\ \A d \in Dbs : r[d] + dialled[d]
               + Cardinality(StartsAfter(history, d, waitIndex[StubProc])) + Len(puts[d]) <= inc[d]
    BY DEF CountInv, DbsAreCounted
  <2>2. PICK k, m : k = waitIndex[StubProc] /\ m = answer[StubProc].index
    OBVIOUS
  <2>3. k \in Nat /\ m \in Nat /\ k <= m /\ history \in Seq(Events) /\ waitIndex'[StubProc] = m
    <3>1. k \in Nat /\ Len(history) \in Nat /\ m \in k..Len(history)
      BY <2>2, CountTypes DEF CountInv, TellsOfStarts
    <3> QED
      BY <2>2, <3>1, CountTypes
  <2>4. ASSUME NEW d \in Dbs
        PROVE  r[d] + dialled'[d] + Cardinality(StartsAfter(history, d, m)) + Len(puts[d]) <= inc[d]
    <3>1. /\ r[d] \in Nat /\ dialled[d] \in Nat /\ inc[d] \in Nat /\ Len(puts[d]) \in Nat
          /\ Cardinality(StartsAfter(history, d, k)) \in Nat /\ Cardinality(StartsAfter(history, d, m)) \in Nat
      BY <2>3, CountTypes, StartsAreFinite
    <3>2. r[d] + dialled[d] + Cardinality(StartsAfter(history, d, k)) + Len(puts[d]) <= inc[d]
      BY <2>1, <2>2
    <3>3. CASE dialled'[d] = dialled[d]
      <4>1. Cardinality(StartsAfter(history, d, m)) <= Cardinality(StartsAfter(history, d, k))
        BY <2>3, StartsLater
      <4> QED
        BY <3>1, <3>2, <3>3, <4>1
    <3>4. CASE /\ answer[StubProc].action = "set" /\ d \in DOMAIN answer[StubProc].values
               /\ dialled'[d] = dialled[d] + 1
      <4>1. \E i \in StartsAfter(history, d, k) : i <= m
        BY <2>2, <3>4 DEF CountInv, TellsOfStarts
      <4>2. Cardinality(StartsAfter(history, d, m)) + 1 <= Cardinality(StartsAfter(history, d, k))
        BY <2>3, <4>1, StartsLater
      <4>3. dialled'[d] = dialled[d] + 1
        BY <3>4
      <4> DEFINE b == Cardinality(StartsAfter(history, d, k))
                 c == Cardinality(StartsAfter(history, d, m))
                 n == Len(puts[d])
                 x == dialled[d]
                 y == dialled'[d]
      <4>4. /\ r[d] \in Nat /\ x \in Nat /\ inc[d] \in Nat /\ n \in Nat /\ b \in Nat /\ c \in Nat
            /\ r[d] + x + b + n <= inc[d] /\ c + 1 <= b /\ y = x + 1
        BY <3>1, <3>2, <4>2, <4>3
      <4> HIDE DEF b, c, n, x, y
      <4>5. r[d] + y + c + n <= inc[d]
        BY <4>4
      <4> QED
        BY <4>5 DEF b, c, n, x, y
    <3> QED
      BY <3>3, <3>4
  <2> QED
    BY <2>1, <2>3, <2>4 DEF DbsAreCounted
<1> QED
  BY <1>1, <1>2 DEF CountInv

(* A db_manager that was dialled is counted instead.                       *)
LEMMA CountAtRegistration ==
  ASSUME TypeOK, CountInv, UNCHANGED <<inc, puts, store, history, chain, answer, waitIndex>>,
         NEW c \in Dbs, dialled[c] > 0, dialled' = [dialled EXCEPT ![c] = @ - 1], dbNum' = dbNum + 1
  PROVE  CountInv'
<1>1. StartsAreStored' /\ TellsOfStarts'
  BY DEF CountInv, StartsAreStored, TellsOfStarts
<1>2. DbsAreCounted'
  <2>1. PICK r \in [Dbs -> Nat] :
          /\ dbNum = SumFunctionOnSet(r, Dbs)
          /\ \A d \in Dbs : r[d] + dialled[d]
               + Cardinality(StartsAfter(history, d, waitIndex[StubProc])) + Len(puts[d]) <= inc[d]
    BY DEF CountInv, DbsAreCounted
  <2> DEFINE q == [r EXCEPT ![c] = @ + 1]
  <2>2. /\ q \in [Dbs -> Nat] /\ q[c] = r[c] + 1
        /\ \A d \in Dbs : r[d] \in Nat /\ (d # c => q[d] = r[d])
    OBVIOUS
  <2> HIDE DEF q
  <2>3. SumFunctionOnSet(q, Dbs) = SumFunctionOnSet(r, Dbs) + 1
    BY <2>2, SumsDiffer, DiscoveryAssumption
  <2>4. ASSUME NEW d \in Dbs
        PROVE  q[d] + dialled'[d] + Cardinality(StartsAfter(history, d, waitIndex[StubProc])) + Len(puts[d]) <= inc[d]
    <3>1. r[d] + dialled[d] + Cardinality(StartsAfter(history, d, waitIndex[StubProc])) + Len(puts[d]) <= inc[d]
      BY <2>1
    <3>2. /\ r[d] \in Nat /\ dialled[d] \in Nat /\ inc[d] \in Nat /\ Len(puts[d]) \in Nat
          /\ Cardinality(StartsAfter(history, d, waitIndex[StubProc])) \in Nat
      BY CountTypes
    <3>3. q[d] + dialled'[d] = r[d] + dialled[d] /\ q[d] \in Nat /\ dialled'[d] \in Int
      <4>1. CASE d = c
        <5>1. dialled'[d] = dialled[d] - 1 /\ q[d] = r[d] + 1
          BY <2>2, <4>1 DEF TypeOK
        <5> QED
          BY <3>2, <5>1
      <4>2. CASE d # c
        <5>1. dialled'[d] = dialled[d] /\ q[d] = r[d]
          BY <2>2, <4>2 DEF TypeOK
        <5> QED
          BY <3>2, <5>1
      <4> QED
        BY <4>1, <4>2
    <3> QED
      BY <3>1, <3>2, <3>3
  <2> QED
    BY <2>1, <2>2, <2>3, <2>4 DEF DbsAreCounted
<1> QED
  BY <1>1, <1>2 DEF CountInv

(* Every start of a db_manager is counted once at most.                    *)
LEMMA CountsFromDbs == TypeOK /\ CountInv => CountsStartsOfDbs
<1> SUFFICES ASSUME TypeOK, CountInv PROVE CountsStartsOfDbs
  OBVIOUS
<1>1. PICK r \in [Dbs -> Nat] :
        /\ dbNum = SumFunctionOnSet(r, Dbs)
        /\ \A d \in Dbs : r[d] + dialled[d]
             + Cardinality(StartsAfter(history, d, waitIndex[StubProc])) + Len(puts[d]) <= inc[d]
  BY DEF CountInv, DbsAreCounted
<1>2. ASSUME NEW d \in Dbs
      PROVE  r[d] \in Nat /\ dialled[d] \in Nat /\ inc[d] \in Nat /\ r[d] + dialled[d] <= inc[d]
  <2>1. r[d] + dialled[d] + Cardinality(StartsAfter(history, d, waitIndex[StubProc])) + Len(puts[d]) <= inc[d]
    BY <1>1
  <2>2. /\ r[d] \in Nat /\ dialled[d] \in Nat /\ inc[d] \in Nat /\ Len(puts[d]) \in Nat
        /\ Cardinality(StartsAfter(history, d, waitIndex[StubProc])) \in Nat
    BY CountTypes
  <2> QED
    BY <2>1, <2>2
<1>3. SumFunctionOnSet(r, Dbs) + SumFunctionOnSet(dialled, Dbs) <= SumFunctionOnSet(inc, Dbs)
  BY <1>2, SumsCompare, DiscoveryAssumption
<1> QED
  BY <1>1, <1>3 DEF CountsStartsOfDbs

-----------------------------------------------------------------------------
(* The initial states, and one lemma per kind of action.                   *)
LEMMA CountInit == Init => CountInv
<1> SUFFICES ASSUME Init PROVE CountInv
  OBVIOUS
<1>1. /\ StubProc \in Watchers /\ history = <<>> /\ waitIndex[StubProc] = 0 /\ chain[StubProc] = "idle"
      /\ \A d \in Dbs : puts[d] = <<>> /\ store[d] = NULL /\ inc[d] = 0 /\ dialled[d] = 0
      /\ dbNum = 0
  BY StubIsAProcess DEF Init
<1>2. Len(history) = 0
  BY <1>1
<1>3. \A d : StartsAfter(history, d, 0) = {}
  BY <1>2 DEF StartsAfter
<1>4. \A d : Cardinality(StartsAfter(history, d, 0)) = 0
  BY <1>3, FS_EmptySet
<1>5. \A d \in Dbs : Len(puts[d]) = 0
  BY <1>1
<1>6. StartsAreStored
  BY <1>1, <1>4, <1>5 DEF StartsAreStored
<1>7. TellsOfStarts
  BY <1>1 DEF TellsOfStarts
<1>8. DbsAreCounted
  <2> DEFINE r == [d \in Dbs |-> 0]
  <2>1. r \in [Dbs -> Nat] /\ \A d \in Dbs : r[d] = 0
    OBVIOUS
  <2> HIDE DEF r
  <2>2. SumFunctionOnSet(r, Dbs) = 0
    BY <2>1, SumOfZeros, DiscoveryAssumption
  <2>3. \A d \in Dbs : r[d] + dialled[d]
           + Cardinality(StartsAfter(history, d, waitIndex[StubProc])) + Len(puts[d]) <= inc[d]
    BY <1>1, <1>4, <1>5, <2>1
  <2> QED
    BY <1>1, <2>1, <2>2, <2>3 DEF DbsAreCounted
<1> QED
  BY <1>6, <1>7, <1>8 DEF CountInv

LEMMA StartCounts ==
  ASSUME TypeOK, TypeOK', CountInv, NEW p \in Procs, Start(p)
  PROVE  CountInv'
<1>1. ASSUME NEW d \in Dbs PROVE Len(puts'[d]) + inc[d] <= Len(puts[d]) + inc'[d]
  <2>1. d \in Procs /\ inc[d] \in Nat /\ Len(puts[d]) \in Nat /\ puts[d] \in Seq(Values)
    BY StubIsAProcess, CountTypes DEF TypeOK
  <2>2. CASE d = p
    <3>1. inc'[d] = inc[d] + 1 /\ Len(puts'[d]) = Len(puts[d]) + 1
      BY <2>1, <2>2 DEF Start, TypeOK
    <3> QED
      BY <2>1, <3>1
  <2>3. CASE d # p
    <3>1. inc'[d] = inc[d] /\ puts'[d] = puts[d]
      BY <2>1, <2>3 DEF Start, TypeOK
    <3> QED
      BY <2>1, <3>1
  <2> QED
    BY <2>2, <2>3
<1>2. UNCHANGED <<dialled, dbNum, store, history, chain, answer, waitIndex>>
  BY DEF Start, gameVars, etcdVars, viewVars
<1>3. \A d \in Dbs : dialled'[d] <= dialled[d]
  BY <1>2, CountTypes
<1> QED
  BY <1>1, <1>2, <1>3, CountStays

LEMMA CrashCounts ==
  ASSUME TypeOK, TypeOK', CountInv, NEW p \in Procs, Crash(p)
  PROVE  CountInv'
<1>1. UNCHANGED <<inc, puts, store, history>>
  BY DEF Crash, etcdVars
<1>2. CASE p = StubProc
  <2>1. chain'[StubProc] = "idle" /\ waitIndex'[StubProc] = 0
    BY <1>2, StubIsAProcess DEF Crash, TypeOK
  <2>2. dbNum' = 0 /\ dialled' = [d \in Dbs |-> 0]
    BY <1>2 DEF Crash
  <2> QED
    BY <1>1, <2>1, <2>2, CountRestarts
<1>3. CASE p # StubProc
  <2>1. dialled' = dialled /\ dbNum' = dbNum
    BY <1>3 DEF Crash, gameVars
  <2>2. UNCHANGED <<chain[StubProc], answer[StubProc], waitIndex[StubProc]>>
    <3>1. CASE p \in Watchers
      BY <1>3, <3>1, StubIsAProcess DEF Crash, TypeOK
    <3>2. CASE p \notin Watchers
      BY <3>2 DEF Crash, viewVars
    <3> QED
      BY <3>1, <3>2
  <2>3. \A d \in Dbs : dialled'[d] <= dialled[d] /\ Len(puts'[d]) + inc[d] <= Len(puts[d]) + inc'[d]
    BY <1>1, <2>1, CountTypes
  <2> QED
    BY <1>1, <2>1, <2>2, <2>3, CountStays
<1> QED
  BY <1>2, <1>3

LEMMA EventCounts ==
  ASSUME TypeOK, TypeOK', CountInv, NEW p \in Procs, Put(p) \/ Expire(p)
  PROVE  CountInv'
<1>1. UNCHANGED <<inc, dialled, dbNum, chain, answer, waitIndex>>
  BY DEF Put, Expire, gameVars, viewVars
<1>2. CASE Put(p)
  <2> DEFINE e == [action |-> "set", proc |-> p, value |-> Head(puts[p])]
  <2>1. puts[p] \in Seq(Values) /\ puts[p] # <<>>
    BY <1>2 DEF Put, TypeOK
  <2>2. e \in Events /\ history' = Append(history, e)
    BY <1>2, <2>1 DEF Put, Events
  <2>3. ASSUME NEW d \in Dbs
        PROVE  IF e.proc = d /\ e.action = "set" THEN Len(puts'[d]) = Len(puts[d]) - 1
               ELSE Len(puts'[d]) = Len(puts[d]) /\ (store'[d] # NULL => store[d] # NULL)
    <3>1. CASE d = p
      <4>1. puts'[d] = Tail(puts[p])
        BY <1>2, <3>1 DEF Put, TypeOK
      <4> QED
        BY <2>1, <3>1, <4>1
    <3>2. CASE d # p
      <4>1. puts'[d] = puts[d] /\ store'[d] = store[d]
        BY <1>2, <3>2, StubIsAProcess DEF Put, TypeOK
      <4> QED
        BY <3>2, <4>1
    <3> QED
      BY <3>1, <3>2
  <2> HIDE DEF e
  <2> QED
    BY <1>1, <2>2, <2>3, CountAtEvent
<1>3. CASE Expire(p)
  <2> DEFINE e == [action |-> "expire", proc |-> p, value |-> NULL]
  <2>1. e \in Events /\ history' = Append(history, e) /\ e.action # "set"
    BY <1>3 DEF Expire, Events
  <2>2. ASSUME NEW d \in Dbs
        PROVE  IF e.proc = d /\ e.action = "set" THEN Len(puts'[d]) = Len(puts[d]) - 1
               ELSE Len(puts'[d]) = Len(puts[d]) /\ (store'[d] # NULL => store[d] # NULL)
    BY <1>3, <2>1, StubIsAProcess DEF Expire, TypeOK
  <2> HIDE DEF e
  <2> QED
    BY <1>1, <2>1, <2>2, CountAtEvent
<1> QED
  BY <1>2, <1>3

(* Steps of game 1 and of others that neither tell it of db_managers nor   *)
(* count them.                                                             *)
LEMMA OtherCounts ==
  ASSUME TypeOK, TypeOK', CountInv, UNCHANGED <<inc, dbNum, store, history, waitIndex[StubProc]>>,
         \A d \in Dbs : dialled'[d] <= dialled[d] /\ Len(puts'[d]) <= Len(puts[d]),
         \/ chain'[StubProc] = chain[StubProc] /\ answer'[StubProc] = answer[StubProc]
         \/ /\ chain'[StubProc] # "answered"
            /\ chain'[StubProc] \in {"idle", "all"} => chain[StubProc] \in {"idle", "all"}
  PROVE  CountInv'
<1>1. ASSUME NEW d \in Dbs PROVE Len(puts'[d]) + inc[d] <= Len(puts[d]) + inc'[d]
  <2>1. inc[d] \in Nat /\ Len(puts[d]) \in Nat /\ inc'[d] = inc[d]
    BY CountTypes
  <2>2. puts'[d] \in Seq(Values)
    BY StubIsAProcess DEF TypeOK
  <2>3. Len(puts'[d]) \in Nat /\ Len(puts'[d]) <= Len(puts[d])
    BY <2>2
  <2> QED
    BY <2>1, <2>3
<1> QED
  BY <1>1, CountStays

LEMMA PutFailsCounts ==
  ASSUME TypeOK, TypeOK', CountInv, NEW p \in Procs, PutFails(p)
  PROVE  CountInv'
<1>1. UNCHANGED <<inc, dialled, dbNum, store, history, chain, answer, waitIndex>>
  BY DEF PutFails, gameVars, etcdVars, viewVars
<1>2. ASSUME NEW d \in Dbs PROVE dialled'[d] <= dialled[d] /\ Len(puts'[d]) <= Len(puts[d])
  <2>1. puts[d] \in Seq(Values) /\ dialled[d] \in Nat /\ puts[p] # <<>>
    BY StubIsAProcess, CountTypes DEF TypeOK, PutFails
  <2>2. puts'[d] = puts[d] \/ (d = p /\ puts'[d] = Tail(puts[d]))
    BY StubIsAProcess DEF TypeOK, PutFails
  <2>3. CASE puts'[d] = puts[d]
    BY <1>1, <2>1, <2>3
  <2>4. CASE d = p /\ puts'[d] = Tail(puts[d])
    <3>1. puts[d] # <<>> /\ Len(Tail(puts[d])) = Len(puts[d]) - 1 /\ Len(puts[d]) \in Nat
      BY <2>1, <2>4
    <3> QED
      BY <1>1, <2>1, <2>4, <3>1
  <2> QED
    BY <2>2, <2>3, <2>4
<1> QED
  BY <1>1, <1>2, OtherCounts

LEMMA RequestCounts ==
  ASSUME TypeOK, TypeOK', CountInv, NEW w \in Watchers, RequestAll(w) \/ RequestFails(w)
  PROVE  CountInv'
<1>1. UNCHANGED <<inc, dialled, dbNum, puts, store, history, answer, waitIndex>>
  BY DEF RequestAll, RequestFails, gameVars, etcdVars
<1>2. \A d \in Dbs : dialled'[d] <= dialled[d] /\ Len(puts'[d]) <= Len(puts[d])
  BY <1>1, CountTypes
<1>3. \/ chain'[StubProc] = chain[StubProc]
      \/ chain[StubProc] = "idle" /\ chain'[StubProc] = "all"
      \/ chain'[StubProc] = "ended"
  BY StubIsAProcess DEF RequestAll, RequestFails, TypeOK
<1> QED
  BY <1>1, <1>2, <1>3, OtherCounts

LEMMA AnswerAllCounts ==
  ASSUME TypeOK, TypeOK', CountInv, NEW w \in Watchers, AnswerAll(w)
  PROVE  CountInv'
<1>1. UNCHANGED <<inc, dialled, dbNum, puts, store, history, waitIndex>>
  BY DEF AnswerAll, gameVars, etcdVars
<1>2. \A d \in Dbs : dialled'[d] <= dialled[d] /\ Len(puts'[d]) <= Len(puts[d])
  BY <1>1, CountTypes
<1>3. CASE w # StubProc \/ Present = {}
  <2>1. \/ chain'[StubProc] = chain[StubProc] /\ answer'[StubProc] = answer[StubProc]
        \/ chain'[StubProc] = "ended"
    BY <1>3, StubIsAProcess DEF AnswerAll, TypeOK
  <2> QED
    BY <1>1, <1>2, <2>1, OtherCounts
<1>4. CASE w = StubProc /\ Present # {}
  <2> DEFINE a == Listing(Len(history), Restrict(store, Present))
  <2>1. chain[StubProc] = "all" /\ chain'[StubProc] = "answered" /\ answer'[StubProc] = a
    BY <1>4, StubIsAProcess DEF AnswerAll, TypeOK
  <2>2. a.action = "set" /\ a.index = Len(history) /\ DOMAIN a.values = Present
    BY DEF Listing, Restrict
  <2>3. waitIndex[StubProc] = 0 /\ Len(history) \in Nat /\ Len(history) \in 0..Len(history)
    BY <2>1, CountTypes DEF CountInv, TellsOfStarts
  <2>4. ASSUME NEW d \in Dbs, d \in DOMAIN a.values
        PROVE  \E i \in StartsAfter(history, d, 0) : i <= a.index
    <3>1. StartsAfter(history, d, 0) # {}
      BY <2>2, <2>4 DEF Present, CountInv, StartsAreStored
    <3>2. PICK i : i \in StartsAfter(history, d, 0)
      BY <3>1
    <3>3. i \in 1..Len(history)
      BY <3>2 DEF StartsAfter
    <3>4. i <= Len(history)
      BY <2>3, <3>3
    <3> QED
      BY <2>2, <3>2, <3>4
  <2> HIDE DEF a
  <2> QED
    BY <1>1, <2>1, <2>2, <2>3, <2>4, CountAtAnswer
<1> QED
  BY <1>3, <1>4

LEMMA AnswerOneCounts ==
  ASSUME TypeOK, TypeOK', CountInv, NEW w \in Watchers, AnswerOne(w)
  PROVE  CountInv'
<1>1. UNCHANGED <<inc, dialled, dbNum, puts, store, history, waitIndex>>
  BY DEF AnswerOne, gameVars, etcdVars
<1>2. \A d \in Dbs : dialled'[d] <= dialled[d] /\ Len(puts'[d]) <= Len(puts[d])
  BY <1>1, CountTypes
<1>3. CASE w # StubProc
  <2>1. chain'[StubProc] = chain[StubProc] /\ answer'[StubProc] = answer[StubProc]
    BY <1>3, StubIsAProcess DEF AnswerOne, TypeOK
  <2> QED
    BY <1>1, <1>2, <2>1, OtherCounts
<1>4. CASE w = StubProc
  <2> DEFINE i == Awaited(StubProc)
             e == history[i]
             a == IF e.action = "set" THEN Listing(i, [p \in {e.proc} |-> e.value])
                  ELSE [action |-> "expire", index |-> i, proc |-> e.proc]
  <2>1. chain'[StubProc] = "answered" /\ answer'[StubProc] = a
    <3>1. chain' = [chain EXCEPT ![StubProc] = "answered"] /\ answer' = [answer EXCEPT ![StubProc] = a]
      BY <1>4 DEF AnswerOne
    <3> HIDE DEF a
    <3> QED
      BY <3>1, StubIsAProcess DEF TypeOK
  <2>2. i = waitIndex[StubProc] + 1 /\ waitIndex[StubProc] \in Nat /\ i <= Len(history) /\ Len(history) \in Nat
    BY <1>4, CountTypes DEF AnswerOne, Awaited
  <2>3. /\ a.index = i /\ (a.action = "set" <=> e.action = "set")
        /\ e.action = "set" => a.values = [p \in {e.proc} |-> e.value]
    BY DEF Listing
  <2> HIDE DEF i
  <2>4. i \in waitIndex[StubProc]..Len(history) /\ i \in waitIndex[StubProc] + 1..Len(history) /\ i <= i
    BY <2>2
  <2>5. ASSUME e.action = "set", NEW d \in Dbs, d \in DOMAIN a.values
        PROVE  i \in StartsAfter(history, d, waitIndex[StubProc])
    <3>1. d = e.proc
      BY <2>3, <2>5
    <3> QED
      BY <2>4, <2>5, <3>1 DEF StartsAfter
  <2> HIDE DEF a
  <2> QED
    BY <1>1, <2>1, <2>3, <2>4, <2>5, CountAtAnswer
<1> QED
  BY <1>3, <1>4

LEMMA ApplyCounts ==
  ASSUME TypeOK, TypeOK', CountInv, NEW w \in Watchers, OnRegisterEntities(w) \/ OnUnregisterProcess(w)
  PROVE  CountInv'
<1>1. UNCHANGED <<inc, dbNum, puts, store, history>>
  BY DEF OnRegisterEntities, OnUnregisterProcess, gameVars, etcdVars
<1>2. Watch(w) /\ chain[w] = "answered"
  BY DEF OnRegisterEntities, OnUnregisterProcess
<1>3. CASE w # StubProc
  <2>1. UNCHANGED <<chain[StubProc], answer[StubProc], waitIndex[StubProc]>>
    BY <1>2, <1>3, StubIsAProcess DEF Watch, TypeOK
  <2>2. dialled' = dialled
    BY <1>3 DEF OnRegisterEntities, OnUnregisterProcess, gameVars
  <2>3. \A d \in Dbs : dialled'[d] <= dialled[d] /\ Len(puts'[d]) <= Len(puts[d])
    BY <1>1, <2>2, CountTypes
  <2> QED
    BY <1>1, <2>1, <2>3, OtherCounts
<1>4. CASE w = StubProc
  <2>1. chain'[StubProc] = "one" /\ waitIndex'[StubProc] = answer[StubProc].index
    BY <1>2, <1>4, StubIsAProcess DEF Watch, TypeOK
  <2>2. \A d \in Dbs : \/ dialled'[d] = dialled[d]
                       \/ /\ answer[StubProc].action = "set" /\ d \in DOMAIN answer[StubProc].values
                          /\ dialled'[d] = dialled[d] + 1
    <3>1. CASE OnRegisterEntities(w)
      BY <1>4, <3>1 DEF OnRegisterEntities, Connected
    <3>2. CASE OnUnregisterProcess(w)
      BY <3>2 DEF OnUnregisterProcess, gameVars
    <3> QED
      BY <3>1, <3>2
  <2> QED
    BY <1>1, <1>2, <1>4, <2>1, <2>2, CountAtWatch
<1> QED
  BY <1>3, <1>4

LEMMA ConnectionCounts ==
  ASSUME TypeOK, TypeOK', CountInv, NEW d \in Dbs, ConnectionLost(d) \/ RegisterDb(d)
  PROVE  CountInv'
<1>1. UNCHANGED <<inc, puts, store, history, chain, answer, waitIndex>>
  BY DEF ConnectionLost, RegisterDb, etcdVars, viewVars
<1>2. dialled[d] > 0 /\ dialled' = [dialled EXCEPT ![d] = @ - 1]
  BY DEF ConnectionLost, RegisterDb
<1>3. CASE ConnectionLost(d)
  <2>1. \A c \in Dbs : dialled'[c] <= dialled[c] /\ Len(puts'[c]) <= Len(puts[c])
    <3>1. \A c \in Dbs : dialled[c] \in Nat /\ Len(puts[c]) \in Nat
      BY CountTypes
    <3>2. \A c \in Dbs : dialled'[c] = dialled[c] \/ dialled'[c] = dialled[c] - 1
      BY <1>2 DEF TypeOK
    <3>3. \A c \in Dbs : puts'[c] = puts[c]
      BY <1>1
    <3> QED
      BY <3>1, <3>2, <3>3
  <2>2. dbNum' = dbNum
    BY <1>3 DEF ConnectionLost
  <2> QED
    BY <1>1, <2>1, <2>2, OtherCounts
<1>4. CASE RegisterDb(d)
  <2>1. dbNum' = dbNum + 1
    BY <1>4 DEF RegisterDb
  <2> QED
    BY <1>1, <1>2, <2>1, CountAtRegistration
<1> QED
  BY <1>3, <1>4

LEMMA RealRegisterEntityCounts ==
  ASSUME TypeOK, TypeOK', CountInv, RealRegisterEntity
  PROVE  CountInv'
<1>1. UNCHANGED <<inc, dialled, dbNum, store, history, chain, answer, waitIndex>>
  BY DEF RealRegisterEntity, etcdVars, viewVars
<1>2. \A d \in Dbs : puts'[d] = puts[d]
  BY StubIsAProcess DEF RealRegisterEntity, TypeOK
<1>3. \A d \in Dbs : dialled'[d] <= dialled[d] /\ Len(puts'[d]) <= Len(puts[d])
  BY <1>1, <1>2, CountTypes
<1> QED
  BY <1>1, <1>3, OtherCounts

LEMMA NextCounts == TypeOK /\ TypeOK' /\ CountInv /\ [Next]_vars => CountInv'
<1> SUFFICES ASSUME TypeOK, TypeOK', CountInv, [Next]_vars PROVE CountInv'
  OBVIOUS
<1>1. ASSUME NEW p \in Procs, Start(p) \/ Crash(p) \/ Put(p) \/ PutFails(p) \/ Expire(p)
      PROVE  CountInv'
  BY <1>1, StartCounts, CrashCounts, EventCounts, PutFailsCounts
<1>2. ASSUME NEW w \in Watchers, RequestAll(w) \/ Http(w) \/ RequestFails(w) \/ Apply(w)
      PROVE  CountInv'
  BY <1>2, RequestCounts, AnswerAllCounts, AnswerOneCounts, ApplyCounts DEF Http, Apply
<1>3. ASSUME NEW d \in Dbs, ConnectionLost(d) \/ RegisterDb(d)
      PROVE  CountInv'
  BY <1>3, ConnectionCounts
<1>4. CASE RealRegisterEntity
  BY <1>4, RealRegisterEntityCounts
<1>5. CASE UNCHANGED vars
  <2>1. UNCHANGED <<inc, dialled, dbNum, puts, store, history, chain, answer, waitIndex>>
    BY <1>5 DEF vars, gameVars, etcdVars, viewVars
  <2>2. \A d \in Dbs : dialled'[d] <= dialled[d] /\ Len(puts'[d]) <= Len(puts[d])
    BY <2>1, CountTypes
  <2> QED
    BY <2>1, <2>2, OtherCounts
<1> QED
  BY <1>1, <1>2, <1>3, <1>4, <1>5 DEF Next

(* game_server::register_server counts each start of a db_manager at most  *)
(* once, also the connections under way, however often game 1 restarts,    *)
(* keys expire and requests fail.                                          *)
THEOREM StartsAreCountedOnce == Spec => []CountsStartsOfDbs
<1>1. Init => CountInv
  BY CountInit
<1>2. TypeOK /\ TypeOK' /\ CountInv /\ [Next]_vars => CountInv'
  BY NextCounts
<1>3. TypeOK /\ CountInv => CountsStartsOfDbs
  BY CountsFromDbs
<1> QED
  BY <1>1, <1>2, <1>3, TypeCorrect, PTL DEF Spec
=============================================================================
