-------------------------- MODULE RpcWrapperProofs --------------------------
(***************************************************************************)
(* Proofs about RpcWrapper, for any processes, kinds, tables and bounds.   *)
(*                                                                         *)
(* 1. The three maps of a process point only at clients that live (IInv).  *)
(* A client has one of two names.  One made for a connection is named by   *)
(* its end and always has its handler; one made for an address is the      *)
(* entry of that address for as long as it lives.  So the client that      *)
(* HandleInit takes over is either new or waits, no other socket knows it, *)
(* and the client that HandleClose deletes is known to at most one entry   *)
(* of each map, the one it erases.                                         *)
(*                                                                         *)
(* 2. The types of queues, executors, caches and counts (TInv).  As the    *)
(* calls said on all links are bounded, each number is within the bound.   *)
(*                                                                         *)
(* 3. What stands (SInv): what breaks is cut, what is closed is broken and *)
(* was read, only a client that waits keeps calls, and the requests of a   *)
(* game to a db_manager, while they are not cut, have one connection.      *)
(*                                                                         *)
(* 4. What is said is heard in order (OInv).  Everything on the way of a   *)
(* link is an item with a place and a position: in a queue, ahead of the   *)
(* queue in an executor, or in the cache of a client.  The items in time   *)
(* are in one place, and there in the order of their numbers, without gaps *)
(* after what was heard.  Each action moves items without overtaking,      *)
(* appends one behind all others, or takes the first.                      *)
(***************************************************************************)
EXTENDS RpcWrapper, Functions, FiniteSetTheorems, WellFoundedInduction, SequenceTheorems, TLAPS

(* A set of numbers that is not empty has a least one: what is true of the *)
(* first and passes from each number to the next is true of all.           *)
LEMMA LeastNat ==
  ASSUME NEW T, T \subseteq Nat, T # {}
  PROVE  \E x \in T : \A y \in T : x <= y
<1>1. \E x \in T : \A y \in T : ~ (<<y, x>> \in OpToRel(<, Nat))
  BY WFMin, NatLessThanWellFounded
<1>2. OpToRel(<, Nat) = {ss \in Nat \X Nat : ss[1] < ss[2]}
  BY Zenon DEF OpToRel
<1>3. \A x \in Nat, y \in Nat : <<y, x>> \in OpToRel(<, Nat) <=> y < x
  BY <1>2, Zenon
<1>4. \E x \in T : \A y \in T : ~ (y < x)
  BY <1>1, <1>3, Zenon
<1> QED
  BY <1>4

-----------------------------------------------------------------------------
(* The element a sum takes next, and the table of the sums over the        *)
(* subsets of S.                                                           *)
Taken(s) == CHOOSE x \in s : TRUE
IsSums(g, f, S) ==
  g = [s \in SUBSET S |-> IF s = {} THEN 0 ELSE f[Taken(s)] + g[s \ {Taken(s)}]]

(* It is one of the set.                                                   *)
LEMMA TakenIsIn == ASSUME NEW s, s # {} PROVE Taken(s) \in s
BY DEF Taken

(* What passes to each set from its proper subsets holds of every subset   *)
(* of a finite set.                                                        *)
LEMMA EverySubset ==
  ASSUME NEW S, IsFiniteSet(S), NEW T,
         \A s \in SUBSET S : (\A t \in SUBSET s : t # s => t \in T) => s \in T
  PROVE  \A s \in SUBSET S : s \in T
<1> DEFINE N == {n \in Nat : \E s \in SUBSET S : s \notin T /\ Cardinality(s) = n}
<1> SUFFICES ASSUME NEW s0 \in SUBSET S, s0 \notin T PROVE FALSE
  OBVIOUS
<1>1. \A s \in SUBSET S : IsFiniteSet(s) /\ Cardinality(s) \in Nat
  BY FS_Subset, FS_CardinalityType
<1>2. N \subseteq Nat /\ N # {}
  BY <1>1
<1>3. PICK n \in N : \A m \in N : n <= m
  <2> HIDE DEF N
  <2> QED
    BY <1>2, LeastNat
<1>4. PICK s \in SUBSET S : s \notin T /\ Cardinality(s) = n
  OBVIOUS
<1>5. PICK t \in SUBSET s : t # s /\ t \notin T
  BY <1>4
<1>6. Cardinality(t) < n /\ t \in SUBSET S
  BY <1>1, <1>4, <1>5, FS_Subset
<1>7. Cardinality(t) \in N
  BY <1>1, <1>5, <1>6
<1> QED
  BY <1>1, <1>3, <1>6, <1>7

(* Two tables agree where both are defined, ...                            *)
LEMMA SumsAgree ==
  ASSUME NEW S, IsFiniteSet(S), NEW R, S \subseteq R, NEW f, NEW g, NEW h,
         IsSums(g, f, S), IsSums(h, f, R)
  PROVE  \A s \in SUBSET S : g[s] = h[s]
<1> DEFINE T == {s \in SUBSET S : g[s] = h[s]}
<1>1. {} \in T
  BY DEF IsSums
<1>2. ASSUME NEW s \in SUBSET S, \A t \in SUBSET s : t # s => t \in T PROVE s \in T
  <2>1. CASE s = {}
    BY <1>1, <2>1
  <2>2. CASE s # {}
    <3>1. Taken(s) \in s /\ s \ {Taken(s)} \in T
      BY <1>2, <2>2, TakenIsIn
    <3>2. g[s] = f[Taken(s)] + g[s \ {Taken(s)}]
      BY <2>2 DEF IsSums
    <3>3. h[s] = f[Taken(s)] + h[s \ {Taken(s)}]
      BY <2>2 DEF IsSums
    <3> QED
      BY <3>1, <3>2, <3>3
  <2> QED
    BY <2>1, <2>2
<1>3. \A s \in SUBSET S : s \in T
  <2> HIDE DEF T
  <2> QED
    BY <1>2, EverySubset
<1> QED
  BY <1>3

(* ... there is one for every finite set, ...                              *)
LEMMA SumsExist ==
  ASSUME NEW S, IsFiniteSet(S), NEW f
  PROVE  \E g : IsSums(g, f, S)
<1> DEFINE T == {s \in SUBSET S : \E g : IsSums(g, f, s)}
           Table(s) == CHOOSE g : IsSums(g, f, s)
<1>1. ASSUME NEW s \in SUBSET S, \A t \in SUBSET s : t # s => t \in T PROVE s \in T
  <2> DEFINE Up(u) == IF u = {} THEN 0
                      ELSE f[Taken(u)] + Table(u \ {Taken(u)})[u \ {Taken(u)}]
             g == [u \in SUBSET s |-> Up(u)]
  <2>1. \A t \in SUBSET s : t # s => IsSums(Table(t), f, t)
    BY <1>1
  <2>2. ASSUME NEW u \in SUBSET s, u # s PROVE g[u] = Table(u)[u]
    <3>1. IsSums(Table(u), f, u)
      BY <2>1, <2>2
    <3>2. CASE u = {}
      BY <3>1, <3>2 DEF IsSums
    <3>3. CASE u # {}
      <4> DEFINE r == u \ {Taken(u)}
      <4>1. r \in SUBSET u /\ r \in SUBSET s /\ r # s
        BY <2>2
      <4>2. IsSums(Table(r), f, r) /\ IsFiniteSet(r)
        BY <2>1, <4>1, FS_Subset
      <4>3. Table(r)[r] = Table(u)[r]
        <5> HIDE DEF Table, r
        <5> QED
          BY <3>1, <4>1, <4>2, SumsAgree
      <4>4. Table(u)[u] = f[Taken(u)] + Table(u)[r]
        <5> HIDE DEF Table
        <5> QED
          BY <3>1, <3>3 DEF IsSums
      <4> QED
        BY <3>3, <4>3, <4>4
    <3> QED
      BY <3>2, <3>3
  <2>3. IsSums(g, f, s)
    <3>1. ASSUME NEW u \in SUBSET s
          PROVE  g[u] = IF u = {} THEN 0 ELSE f[Taken(u)] + g[u \ {Taken(u)}]
      <4>1. CASE u = {}
        BY <4>1
      <4>2. CASE u # {}
        <5>1. Taken(u) \in u /\ u \ {Taken(u)} \in SUBSET s /\ u \ {Taken(u)} # s
          BY <4>2, TakenIsIn
        <5>2. g[u \ {Taken(u)}] = Table(u \ {Taken(u)})[u \ {Taken(u)}]
          BY <2>2, <5>1
        <5> HIDE DEF Table
        <5> QED
          BY <4>2, <5>2
      <4> QED
        BY <4>1, <4>2
    <3>2. g = [u \in SUBSET s |-> g[u]]
      OBVIOUS
    <3> HIDE DEF g
    <3> QED
      BY <3>1, <3>2 DEF IsSums
  <2> QED
    BY <2>3
<1>2. \A s \in SUBSET S : s \in T
  <2> HIDE DEF T
  <2> QED
    BY <1>1, EverySubset
<1> QED
  BY <1>2

(* ... and SumFunctionOnSet looks the sums up in it.                       *)
LEMMA SumsOf ==
  ASSUME NEW S, IsFiniteSet(S), NEW f
  PROVE  \E g : IsSums(g, f, S) /\ \A s \in SUBSET S : SumFunctionOnSet(f, s) = g[s]
<1>1. PICK g : IsSums(g, f, S)
  BY SumsExist
<1>2. ASSUME NEW s \in SUBSET S PROVE SumFunctionOnSet(f, s) = g[s]
  <2>1. SumFunctionOnSet(f, s) = (CHOOSE h : IsSums(h, f, s))[s]
    BY DEF SumFunctionOnSet, FoldFunctionOnSet, MapThenFoldSet, IsSums, Taken
  <2>2. IsFiniteSet(s)
    BY FS_Subset
  <2>3. \E h : IsSums(h, f, s)
    BY <2>2, SumsExist
  <2>4. IsSums(CHOOSE h : IsSums(h, f, s), f, s)
    BY <2>3
  <2>5. \A h : IsSums(h, f, s) => h[s] = g[s]
    BY <1>1, <2>2, SumsAgree
  <2> QED
    BY <2>1, <2>4, <2>5
<1> QED
  BY <1>1, <1>2

(* A sum over a set is the value of its next element and the sum of the    *)
(* others.                                                                 *)
LEMMA SumStep ==
  ASSUME NEW S, IsFiniteSet(S), NEW f
  PROVE  \A s \in SUBSET S :
           /\ s = {} => SumFunctionOnSet(f, s) = 0
           /\ s # {} => /\ Taken(s) \in s
                        /\ SumFunctionOnSet(f, s) =
                             f[Taken(s)] + SumFunctionOnSet(f, s \ {Taken(s)})
<1>1. PICK g : IsSums(g, f, S) /\ \A s \in SUBSET S : SumFunctionOnSet(f, s) = g[s]
  BY SumsOf
<1>2. ASSUME NEW s \in SUBSET S, s # {}
      PROVE  SumFunctionOnSet(f, s) = f[Taken(s)] + SumFunctionOnSet(f, s \ {Taken(s)})
  <2>1. s \ {Taken(s)} \in SUBSET S
    OBVIOUS
  <2>2. g[s] = f[Taken(s)] + g[s \ {Taken(s)}]
    BY <1>1, <1>2 DEF IsSums
  <2> QED
    BY <1>1, <2>1, <2>2
<1>3. ASSUME NEW s \in SUBSET S, s = {} PROVE SumFunctionOnSet(f, s) = 0
  BY <1>1, <1>3 DEF IsSums
<1> QED
  BY <1>2, <1>3, TakenIsIn

(* A sum of numbers is a number, and no less than each of them.            *)
LEMMA SumBounds ==
  ASSUME NEW S, IsFiniteSet(S), NEW f, \A x \in S : f[x] \in Nat
  PROVE  /\ SumFunctionOnSet(f, S) \in Nat
         /\ \A x \in S : f[x] <= SumFunctionOnSet(f, S)
<1> DEFINE F(s) == SumFunctionOnSet(f, s)
           T == {s \in SUBSET S : F(s) \in Nat /\ \A x \in s : f[x] <= F(s)}
<1>1. ASSUME NEW s \in SUBSET S, \A t \in SUBSET s : t # s => t \in T PROVE s \in T
  <2>1. CASE s = {}
    <3>1. F(s) = 0
      BY <2>1, SumStep
    <3> QED
      BY <2>1, <3>1
  <2>2. CASE s # {}
    <3> DEFINE y == Taken(s)
               r == s \ {y}
    <3>1. y \in s /\ F(s) = f[y] + F(r)
      BY <2>2, SumStep
    <3>2. r \in T
      BY <1>1, <3>1
    <3>3. F(r) \in Nat /\ \A x \in r : f[x] <= F(r)
      BY <3>2
    <3>4. f[y] \in Nat /\ \A x \in s : f[x] \in Nat /\ (x = y \/ x \in r)
      BY <3>1
    <3> HIDE DEF F, y, r
    <3>5. F(s) \in Nat /\ \A x \in s : f[x] <= F(s)
      BY <3>1, <3>3, <3>4
    <3> QED
      BY <3>5
  <2> QED
    BY <2>1, <2>2
<1>2. \A s \in SUBSET S : s \in T
  <2> HIDE DEF T
  <2> QED
    BY <1>1, EverySubset
<1>3. S \in T
  <2> HIDE DEF T
  <2> QED
    BY <1>2
<1> QED
  BY <1>3

-----------------------------------------------------------------------------

Plain == [live: BOOLEAN, handler: Ends \cup {None},
          cache: Seq([what: {"register_server", "entity", "add_executor", "answer"},
                      about: Tables \cup {"entity"}, no: Nat])]

Shape ==
  /\ kind \in [Procs -> {"game", "db"}]
  /\ conns \in Seq([dialer: Procs, acceptor: Procs]) /\ Len(conns) <= MaxConns
  /\ stage \in [Ends -> {"none", "new", "open", "closed"}]
  /\ client \in [Procs -> [Names -> Plain]]
  /\ bySocket \in [Ends -> Names \cup {None}]
  /\ byProcess \in [Procs -> [Procs -> Names \cup {None}]]
  /\ byAddress \in [Procs -> [Procs -> Names \cup {None}]]
  /\ said \in [Links -> Nat]

(* Only the ends of connections that were made are in use.                 *)
EndsAreMade == \A e \in Ends : stage[e] # "none" => e[1] \in 1..Len(conns)

(* The open ends are those that have a client, which has them.             *)
OpenEndsHaveClients ==
  \A e \in Ends :
    /\ bySocket[e] # None <=> stage[e] = "open"
    /\ stage[e] = "open" => /\ client[Owner(e)][bySocket[e]].live
                            /\ client[Owner(e)][bySocket[e]].handler = e

(* A client that has a handler is found by it.                             *)
ClientsAreFound ==
  \A p \in Procs, n \in Names, h \in Ends :
    client[p][n].live /\ client[p][n].handler = h => bySocket[h] = n /\ Owner(h) = p

(* What the name of a client says.                                         *)
NamesFit ==
  \A p \in Procs :
    /\ \A n \in Ends : client[p][n].live => client[p][n].handler = n
    /\ \A n \in Procs : client[p][n].live => byAddress[p][n] = n

(* The entries of the maps.                                                *)
LedBy(p, n, q) ==
  \E h \in Ends : /\ client[p][n].live /\ client[p][n].handler = h
                  /\ bySocket[h] = n /\ Owner(h) = p /\ Peer(h) = q
Waits(p, q) ==
  byAddress[p][q] = q /\ client[p][q].live /\ client[p][q].handler = None
EntriesLead ==
  \A p \in Procs, q \in Procs, n \in Names :
    /\ byProcess[p][q] = n => LedBy(p, n, q)
    /\ byAddress[p][q] = n => LedBy(p, n, q) \/ Waits(p, q)

(* A game that dials a game waits for it, and dials once; the address of a *)
(* db_manager is never entered.                                            *)
Games(p, q) == kind[p] = "game" /\ kind[q] = "game"
Dialing(e) == stage[e] = "new" /\ e[2] = "dialer" /\ Games(Owner(e), Peer(e))
DialersWait ==
  \A e \in Ends : Dialing(e) =>
    /\ Waits(Owner(e), Peer(e))
    /\ \A f \in Ends : Dialing(f) /\ Owner(f) = Owner(e) /\ Peer(f) = Peer(e) => f = e
OnlyGamesHaveAddresses ==
  \A p \in Procs, q \in Procs : byAddress[p][q] # None => Games(p, q)

IInv ==
  /\ Shape /\ EndsAreMade /\ OpenEndsHaveClients /\ ClientsAreFound /\ NamesFit
  /\ EntriesLead /\ DialersWait /\ OnlyGamesHaveAddresses

-----------------------------------------------------------------------------
(* The ends of a connection, and their processes.                          *)
LEMMA EndFacts ==
  ASSUME NEW e \in Ends
  PROVE  /\ Other(e) \in Ends /\ Other(e)[1] = e[1]
         /\ e[1] \in 1..MaxConns /\ e[2] \in Sides
  BY DEF Ends, Sides, Other

(* An end that some process sees is of a connection that was made.         *)
LEMMA EndOwners ==
  ASSUME Shape, NEW e \in Ends, e[1] \in 1..Len(conns)
  PROVE  Owner(e) \in Procs /\ Peer(e) \in Procs
<1>1. conns[e[1]] \in [dialer: Procs, acceptor: Procs]
  <2>1. ASSUME NEW S, conns \in Seq(S), NEW i \in 1..Len(conns)
        PROVE  conns[i] \in S
    BY <2>1
  <2>2. conns \in Seq([dialer: Procs, acceptor: Procs])
    BY DEF Shape
  <2> QED
    BY <2>1, <2>2
<1>2. conns[e[1]]["dialer"] \in Procs /\ conns[e[1]]["acceptor"] \in Procs
  BY <1>1
<1>3. e[2] \in {"dialer", "acceptor"} /\ Other(e)[2] \in {"dialer", "acceptor"}
  BY EndFacts DEF Sides
<1>4. conns[e[1]][e[2]] \in Procs /\ conns[Other(e)[1]][Other(e)[2]] \in Procs
  BY <1>2, <1>3, EndFacts
<1> QED
  BY <1>4 DEF Owner, Peer

(* A step that makes no connection leaves the owners of ends alone; one    *)
(* that does leaves those of the ends in use alone.                        *)
LEMMA OwnersStay ==
  ASSUME UNCHANGED conns
  PROVE  \A e \in Ends : Owner(e)' = Owner(e) /\ Peer(e)' = Peer(e)
  BY DEF Owner, Peer, Other

(* A new connection leaves the ends of the others as they are.             *)
LEMMA OwnersGrow ==
  ASSUME Shape, NEW x, conns' = Append(conns, x), NEW e \in Ends, e[1] \in 1..Len(conns)
  PROVE  Owner(e)' = Owner(e) /\ Peer(e)' = Peer(e)
<1>1. conns'[e[1]] = conns[e[1]]
  BY DEF Shape
<1> QED
  BY <1>1, EndFacts DEF Owner, Peer

(* The processes of an end that the logic thread has seen.                 *)
LEMMA SeenOwners ==
  ASSUME IInv, NEW e \in Ends, stage[e] # "none"
  PROVE  Owner(e) \in Procs /\ Peer(e) \in Procs /\ e[1] \in 1..Len(conns)
  BY EndOwners DEF IInv, EndsAreMade

(* The start.                                                              *)
LEMMA InitInv == Init => IInv
<1> SUFFICES ASSUME Init PROVE IInv
  OBVIOUS
<1>1. Shape
  <2>1. kind \in [Procs -> {"game", "db"}]
    BY KindsAssumption DEF Init
  <2>2. Gone \in Plain
    BY DEF Gone, Plain
  <2>3. client \in [Procs -> [Names -> Plain]]
    BY <2>2 DEF Init
  <2> QED
    BY <2>1, <2>3, NamesAssumption DEF Init, Shape
<1>2. \A p \in Procs, n \in Names : ~client[p][n].live
  BY DEF Init, Gone
<1>3. Ends \subseteq Names /\ Procs \subseteq Names
  BY DEF Names
<1>4. EndsAreMade /\ OpenEndsHaveClients /\ DialersWait
  BY DEF Init, EndsAreMade, OpenEndsHaveClients, DialersWait, Dialing
<1>5. ClientsAreFound /\ NamesFit
  BY <1>2, <1>3 DEF ClientsAreFound, NamesFit
<1>6. EntriesLead /\ OnlyGamesHaveAddresses
  BY NamesAssumption DEF Init, EntriesLead, OnlyGamesHaveAddresses
<1> QED
  BY <1>1, <1>4, <1>5, <1>6 DEF IInv

-----------------------------------------------------------------------------
(* HandleInit takes over a client that is new or waits.                    *)
LEMMA TakenOver ==
  ASSUME IInv, NEW e \in Ends, stage[e] = "new", NEW p, p = Owner(e)
  PROVE  /\ WaitingFor(e) \in Names
         /\ ~\E h \in Ends : bySocket[h] = WaitingFor(e) /\ Owner(h) = p
         /\ \/ WaitingFor(e) = e
            \/ WaitingFor(e) = Peer(e) /\ Waits(p, Peer(e)) /\ Dialing(e)
<1> DEFINE n == WaitingFor(e)
<1>1. p \in Procs /\ Peer(e) \in Procs
  BY SeenOwners
<1>2. \/ n = e
      \/ n = Peer(e) /\ Waits(p, Peer(e)) /\ Dialing(e)
  BY <1>1 DEF IInv, OnlyGamesHaveAddresses, DialersWait, Dialing, Waits, WaitingFor
<1>3. n \in Names
  BY <1>1, <1>2 DEF Names
<1>4. ASSUME NEW h \in Ends, bySocket[h] = n, Owner(h) = p
      PROVE  FALSE
  <2>1. stage[h] = "open" /\ client[p][n].live /\ client[p][n].handler = h
    BY <1>3, <1>4, NamesAssumption DEF IInv, OpenEndsHaveClients
  <2>2. CASE n = e
    BY <1>1, <2>1, <2>2 DEF IInv, NamesFit
  <2>3. CASE Waits(p, Peer(e)) /\ n = Peer(e)
    <3>1. None \notin Ends
      BY NamesAssumption DEF Names
    <3> QED
      BY <2>1, <2>3, <3>1 DEF Waits
  <2> QED
    BY <1>2, <2>2, <2>3
<1> QED
  BY <1>2, <1>3, <1>4

(* HandleInit takes over a client that no other socket knows, or makes     *)
(* one.                                                                    *)
LEMMA InitStep == ASSUME IInv, NEW e \in Ends, HandleInit(e) PROVE IInv'
<1> SUFFICES ASSUME NEW p, p = Owner(e), NEW n, n = WaitingFor(e) PROVE IInv'
  OBVIOUS
<1> DEFINE c == [live |-> TRUE, handler |-> e, cache |-> <<>>]
<1>1. stage[e] = "new" /\ p \in Procs /\ Peer(e) \in Procs /\ e[1] \in 1..Len(conns)
  BY SeenOwners DEF HandleInit
<1>2. /\ n \in Names
      /\ \A h \in Ends : ~(bySocket[h] = n /\ Owner(h) = p)
      /\ \/ n = e
         \/ n = Peer(e) /\ Waits(p, Peer(e)) /\ Dialing(e)
  BY <1>1, TakenOver
<1>3. \A f \in Ends : Owner(f)' = Owner(f) /\ Peer(f)' = Peer(f)
  BY OwnersStay DEF HandleInit
<1>4. /\ UNCHANGED <<kind, conns, byProcess, byAddress, said>>
      /\ stage' = [stage EXCEPT ![e] = "open"]
      /\ bySocket' = [bySocket EXCEPT ![e] = n]
      /\ client' = [client EXCEPT ![p][n] = c]
  BY DEF HandleInit, history
<1>5. Shape'
  <2>1. c \in Plain
    BY DEF Plain
  <2> QED
    BY <1>1, <1>2, <1>4, <2>1 DEF IInv, Shape
<1>6. /\ \A f \in Ends : stage'[f] = IF f = e THEN "open" ELSE stage[f]
      /\ \A f \in Ends : bySocket'[f] = IF f = e THEN n ELSE bySocket[f]
      /\ \A q \in Procs, m \in Names :
           client'[q][m] = IF q = p /\ m = n THEN c ELSE client[q][m]
  BY <1>1, <1>2, <1>4 DEF IInv, Shape
<1>7. None \notin Names /\ None \notin Ends
  BY NamesAssumption DEF Names
<1>8. c.live /\ c.handler = e
  OBVIOUS
<1>9. p = Owner(e)
  OBVIOUS
<1>10. \A h \in Ends : stage[h] # "none" => Owner(h) \in Procs /\ Peer(h) \in Procs
  BY SeenOwners
<1>11. bySocket[e] = None /\ \A h \in Ends : stage[h] = "open" => h # e
  BY <1>1 DEF IInv, OpenEndsHaveClients
<1> HIDE DEF c
<1>12. EndsAreMade'
  BY <1>1, <1>4, <1>6 DEF IInv, EndsAreMade
<1>13. OpenEndsHaveClients'
  <2> SUFFICES ASSUME NEW f \in Ends
               PROVE  /\ bySocket'[f] # None <=> stage'[f] = "open"
                      /\ stage'[f] = "open" => /\ client'[Owner(f)][bySocket'[f]].live
                                               /\ client'[Owner(f)][bySocket'[f]].handler = f
    BY <1>3 DEF OpenEndsHaveClients
  <2>1. CASE f = e
    BY <1>1, <1>2, <1>6, <1>7, <1>8, <1>9, <2>1
  <2>2. CASE f # e
    <3>1. /\ bySocket[f] # None <=> stage[f] = "open"
          /\ stage[f] = "open" => /\ client[Owner(f)][bySocket[f]].live
                                  /\ client[Owner(f)][bySocket[f]].handler = f
      BY DEF IInv, OpenEndsHaveClients
    <3>2. bySocket[f] \in Names \cup {None}
      BY DEF IInv, Shape
    <3> QED
      BY <1>2, <1>6, <1>10, <2>2, <3>1, <3>2
  <2> QED
    BY <2>1, <2>2
<1>14. ClientsAreFound'
  <2> SUFFICES ASSUME NEW q \in Procs, NEW m \in Names, NEW h \in Ends,
                      client'[q][m].live, client'[q][m].handler = h
               PROVE  bySocket'[h] = m /\ Owner(h) = q
    BY <1>3 DEF ClientsAreFound
  <2>1. CASE q = p /\ m = n
    BY <1>6, <1>8, <1>9, <2>1
  <2>2. CASE ~(q = p /\ m = n)
    BY <1>6, <1>7, <1>11, <2>2 DEF IInv, ClientsAreFound
  <2> QED
    BY <2>1, <2>2
<1>15. NamesFit'
  <2>1. ASSUME NEW q \in Procs, NEW m \in Ends, client'[q][m].live
        PROVE  client'[q][m].handler = m
    BY <1>1, <1>2, <1>6, <1>8, <2>1, NamesAssumption DEF IInv, NamesFit, Names
  <2>2. ASSUME NEW q \in Procs, NEW m \in Procs, client'[q][m].live
        PROVE  byAddress'[q][m] = m
    BY <1>1, <1>2, <1>4, <1>6, <2>2, NamesAssumption DEF IInv, NamesFit, Names, Waits
  <2> QED
    BY <2>1, <2>2 DEF NamesFit
<1>16. \A q \in Procs, m \in Names, r \in Procs : LedBy(q, m, r) => LedBy(q, m, r)'
  BY <1>2, <1>3, <1>6, <1>7, <1>11 DEF LedBy
<1>17. \A q \in Procs, r \in Procs :
         Waits(q, r) => Waits(q, r)' \/ (q = p /\ r = n)
  BY <1>4, <1>6 DEF Waits, Names
<1>18. n \in Procs => LedBy(p, n, n)' /\ n = Peer(e) /\ Dialing(e)
  BY <1>1, <1>2, <1>3, <1>6, <1>8, <1>9, NamesAssumption DEF LedBy
<1>19. EntriesLead'
  <2> SUFFICES ASSUME NEW q \in Procs, NEW r \in Procs, NEW m \in Names
               PROVE  /\ byProcess[q][r] = m => LedBy(q, m, r)'
                      /\ byAddress[q][r] = m => LedBy(q, m, r)' \/ Waits(q, r)'
    BY <1>4 DEF EntriesLead
  <2>1. CASE byAddress[q][r] = m /\ Waits(q, r)
    <3>1. m = r
      BY <2>1 DEF Waits
    <3>2. LedBy(q, m, r)' \/ Waits(q, r)'
      BY <1>17, <1>18, <2>1, <3>1
    <3> QED
      BY <1>16, <3>2 DEF IInv, EntriesLead
  <2> QED
    BY <1>16, <2>1 DEF IInv, EntriesLead
<1>20. \A f \in Ends : Dialing(f)' => Dialing(f) /\ f # e
  BY <1>3, <1>4, <1>6 DEF Dialing, Games
<1>21. DialersWait'
  <2>1. ASSUME NEW f \in Ends, Dialing(f), f # e
        PROVE  Waits(Owner(f), Peer(f))'
    <3>1. Owner(f) \in Procs /\ Peer(f) \in Procs /\ Waits(Owner(f), Peer(f))
      BY <1>10, <2>1 DEF IInv, DialersWait, Dialing
    <3>2. ~(Owner(f) = p /\ Peer(f) = n)
      BY <1>9, <1>18, <2>1, <3>1 DEF IInv, DialersWait
    <3> QED
      BY <1>3, <1>17, <3>1, <3>2 DEF Waits
  <2> QED
    BY <1>3, <1>20, <2>1 DEF IInv, DialersWait, Waits
<1>22. OnlyGamesHaveAddresses'
  BY <1>4 DEF IInv, OnlyGamesHaveAddresses, Games
<1> QED
  BY <1>5, <1>12, <1>13, <1>14, <1>15, <1>19, <1>21, <1>22 DEF IInv

-----------------------------------------------------------------------------
(* HandleClose erases the one entry of each map that names the client.     *)
LEMMA Erased ==
  ASSUME IInv, NEW e \in Ends, stage[e] = "open", NEW p, p = Owner(e),
         NEW n, n = bySocket[e], NEW map \in [Procs -> Names \cup {None}],
         \A r \in Procs, x \in Names :
           map[r] = x /\ client[p][x].handler = e => LedBy(p, x, r),
         NEW m \in WithoutOne(map, p, e)
  PROVE  /\ m \in [Procs -> Names \cup {None}]
         /\ \A r \in Procs : m[r] = IF map[r] = n THEN None ELSE map[r]
<1> DEFINE hits == {q \in Procs : map[q] # None /\ client[p][map[q]].handler = e}
<1>1. n \in Names /\ n # None /\ client[p][n].handler = e
  BY NamesAssumption DEF IInv, Shape, OpenEndsHaveClients
<1>2. \A r \in Procs : r \in hits <=> map[r] = n
  BY <1>1 DEF LedBy
<1>3. \A r \in Procs : map[r] = n => r = Peer(e)
  BY <1>1 DEF LedBy
<1>4. IF hits = {} THEN m = map ELSE \E q \in hits : m = [map EXCEPT ![q] = None]
  BY DEF WithoutOne
<1> HIDE DEF hits
<1>5. CASE hits = {}
  BY <1>2, <1>4, <1>5
<1>6. ASSUME NEW q \in hits, m = [map EXCEPT ![q] = None]
      PROVE  /\ m \in [Procs -> Names \cup {None}]
             /\ \A r \in Procs : m[r] = IF map[r] = n THEN None ELSE map[r]
  <2>1. q \in Procs
    BY DEF hits
  <2> QED
    BY <1>2, <1>3, <1>6, <2>1
<1> QED
  BY <1>4, <1>5, <1>6

(* What HandleClose makes of the maps.                                     *)
LEMMA ClosedMaps ==
  ASSUME IInv, NEW e \in Ends, HandleClose(e), NEW p, p = Owner(e), NEW n, n = bySocket[e]
  PROVE  /\ p \in Procs /\ Peer(e) \in Procs
         /\ n \in Names /\ n # None /\ client[p][n].live /\ client[p][n].handler = e
         /\ byProcess' \in [Procs -> [Procs -> Names \cup {None}]]
         /\ \A q \in Procs, r \in Procs :
              byProcess'[q][r] = IF q = p /\ byProcess[q][r] = n THEN None ELSE byProcess[q][r]
         /\ byAddress' \in [Procs -> [Procs -> Names \cup {None}]]
         /\ \A q \in Procs, r \in Procs :
              byAddress'[q][r] = IF q = p /\ byAddress[q][r] = n THEN None ELSE byAddress[q][r]
         /\ \A f \in Ends : stage'[f] = IF f = e THEN "closed" ELSE stage[f]
         /\ \A f \in Ends : bySocket'[f] = IF f = e THEN None ELSE bySocket[f]
         /\ \A q \in Procs, m \in Names :
              client'[q][m] = IF q = p /\ m = n THEN Gone ELSE client[q][m]
<1>1. stage[e] = "open" /\ p \in Procs /\ Peer(e) \in Procs
  BY SeenOwners DEF HandleClose
<1>2. n \in Names /\ n # None /\ client[p][n].live /\ client[p][n].handler = e
  BY <1>1, NamesAssumption DEF IInv, Shape, OpenEndsHaveClients
<1>3. \A f \in Ends : Owner(f)' = Owner(f) /\ Peer(f)' = Peer(f)
  BY OwnersStay DEF HandleClose
<1>4. /\ UNCHANGED <<kind, conns, said>>
      /\ stage' = [stage EXCEPT ![e] = "closed"]
      /\ bySocket' = [bySocket EXCEPT ![e] = None]
      /\ client' = [client EXCEPT ![p][n] = Gone]
      /\ \E m \in WithoutOne(byAddress[p], p, e) : byAddress' = [byAddress EXCEPT ![p] = m]
      /\ \E m \in WithoutOne(byProcess[p], p, e) : byProcess' = [byProcess EXCEPT ![p] = m]
  BY DEF HandleClose, history
<1>5. None \notin Names /\ None \notin Ends
  BY NamesAssumption DEF Names
<1>6. /\ byProcess' \in [Procs -> [Procs -> Names \cup {None}]]
      /\ \A q \in Procs, r \in Procs :
           byProcess'[q][r] = IF q = p /\ byProcess[q][r] = n THEN None ELSE byProcess[q][r]
  <2>1. byProcess[p] \in [Procs -> Names \cup {None}]
    BY <1>1 DEF IInv, Shape
  <2>2. \A r \in Procs, x \in Names :
          byProcess[p][r] = x /\ client[p][x].handler = e => LedBy(p, x, r)
    BY <1>1 DEF IInv, EntriesLead
  <2>3. PICK m \in WithoutOne(byProcess[p], p, e) : byProcess' = [byProcess EXCEPT ![p] = m]
    BY <1>4
  <2>4. /\ m \in [Procs -> Names \cup {None}]
        /\ \A r \in Procs : m[r] = IF byProcess[p][r] = n THEN None ELSE byProcess[p][r]
    BY <1>1, <2>1, <2>2, Erased
  <2> QED
    BY <1>1, <2>3, <2>4 DEF IInv, Shape
<1>7. /\ byAddress' \in [Procs -> [Procs -> Names \cup {None}]]
      /\ \A q \in Procs, r \in Procs :
           byAddress'[q][r] = IF q = p /\ byAddress[q][r] = n THEN None ELSE byAddress[q][r]
  <2>1. byAddress[p] \in [Procs -> Names \cup {None}]
    BY <1>1 DEF IInv, Shape
  <2>2. \A r \in Procs, x \in Names :
          byAddress[p][r] = x /\ client[p][x].handler = e => LedBy(p, x, r)
    BY <1>1, <1>5 DEF IInv, EntriesLead, Waits
  <2>3. PICK m \in WithoutOne(byAddress[p], p, e) : byAddress' = [byAddress EXCEPT ![p] = m]
    BY <1>4
  <2>4. /\ m \in [Procs -> Names \cup {None}]
        /\ \A r \in Procs : m[r] = IF byAddress[p][r] = n THEN None ELSE byAddress[p][r]
    BY <1>1, <2>1, <2>2, Erased
  <2> QED
    BY <1>1, <2>3, <2>4 DEF IInv, Shape
<1>8. /\ \A f \in Ends : stage'[f] = IF f = e THEN "closed" ELSE stage[f]
      /\ \A f \in Ends : bySocket'[f] = IF f = e THEN None ELSE bySocket[f]
      /\ \A q \in Procs, m \in Names :
           client'[q][m] = IF q = p /\ m = n THEN Gone ELSE client[q][m]
  BY <1>1, <1>2, <1>4 DEF IInv, Shape
<1> QED
  BY <1>1, <1>2, <1>6, <1>7, <1>8

(* HandleClose deletes a client and every entry that led to it.            *)
LEMMA CloseStep == ASSUME IInv, NEW e \in Ends, HandleClose(e) PROVE IInv'
<1> SUFFICES ASSUME NEW p, p = Owner(e), NEW n, n = bySocket[e] PROVE IInv'
  OBVIOUS
<1>1. stage[e] = "open" /\ p \in Procs /\ Peer(e) \in Procs
  BY SeenOwners DEF HandleClose
<1>2. n \in Names /\ n # None /\ client[p][n].live /\ client[p][n].handler = e
  BY <1>1, NamesAssumption DEF IInv, Shape, OpenEndsHaveClients
<1>3. \A f \in Ends : Owner(f)' = Owner(f) /\ Peer(f)' = Peer(f)
  BY OwnersStay DEF HandleClose
<1>4. /\ UNCHANGED <<kind, conns, said>>
      /\ stage' = [stage EXCEPT ![e] = "closed"]
      /\ bySocket' = [bySocket EXCEPT ![e] = None]
      /\ client' = [client EXCEPT ![p][n] = Gone]
      /\ \E m \in WithoutOne(byAddress[p], p, e) : byAddress' = [byAddress EXCEPT ![p] = m]
      /\ \E m \in WithoutOne(byProcess[p], p, e) : byProcess' = [byProcess EXCEPT ![p] = m]
  BY DEF HandleClose, history
<1>5. None \notin Names /\ None \notin Ends
  BY NamesAssumption DEF Names
<1>6. /\ byProcess' \in [Procs -> [Procs -> Names \cup {None}]]
      /\ \A q \in Procs, r \in Procs :
           byProcess'[q][r] = IF q = p /\ byProcess[q][r] = n THEN None ELSE byProcess[q][r]
  BY ClosedMaps
<1>7. /\ byAddress' \in [Procs -> [Procs -> Names \cup {None}]]
      /\ \A q \in Procs, r \in Procs :
           byAddress'[q][r] = IF q = p /\ byAddress[q][r] = n THEN None ELSE byAddress[q][r]
  BY ClosedMaps
<1>8. /\ \A f \in Ends : stage'[f] = IF f = e THEN "closed" ELSE stage[f]
      /\ \A f \in Ends : bySocket'[f] = IF f = e THEN None ELSE bySocket[f]
      /\ \A q \in Procs, m \in Names :
           client'[q][m] = IF q = p /\ m = n THEN Gone ELSE client[q][m]
  BY ClosedMaps
<1>9. Gone \in Plain /\ ~Gone.live
  BY DEF Gone, Plain
<1>10. Shape'
  BY <1>1, <1>2, <1>4, <1>6, <1>7, <1>9 DEF IInv, Shape
<1>11. EndsAreMade'
  BY <1>1, <1>4, <1>8 DEF IInv, EndsAreMade
<1>12. \A h \in Ends : stage[h] # "none" => Owner(h) \in Procs /\ Peer(h) \in Procs
  BY SeenOwners
<1>13. OpenEndsHaveClients'
  <2> SUFFICES ASSUME NEW f \in Ends
               PROVE  /\ bySocket'[f] # None <=> stage'[f] = "open"
                      /\ stage'[f] = "open" => /\ client'[Owner(f)][bySocket'[f]].live
                                               /\ client'[Owner(f)][bySocket'[f]].handler = f
    BY <1>3 DEF OpenEndsHaveClients
  <2>1. /\ bySocket[f] # None <=> stage[f] = "open"
        /\ stage[f] = "open" => /\ client[Owner(f)][bySocket[f]].live
                                /\ client[Owner(f)][bySocket[f]].handler = f
    BY DEF IInv, OpenEndsHaveClients
  <2>2. bySocket[f] \in Names \cup {None}
    BY DEF IInv, Shape
  <2> QED
    BY <1>2, <1>8, <1>12, <2>1, <2>2
<1>14. ClientsAreFound'
  <2> SUFFICES ASSUME NEW q \in Procs, NEW m \in Names, NEW h \in Ends,
                      client'[q][m].live, client'[q][m].handler = h
               PROVE  bySocket'[h] = m /\ Owner(h) = q
    BY <1>3 DEF ClientsAreFound
  <2>1. ~(q = p /\ m = n)
    BY <1>8, <1>9
  <2>2. bySocket[h] = m /\ Owner(h) = q
    BY <1>8, <2>1 DEF IInv, ClientsAreFound
  <2> QED
    BY <1>8, <2>1, <2>2
<1>15. NamesFit'
  <2>1. \A q \in Procs, m \in Names :
          client'[q][m].live => client'[q][m] = client[q][m] /\ ~(q = p /\ m = n)
    BY <1>8, <1>9
  <2>2. ASSUME NEW q \in Procs, NEW m \in Ends, client'[q][m].live
        PROVE  client'[q][m].handler = m
    BY <2>1, <2>2 DEF IInv, NamesFit, Names
  <2>3. ASSUME NEW q \in Procs, NEW m \in Procs, client'[q][m].live
        PROVE  byAddress'[q][m] = m
    BY <1>7, <2>1, <2>3 DEF IInv, NamesFit, Names
  <2> QED
    BY <2>2, <2>3 DEF NamesFit
<1>16. \A q \in Procs, m \in Names, r \in Procs :
         LedBy(q, m, r) /\ ~(q = p /\ m = n) => LedBy(q, m, r)'
  BY <1>3, <1>8 DEF LedBy
<1>17. \A q \in Procs, r \in Procs : Waits(q, r) => Waits(q, r)'
  BY <1>2, <1>5, <1>7, <1>8 DEF Waits, Names
<1>18. EntriesLead'
  BY <1>5, <1>6, <1>7, <1>16, <1>17 DEF IInv, EntriesLead
<1>19. \A f \in Ends : Dialing(f)' => Dialing(f)
  BY <1>3, <1>4, <1>8 DEF Dialing, Games
<1>20. \A f \in Ends : Dialing(f) => Waits(Owner(f), Peer(f))'
  BY <1>3, <1>12, <1>17 DEF IInv, DialersWait, Dialing, Waits
<1>21. DialersWait'
  BY <1>3, <1>19, <1>20 DEF IInv, DialersWait, Waits
<1>22. OnlyGamesHaveAddresses'
  BY <1>4, <1>7 DEF IInv, OnlyGamesHaveAddresses, Games
<1> QED
  BY <1>10, <1>11, <1>13, <1>14, <1>15, <1>18, <1>21, <1>22 DEF IInv

-----------------------------------------------------------------------------
(* update_handler_info enters a client that has its handler.               *)
LEMMA RegisterStep == ASSUME IInv, NEW e \in Ends, RegisterServer(e) PROVE IInv'
<1> SUFFICES ASSUME NEW p, p = Owner(e), NEW q, q = Peer(e), NEW n, n = bySocket[e]
             PROVE  IInv'
  OBVIOUS
<1>1. stage[e] = "open" /\ p \in Procs /\ q \in Procs
  BY SeenOwners DEF RegisterServer, Receives
<1>2. n \in Names /\ LedBy(p, n, q)
  BY <1>1, NamesAssumption DEF IInv, Shape, OpenEndsHaveClients, LedBy
<1>3. /\ UNCHANGED <<kind, conns, stage, client, bySocket, said>>
      /\ byProcess' = [byProcess EXCEPT ![p][q] = n]
      /\ byAddress' = IF Games(p, q) /\ byAddress[p][q] = None
                      THEN [byAddress EXCEPT ![p][q] = n] ELSE byAddress
  BY DEF RegisterServer, Receives, Games
<1>4. \A f \in Ends : Owner(f)' = Owner(f) /\ Peer(f)' = Peer(f)
  BY <1>3, OwnersStay
<1>5. None \notin Names
  BY NamesAssumption
<1>6. /\ \A r \in Procs, s \in Procs :
           byProcess'[r][s] = IF r = p /\ s = q THEN n ELSE byProcess[r][s]
      /\ \A r \in Procs, s \in Procs :
           byAddress'[r][s] = byAddress[r][s] \/
           (byAddress[r][s] = None /\ r = p /\ s = q /\ byAddress'[r][s] = n /\ Games(p, q))
  BY <1>1, <1>2, <1>3 DEF IInv, Shape
<1>7. Shape'
  BY <1>1, <1>2, <1>3 DEF IInv, Shape
<1>8. EndsAreMade' /\ OpenEndsHaveClients' /\ ClientsAreFound'
  BY <1>3, <1>4 DEF IInv, EndsAreMade, OpenEndsHaveClients, ClientsAreFound
<1>9. NamesFit'
  BY <1>3, <1>5, <1>6 DEF IInv, NamesFit, Names
<1>10. \A r \in Procs, m \in Names, s \in Procs : LedBy(r, m, s) => LedBy(r, m, s)'
  BY <1>3, <1>4 DEF LedBy
<1>11. \A r \in Procs, s \in Procs : Waits(r, s) => Waits(r, s)'
  BY <1>3, <1>5, <1>6 DEF Waits, Names
<1>12. EntriesLead'
  BY <1>2, <1>5, <1>6, <1>10, <1>11 DEF IInv, EntriesLead
<1>13. \A f \in Ends : Dialing(f)' <=> Dialing(f)
  BY <1>3, <1>4 DEF Dialing, Games
<1>14. \A f \in Ends : Dialing(f) => Waits(Owner(f), Peer(f))'
  <2> SUFFICES ASSUME NEW f \in Ends, Dialing(f) PROVE Waits(Owner(f), Peer(f))'
    OBVIOUS
  <2>1. Owner(f) \in Procs /\ Peer(f) \in Procs
    BY SeenOwners DEF Dialing
  <2> QED
    BY <1>4, <1>11, <2>1 DEF IInv, DialersWait, Waits
<1>15. DialersWait'
  BY <1>4, <1>13, <1>14 DEF IInv, DialersWait, Waits
<1>16. OnlyGamesHaveAddresses'
  BY <1>3, <1>6 DEF IInv, OnlyGamesHaveAddresses, Games
<1> QED
  BY <1>7, <1>8, <1>9, <1>12, <1>15, <1>16 DEF IInv

-----------------------------------------------------------------------------
(* What a new connection changes: two new ends, which belong to the two.   *)
LEMMA Growth ==
  ASSUME IInv, NEW p \in Procs, NEW q \in Procs,
         Connect(p, q) \/ UNCHANGED <<conns, stage>>
  PROVE  /\ conns' \in Seq([dialer: Procs, acceptor: Procs]) /\ Len(conns') <= MaxConns
         /\ stage' \in [Ends -> {"none", "new", "open", "closed"}]
         /\ EndsAreMade'
         /\ \A e \in Ends : stage[e] # "none" =>
              stage'[e] = stage[e] /\ Owner(e)' = Owner(e) /\ Peer(e)' = Peer(e)
         /\ \A e \in Ends : stage[e] = "none" => stage'[e] \in {"none", "new"}
         /\ \A e \in Ends : stage[e] = "none" /\ stage'[e] = "new" /\ e[2] = "dialer" =>
              /\ Owner(e)' = p /\ Peer(e)' = q
              /\ \A f \in Ends : stage[f] = "none" /\ stage'[f] = "new"
                                 /\ f[2] = "dialer" => f = e
<1>1. CASE UNCHANGED <<conns, stage>>
  BY <1>1, OwnersStay DEF IInv, Shape, EndsAreMade
<1>2. CASE Connect(p, q)
  <2> DEFINE x == [dialer |-> p, acceptor |-> q]
             c == Len(conns) + 1
  <2>1. /\ c \in 1..MaxConns
        /\ conns' = Append(conns, x)
        /\ stage' = [e \in Ends |-> IF e \in {c} \X Sides THEN "new" ELSE stage[e]]
    <3>1. Len(conns) \in Nat
      BY DEF IInv, Shape
    <3> QED
      BY <1>2, <3>1, NamesAssumption DEF Connect
  <2>2. x \in [dialer: Procs, acceptor: Procs]
    OBVIOUS
  <2>3. /\ conns' \in Seq([dialer: Procs, acceptor: Procs])
        /\ Len(conns') = c /\ conns'[c] = x
        /\ 1..Len(conns) \subseteq 1..Len(conns')
    <3>1. ASSUME NEW S, conns \in Seq(S), x \in S
          PROVE  /\ Append(conns, x) \in Seq(S)
                 /\ Len(Append(conns, x)) = c /\ Append(conns, x)[c] = x
                 /\ 1..Len(conns) \subseteq 1..c
      <4> HIDE DEF x
      <4> QED
        BY <3>1
    <3> HIDE DEF x
    <3> QED
      BY <2>1, <2>2, <3>1 DEF IInv, Shape
  <2>4. \A e \in Ends : /\ e \in {c} \X Sides <=> e[1] = c
                        /\ e[1] \in 1..Len(conns) => e[1] # c
    BY DEF Ends, IInv, Shape
  <2>5. \A e \in Ends : stage'[e] = IF e[1] = c THEN "new" ELSE stage[e]
    BY <2>1, <2>4
  <2>6. \A e \in Ends : stage[e] # "none" =>
              stage'[e] = stage[e] /\ Owner(e)' = Owner(e) /\ Peer(e)' = Peer(e)
    <3> SUFFICES ASSUME NEW e \in Ends, stage[e] # "none"
                 PROVE  stage'[e] = stage[e] /\ Owner(e)' = Owner(e) /\ Peer(e)' = Peer(e)
      OBVIOUS
    <3>1. e[1] \in 1..Len(conns)
      BY DEF IInv, EndsAreMade
    <3>2. Owner(e)' = Owner(e) /\ Peer(e)' = Peer(e)
      BY <2>1, <3>1, OwnersGrow DEF IInv
    <3> QED
      BY <2>4, <2>5, <3>1, <3>2
  <2>7. \A e \in Ends : stage[e] = "none" /\ stage'[e] = "new" => e[1] = c
    BY <2>5
  <2>8. \A e \in Ends : e[1] = c /\ e[2] = "dialer" =>
          /\ Owner(e)' = p /\ Peer(e)' = q
          /\ e = <<c, "dialer">>
    BY <2>3 DEF Owner, Peer, Other, Ends
  <2>9. EndsAreMade'
    BY <2>3, <2>5, <2>1 DEF IInv, EndsAreMade
  <2>10. stage' \in [Ends -> {"none", "new", "open", "closed"}]
    BY <2>1 DEF IInv, Shape
  <2> HIDE DEF c, x
  <2>11. Len(conns') <= MaxConns
    BY <2>1, <2>3, NamesAssumption
  <2> QED
    BY <2>3, <2>5, <2>6, <2>7, <2>8, <2>9, <2>10, <2>11
<1> QED
  BY <1>1, <1>2

(* A game that had no entry for the address of another: a client waits,    *)
(* whether the connection was made or not.                                 *)
LEMMA DialStep ==
  ASSUME IInv, NEW p \in Procs, NEW q \in Procs, NEW c \in Plain,
         c.live, c.handler = None, Games(p, q), byAddress[p][q] = None,
         Connect(p, q) \/ UNCHANGED <<conns, stage>>,
         client' = [client EXCEPT ![p][q] = c],
         byAddress' = [byAddress EXCEPT ![p][q] = q],
         UNCHANGED <<kind, bySocket, byProcess>>, said' \in [Links -> Nat]
  PROVE  IInv'
<1>1. q \in Names /\ None \notin Names /\ None \notin Ends
  BY NamesAssumption DEF Names
<1>2. /\ \A r \in Procs, m \in Names :
           client'[r][m] = IF r = p /\ m = q THEN c ELSE client[r][m]
      /\ \A r \in Procs, s \in Procs :
           byAddress'[r][s] = IF r = p /\ s = q THEN q ELSE byAddress[r][s]
  BY <1>1 DEF IInv, Shape
<1>3. ~client[p][q].live
  BY <1>1 DEF IInv, NamesFit
<1>4. \A e \in Ends : stage[e] # "none" =>
        stage'[e] = stage[e] /\ Owner(e)' = Owner(e) /\ Peer(e)' = Peer(e)
  BY Growth
<1>5. \A e \in Ends : stage[e] = "none" => stage'[e] \in {"none", "new"}
  BY Growth
<1>6. \A e \in Ends : stage[e] = "none" /\ stage'[e] = "new" /\ e[2] = "dialer" =>
        /\ Owner(e)' = p /\ Peer(e)' = q
        /\ \A f \in Ends : stage[f] = "none" /\ stage'[f] = "new"
                           /\ f[2] = "dialer" => f = e
  BY Growth
<1>7. EndsAreMade' /\ Shape'
  <2>1. /\ conns' \in Seq([dialer: Procs, acceptor: Procs]) /\ Len(conns') <= MaxConns
        /\ stage' \in [Ends -> {"none", "new", "open", "closed"}] /\ EndsAreMade'
    BY Growth
  <2> QED
    BY <1>1, <2>1 DEF IInv, Shape
<1>8. \A e \in Ends : bySocket[e] # None <=> stage[e] = "open"
  BY DEF IInv, OpenEndsHaveClients
<1>9. \A e \in Ends : stage[e] # "none" => Owner(e) \in Procs /\ Peer(e) \in Procs
  BY SeenOwners
<1>10. OpenEndsHaveClients'
  <2> SUFFICES ASSUME NEW e \in Ends
               PROVE  /\ bySocket[e] # None <=> stage'[e] = "open"
                      /\ stage'[e] = "open" =>
                           /\ client'[Owner(e)'][bySocket[e]].live
                           /\ client'[Owner(e)'][bySocket[e]].handler = e
    BY DEF OpenEndsHaveClients
  <2>1. stage'[e] = "open" <=> stage[e] = "open"
    BY <1>4, <1>5
  <2>2. CASE stage[e] = "open"
    <3>1. /\ client[Owner(e)][bySocket[e]].live /\ bySocket[e] \in Names
          /\ client[Owner(e)][bySocket[e]].handler = e
      BY <1>8, <2>2 DEF IInv, OpenEndsHaveClients, Shape
    <3>2. Owner(e)' = Owner(e) /\ Owner(e) \in Procs
      BY <1>4, <1>9, <2>2
    <3> QED
      BY <1>2, <1>3, <1>8, <2>1, <2>2, <3>1, <3>2
  <2> QED
    BY <1>8, <2>1, <2>2
<1>11. ClientsAreFound'
  <2> SUFFICES ASSUME NEW r \in Procs, NEW m \in Names, NEW h \in Ends,
                      client'[r][m].live, client'[r][m].handler = h
               PROVE  bySocket[h] = m /\ Owner(h)' = r
    BY DEF ClientsAreFound
  <2>1. client[r][m].live /\ client[r][m].handler = h
    BY <1>1, <1>2
  <2>2. bySocket[h] = m /\ Owner(h) = r
    BY <2>1 DEF IInv, ClientsAreFound
  <2> QED
    BY <1>1, <1>4, <1>8, <2>2
<1>12. NamesFit'
  BY <1>1, <1>2, NamesAssumption DEF IInv, NamesFit, Names
<1>13. \A r \in Procs, m \in Names, s \in Procs : LedBy(r, m, s) => LedBy(r, m, s)'
  <2> SUFFICES ASSUME NEW r \in Procs, NEW m \in Names, NEW s \in Procs, LedBy(r, m, s)
               PROVE  LedBy(r, m, s)'
    OBVIOUS
  <2>1. PICK h \in Ends : /\ client[r][m].live /\ client[r][m].handler = h
                          /\ bySocket[h] = m /\ Owner(h) = r /\ Peer(h) = s
    BY DEF LedBy
  <2>2. Owner(h)' = r /\ Peer(h)' = s
    BY <1>1, <1>4, <1>8, <2>1
  <2> QED
    BY <1>2, <1>3, <2>1, <2>2 DEF LedBy
<1>14. \A r \in Procs, s \in Procs : Waits(r, s) \/ (r = p /\ s = q) => Waits(r, s)'
  BY <1>1, <1>2, <1>3 DEF Waits, Names
<1>15. EntriesLead'
  BY <1>1, <1>2, <1>13, <1>14 DEF IInv, EntriesLead
<1>16. \A e \in Ends : Dialing(e)' =>
         \/ Dialing(e) /\ Owner(e)' = Owner(e) /\ Peer(e)' = Peer(e)
         \/ /\ Owner(e)' = p /\ Peer(e)' = q
            /\ stage[e] = "none" /\ stage'[e] = "new" /\ e[2] = "dialer"
  <2>1. \A e \in Ends : stage[e] \in {"none", "new", "open", "closed"}
    BY DEF IInv, Shape
  <2> QED
    BY <1>4, <1>5, <1>6, <2>1 DEF Dialing, Games
<1>17. \A e \in Ends : Dialing(e) =>
         /\ Waits(Owner(e), Peer(e)) /\ ~(Owner(e) = p /\ Peer(e) = q)
         /\ Owner(e) \in Procs /\ Peer(e) \in Procs
  BY <1>1, <1>9 DEF IInv, DialersWait, Dialing, Waits
<1>18. DialersWait'
  <2>1. ASSUME NEW e \in Ends, Dialing(e)'
        PROVE  Waits(Owner(e), Peer(e))'
    <3>1. PICK r \in Procs, s \in Procs :
            /\ Owner(e)' = r /\ Peer(e)' = s /\ (Waits(r, s) \/ (r = p /\ s = q))
      BY <1>16, <1>17, <2>1
    <3> QED
      BY <1>14, <3>1 DEF Waits
  <2>2. ASSUME NEW e \in Ends, Dialing(e)', NEW f \in Ends, Dialing(f)',
               Owner(f)' = Owner(e)', Peer(f)' = Peer(e)'
        PROVE  f = e
    BY <1>6, <1>16, <1>17, <2>2 DEF IInv, DialersWait
  <2> QED
    BY <2>1, <2>2 DEF DialersWait
<1>19. OnlyGamesHaveAddresses'
  BY <1>2 DEF IInv, OnlyGamesHaveAddresses, Games
<1> QED
  BY <1>7, <1>10, <1>11, <1>12, <1>15, <1>18, <1>19 DEF IInv

(* A connection to a db_manager has no client until its handle_init.       *)
LEMMA ConnectDbStep ==
  ASSUME IInv, NEW p \in Procs, NEW q \in Procs, ConnectDb(p, q)
  PROVE  IInv'
<1>1. Connect(p, q) /\ ~Games(p, q)
      /\ UNCHANGED <<kind, client, bySocket, byProcess, byAddress, said>>
  BY DEF ConnectDb, mapVars, Games
<1>2. \A e \in Ends : stage[e] # "none" =>
        stage'[e] = stage[e] /\ Owner(e)' = Owner(e) /\ Peer(e)' = Peer(e)
  BY <1>1, Growth
<1>3. \A e \in Ends : stage[e] = "none" => stage'[e] \in {"none", "new"}
  BY <1>1, Growth
<1>4. \A e \in Ends : stage[e] = "none" /\ stage'[e] = "new" /\ e[2] = "dialer" =>
        Owner(e)' = p /\ Peer(e)' = q
  BY <1>1, Growth
<1>5. EndsAreMade' /\ Shape'
  <2>1. /\ conns' \in Seq([dialer: Procs, acceptor: Procs]) /\ Len(conns') <= MaxConns
        /\ stage' \in [Ends -> {"none", "new", "open", "closed"}] /\ EndsAreMade'
    BY <1>1, Growth
  <2> QED
    BY <1>1, <2>1 DEF IInv, Shape
<1>6. \A e \in Ends : bySocket[e] # None <=> stage[e] = "open"
  BY DEF IInv, OpenEndsHaveClients
<1>7. None \notin Names
  BY NamesAssumption
<1>8. OpenEndsHaveClients'
  BY <1>1, <1>2, <1>3 DEF IInv, OpenEndsHaveClients
<1>9. ClientsAreFound'
  BY <1>1, <1>2, <1>6, <1>7 DEF IInv, ClientsAreFound
<1>10. NamesFit' /\ OnlyGamesHaveAddresses'
  BY <1>1 DEF IInv, NamesFit, OnlyGamesHaveAddresses, Games
<1>11. \A r \in Procs, m \in Names, s \in Procs : LedBy(r, m, s) => LedBy(r, m, s)'
  BY <1>1, <1>2, <1>6, <1>7 DEF LedBy
<1>12. EntriesLead'
  BY <1>1, <1>11 DEF IInv, EntriesLead, Waits
<1>13. \A e \in Ends : Dialing(e)' =>
         Dialing(e) /\ Owner(e)' = Owner(e) /\ Peer(e)' = Peer(e)
  <2>1. \A e \in Ends : stage[e] \in {"none", "new", "open", "closed"}
    BY DEF IInv, Shape
  <2> QED
    BY <1>1, <1>2, <1>3, <1>4, <2>1 DEF Dialing, Games
<1>14. DialersWait'
  BY <1>1, <1>13 DEF IInv, DialersWait, Waits
<1> QED
  BY <1>5, <1>8, <1>9, <1>10, <1>12, <1>14 DEF IInv

(* Steps that touch no connection and of the clients only a cache.         *)
LEMMA Frame ==
  ASSUME IInv, UNCHANGED <<kind, conns, stage, mapVars>>, said' \in [Links -> Nat]
  PROVE  IInv'
<1>1. \A f \in Ends : Owner(f)' = Owner(f) /\ Peer(f)' = Peer(f)
  BY OwnersStay
<1>2. UNCHANGED <<client, bySocket, byProcess, byAddress>>
  BY DEF mapVars
<1>3. Shape' /\ EndsAreMade' /\ OpenEndsHaveClients' /\ ClientsAreFound' /\ NamesFit'
  BY <1>1, <1>2 DEF IInv, Shape, EndsAreMade, OpenEndsHaveClients, ClientsAreFound, NamesFit
<1>4. EntriesLead' /\ OnlyGamesHaveAddresses'
  BY <1>1, <1>2 DEF IInv, EntriesLead, OnlyGamesHaveAddresses, LedBy, Waits, Games
<1>5. DialersWait'
  BY <1>1, <1>2 DEF IInv, DialersWait, Dialing, Waits, Games
<1> QED
  BY <1>3, <1>4, <1>5 DEF IInv

LEMMA CacheStep ==
  ASSUME IInv, NEW p \in Procs, NEW n \in Names, NEW c \in Plain,
         c.live = client[p][n].live, c.handler = client[p][n].handler,
         client' = [client EXCEPT ![p][n] = c],
         UNCHANGED <<kind, conns, stage, bySocket, byProcess, byAddress>>,
         said' \in [Links -> Nat]
  PROVE  IInv'
<1>1. \A f \in Ends : Owner(f)' = Owner(f) /\ Peer(f)' = Peer(f)
  BY OwnersStay
<1>2. \A r \in Procs, m \in Names : /\ client'[r][m].live = client[r][m].live
                                    /\ client'[r][m].handler = client[r][m].handler
  BY DEF IInv, Shape
<1>3. Shape' /\ EndsAreMade'
  BY DEF IInv, Shape, EndsAreMade
<1>4. OpenEndsHaveClients'
  <2> SUFFICES ASSUME NEW e \in Ends, stage[e] = "open"
               PROVE  /\ client'[Owner(e)][bySocket[e]].live
                      /\ client'[Owner(e)][bySocket[e]].handler = e
    BY <1>1 DEF IInv, OpenEndsHaveClients
  <2>1. Owner(e) \in Procs /\ bySocket[e] \in Names
    BY SeenOwners DEF IInv, Shape, OpenEndsHaveClients
  <2> QED
    BY <1>2, <2>1 DEF IInv, OpenEndsHaveClients
<1>5. ClientsAreFound'
  BY <1>1, <1>2 DEF IInv, ClientsAreFound
<1>6. NamesFit' /\ OnlyGamesHaveAddresses'
  BY <1>2 DEF IInv, NamesFit, OnlyGamesHaveAddresses, Games, Names
<1>7. \A r \in Procs, m \in Names, s \in Procs : LedBy(r, m, s) => LedBy(r, m, s)'
  BY <1>1, <1>2 DEF LedBy
<1>8. \A r \in Procs, s \in Procs : Waits(r, s) => Waits(r, s)'
  BY <1>2 DEF Waits, Names
<1>9. EntriesLead'
  BY <1>7, <1>8 DEF IInv, EntriesLead
<1>10. \A f \in Ends : Dialing(f)' <=> Dialing(f)
  BY <1>1 DEF Dialing, Games
<1>11. \A f \in Ends : Dialing(f) => Waits(Owner(f), Peer(f))'
  <2> SUFFICES ASSUME NEW f \in Ends, Dialing(f) PROVE Waits(Owner(f), Peer(f))'
    OBVIOUS
  <2>1. Owner(f) \in Procs /\ Peer(f) \in Procs
    BY SeenOwners DEF Dialing
  <2> QED
    BY <1>1, <1>8, <2>1 DEF IInv, DialersWait, Waits
<1>12. DialersWait'
  BY <1>1, <1>10, <1>11 DEF IInv, DialersWait, Waits
<1> QED
  BY <1>3, <1>4, <1>5, <1>6, <1>9, <1>12 DEF IInv

LEMMA CallEntityStep ==
  ASSUME IInv, NEW p \in Procs, NEW q \in Procs, CallEntity(p, q)
  PROVE  IInv'
<1> DEFINE link == <<p, q, "entity">>
<1> SUFFICES ASSUME NEW call, call = [what |-> "entity", about |-> "entity", no |-> Number(link)],
                    NEW n, n = byAddress[p][q]
             PROVE  IInv'
  OBVIOUS
<1>1. link \in Links
  BY DEF Links
<1>2. said' \in [Links -> Nat] /\ Number(link) \in Nat
  BY <1>1 DEF CallEntity, Number, IInv, Shape
<1>3. call \in [what: {"register_server", "entity", "add_executor", "answer"},
                about: Tables \cup {"entity"}, no: Nat]
  BY <1>2
<1>4. Games(p, q) /\ UNCHANGED <<kind, bySocket, byProcess>>
  BY DEF CallEntity, Games
<1>5. CASE n # None /\ client[p][n].handler # None /\ UNCHANGED <<conns, stage, client, byAddress>>
  BY <1>2, <1>4, <1>5, Frame DEF mapVars
<1>6. CASE /\ n # None
           /\ client' = [client EXCEPT ![p][n].cache = Cached(@, call)]
           /\ UNCHANGED <<netVars, byAddress>>
  <2> DEFINE c == [client[p][n] EXCEPT !.cache = Cached(@, call)]
  <2>1. n \in Names
    BY <1>6 DEF IInv, Shape
  <2>2. client[p][n] \in Plain
    BY <2>1 DEF IInv, Shape
  <2>3. c \in Plain /\ c.live = client[p][n].live /\ c.handler = client[p][n].handler
    <3>1. ASSUME NEW S, NEW s \in Seq(S), call \in S PROVE Cached(s, call) \in Seq(S)
      BY <3>1 DEF Cached
    <3>2. Cached(client[p][n].cache, call) \in
            Seq([what: {"register_server", "entity", "add_executor", "answer"},
                 about: Tables \cup {"entity"}, no: Nat])
      BY <1>3, <2>2, <3>1 DEF Plain
    <3> QED
      BY <2>2, <3>2 DEF Plain
  <2>4. client' = [client EXCEPT ![p][n] = c]
    BY <1>6
  <2>5. UNCHANGED <<conns, stage, byAddress>>
    BY <1>6 DEF netVars
  <2> HIDE DEF c
  <2> QED
    BY <1>2, <1>4, <2>1, <2>3, <2>4, <2>5, CacheStep
<1>7. CASE /\ n = None
           /\ client' = [client EXCEPT ![p][q] =
                           [live |-> TRUE, handler |-> None, cache |-> <<call>>]]
           /\ byAddress' = [byAddress EXCEPT ![p][q] = q]
           /\ Connect(p, q) \/ UNCHANGED <<conns, stage>>
  <2> DEFINE c == [live |-> TRUE, handler |-> None, cache |-> <<call>>]
  <2>1. c \in Plain
    BY <1>3 DEF Plain
  <2>2. c.live /\ c.handler = None /\ client' = [client EXCEPT ![p][q] = c]
    BY <1>7
  <2> HIDE DEF c
  <2> QED
    BY <1>2, <1>4, <1>7, <2>1, <2>2, DialStep
<1> QED
  BY <1>5, <1>6, <1>7 DEF CallEntity

-----------------------------------------------------------------------------
(* Every step keeps the invariant of the maps.                             *)
LEMMA NextInv == ASSUME IInv, [Next]_vars PROVE IInv'
<1>1. CASE UNCHANGED vars
  BY <1>1, Frame DEF vars, netVars, history, IInv, Shape
<1>2. ASSUME NEW p \in Procs, NEW q \in Procs, CallEntity(p, q) PROVE IInv'
  BY <1>2, CallEntityStep
<1>3. ASSUME NEW p \in Procs, NEW q \in Procs, ConnectDb(p, q) PROVE IInv'
  BY <1>3, ConnectDbStep
<1>4. ASSUME NEW p \in Procs, NEW q \in Procs, NEW t \in Tables, DbOpt(p, q, t) PROVE IInv'
  <2>1. <<p, q, t>> \in Links
    BY DEF Links
  <2>2. said' \in [Links -> Nat]
    BY <1>4, <2>1 DEF DbOpt, IInv, Shape
  <2> QED
    BY <1>4, <2>2, Frame DEF DbOpt
<1>5. ASSUME NEW e \in Ends, HandleInit(e) PROVE IInv'
  BY <1>5, InitStep
<1>6. ASSUME NEW e \in Ends, RegisterServer(e) PROVE IInv'
  BY <1>6, RegisterStep
<1>7. ASSUME NEW e \in Ends, HearCall(e) \/ AddExecutor(e) \/ OnOptDb(e) PROVE IInv'
  BY <1>7, Frame DEF HearCall, AddExecutor, OnOptDb, Receives, IInv, Shape
<1>8. ASSUME NEW e \in Ends, HandleClose(e) PROVE IInv'
  BY <1>8, CloseStep
<1>9. ASSUME NEW e \in Ends, NullSocket(e) PROVE IInv'
  BY <1>9, Frame DEF NullSocket, netVars, IInv, Shape
<1>10. ASSUME NEW d \in Procs, Update(d) PROVE IInv'
  BY <1>10, Frame DEF Update, IInv, Shape
<1>11. ASSUME NEW c \in 1..MaxConns, Break(c) PROVE IInv'
  BY <1>11, Frame DEF Break, IInv, Shape
<1> QED
  BY <1>1, <1>2, <1>3, <1>4, <1>5, <1>6, <1>7, <1>8, <1>9, <1>10, <1>11
  DEF Next, Serve, HandlePacket

(* The invariant holds of every process, whoever connects to whom and      *)
(* whatever breaks in whatever order (rpc_wrapper.cpp).                    *)
THEOREM MapsAreSound == Spec => []IInv
  BY InitInv, NextInv, PTL DEF Spec

(* No pointer of the three maps names a deleted client, and a client that  *)
(* lives is found: register_handler_info, update_handler_info and          *)
(* unregister_handler_info keep the maps together.                         *)
THEOREM NoPointerDangles == Spec => []PointersAreLive
<1>1. IInv => PointersAreLive
  <2> SUFFICES ASSUME IInv PROVE PointersAreLive
    OBVIOUS
  <2>1. None \notin Names /\ None \notin Ends /\ Ends \subseteq Names /\ Procs \subseteq Names
    BY NamesAssumption DEF Names
  <2>2. \A p \in Procs, n \in Names, q \in Procs : LedBy(p, n, q) => Leads(p, n, q)
    BY <2>1 DEF LedBy, Leads
  <2>3. \A p \in Procs, q \in Procs : /\ byProcess[p][q] \in Names \cup {None}
                                      /\ byAddress[p][q] \in Names \cup {None}
    BY DEF IInv, Shape
  <2>4. ASSUME NEW p \in Procs, NEW q \in Procs
        PROVE  /\ byProcess[p][q] # None => Leads(p, byProcess[p][q], q)
               /\ byAddress[p][q] # None =>
                    \/ Leads(p, byAddress[p][q], q)
                    \/ byAddress[p][q] = q /\ client[p][q].live /\ client[p][q].handler = None
    BY <2>2, <2>3 DEF IInv, EntriesLead, Waits
  <2>5. ASSUME NEW p \in Procs, NEW n \in Names, client[p][n].live
        PROVE  \/ \E e \in Ends : bySocket[e] = n /\ client[p][n].handler = e /\ Owner(e) = p
               \/ n \in Procs /\ byAddress[p][n] = n
    BY <2>5 DEF IInv, NamesFit, ClientsAreFound, Names
  <2> QED
    BY <2>4, <2>5 DEF PointersAreLive
<1> QED
  BY <1>1, MapsAreSound, PTL

-----------------------------------------------------------------------------
(* What a recursive definition over 0..n makes of one value after the      *)
(* other, there is.                                                        *)
IsTable(f, n, b, g) == f[0] = b /\ \A i \in 1..n : f[i] = g[i][f[i - 1]]
LEMMA TableExists ==
  ASSUME NEW n \in Nat, NEW S, NEW b \in S, NEW g \in [1..n -> [S -> S]]
  PROVE  \E f \in [0..n -> S] : IsTable(f, n, b, g)
<1> USE DEF IsTable
<1> DEFINE Table(f, m) == f \in [0..m -> S] /\ f[0] = b /\ \A i \in 1..m : f[i] = g[i][f[i - 1]]
           T == {m \in Nat : m <= n /\ ~\E f : Table(f, m)}
<1>1. CASE T = {}
  <2>1. n \notin T
    <3> HIDE DEF T
    <3> QED
      BY <1>1
  <2>2. \E f : Table(f, n)
    <3>1. n \in Nat /\ n <= n
      OBVIOUS
    <3> HIDE DEF Table
    <3> QED
      BY <2>1, <3>1
  <2> QED
    BY <2>2
<1>2. CASE T # {}
  <2>1. PICK m \in T : \A k \in T : m <= k
    <3> HIDE DEF T
    <3>1. T \subseteq Nat
      BY DEF T
    <3> QED
      BY <1>2, <3>1, LeastNat
  <2>2. Table([i \in {0} |-> b], 0)
    OBVIOUS
  <2>3. m \in Nat /\ m <= n /\ m # 0
    <3>1. 0..0 = {0}
      OBVIOUS
    <3>2. m \in Nat /\ m <= n /\ ~\E f : Table(f, m)
      BY <2>1
    <3>3. m # 0
      <4>1. Table([i \in {0} |-> b], 0)
        BY <2>2
      <4> HIDE DEF Table
      <4> QED
        BY <3>2, <4>1
    <3> QED
      BY <3>2, <3>3
  <2>4. PICK f : Table(f, m - 1)
    <3>1. m - 1 \in Nat /\ m - 1 <= n /\ ~(m <= m - 1)
      BY <2>3
    <3> HIDE DEF Table
    <3> QED
      BY <2>1, <3>1
  <2> DEFINE h == [i \in 0..m |-> IF i = m THEN g[m][f[m - 1]] ELSE f[i]]
  <2>5. m - 1 \in 0..m-1 /\ f[m - 1] \in S /\ m \in 1..n
    BY <2>3, <2>4
  <2>6. g[m][f[m - 1]] \in S
    BY <2>5
  <2>7. h \in [0..m -> S]
    BY <2>3, <2>4, <2>6
  <2>8. h[0] = b
    BY <2>3, <2>4
  <2>9. \A i \in 1..m : h[i] = g[i][h[i - 1]]
    <3> SUFFICES ASSUME NEW i \in 1..m PROVE h[i] = g[i][h[i - 1]]
      OBVIOUS
    <3>1. i \in 0..m /\ i - 1 \in 0..m /\ i - 1 # m /\ (i # m => i \in 1..m-1)
      BY <2>3
    <3>2. h[i - 1] = f[i - 1]
      BY <3>1
    <3>3. h[i] = IF i = m THEN g[m][f[m - 1]] ELSE f[i]
      BY <3>1
    <3> HIDE DEF h
    <3> QED
      BY <2>4, <3>1, <3>2, <3>3
  <2>10. Table(h, m)
    BY <2>7, <2>8, <2>9
  <2> HIDE DEF Table, h
  <2> QED
    BY <2>1, <2>10
<1> QED
  BY <1>1, <1>2

-----------------------------------------------------------------------------
(* NumbersAt takes the numbers at the places, in the order of the places.  *)
Record == [from: Ends, no: Nat]
Picks(N, at, s, places, m) ==
  /\ N \in Seq(Nat) /\ at \in [1..Len(N) -> 1..m]
  /\ \A i \in 1..Len(N) : at[i] \in places /\ N[i] = s[at[i]].no
  /\ \A i \in 1..Len(N), j \in 1..Len(N) : i < j => at[i] < at[j]
  /\ \A k \in 1..m : k \in places => \E i \in 1..Len(N) : at[i] = k

(* The numbers picked from one request more.                               *)
LEMMA PickNext ==
  ASSUME NEW s \in Seq(Record), NEW places, NEW m \in Nat, m + 1 <= Len(s),
         NEW N, NEW at, Picks(N, at, s, places, m)
  PROVE  \E a : Picks(IF m + 1 \in places THEN Append(N, s[m + 1].no) ELSE N, a, s, places, m + 1)
<1>1. N \in Seq(Nat) /\ Len(N) \in Nat /\ m + 1 \in 1..Len(s) /\ s[m + 1].no \in Nat
  <2>1. s[m + 1] \in Record
    BY ElementOfSeq
  <2> QED
    BY <2>1 DEF Picks, Record
<1>2. CASE m + 1 \notin places
  <2>1. Picks(N, at, s, places, m + 1)
    <3>1. at \in [1..Len(N) -> 1..m+1]
      BY DEF Picks
    <3>2. ASSUME NEW k \in 1..m+1, k \in places PROVE \E i \in 1..Len(N) : at[i] = k
      <4>1. k \in 1..m
        BY <1>2, <3>2
      <4> QED
        BY <3>2, <4>1 DEF Picks
    <3> QED
      BY <3>1, <3>2 DEF Picks
  <2> QED
    BY <1>2, <2>1
<1>3. CASE m + 1 \in places
  <2> DEFINE M == Append(N, s[m + 1].no)
             l == Len(N)
             a == [i \in 1..l+1 |-> IF i = l + 1 THEN m + 1 ELSE at[i]]
  <2>1. M \in Seq(Nat) /\ Len(M) = l + 1 /\ (\A i \in 1..l : M[i] = N[i]) /\ M[l + 1] = s[m + 1].no
    BY <1>1
  <2>2. at \in [1..l -> 1..m]
    BY DEF Picks
  <2>3. a \in [1..l+1 -> 1..m+1]
    BY <1>1, <2>2
  <2>4. a[l + 1] = m + 1 /\ \A i \in 1..l : a[i] = at[i] /\ a[i] \in 1..m
    <3>1. l \in Nat /\ l + 1 \in 1..l+1
      BY <1>1
    <3>2. \A i \in 1..l : i \in 1..l+1 /\ i # l + 1
      BY <3>1
    <3> QED
      BY <2>2, <3>1, <3>2
  <2>5. l \in Nat /\ \A i \in 1..l+1 : i = l + 1 \/ i \in 1..l
    BY <1>1
  <2> HIDE DEF M, a, l
  <2>6. \A i \in 1..l+1 : a[i] \in places /\ M[i] = s[a[i]].no
    BY <1>3, <2>1, <2>4, <2>5 DEF Picks, l
  <2>7. \A i \in 1..l+1, j \in 1..l+1 : i < j => a[i] < a[j]
    <3> SUFFICES ASSUME NEW i \in 1..l+1, NEW j \in 1..l+1, i < j PROVE a[i] < a[j]
      OBVIOUS
    <3>1. i \in 1..l
      BY <2>5
    <3>2. CASE j = l + 1
      BY <2>4, <3>1, <3>2
    <3>3. CASE j \in 1..l
      BY <2>4, <3>1, <3>3 DEF Picks, l
    <3> QED
      BY <2>5, <3>2, <3>3
  <2>8. \A k \in 1..m+1 : k \in places => \E i \in 1..l+1 : a[i] = k
    <3> SUFFICES ASSUME NEW k \in 1..m+1, k \in places PROVE \E i \in 1..l+1 : a[i] = k
      OBVIOUS
    <3>1. CASE k = m + 1
      BY <2>4, <2>5, <3>1
    <3>2. CASE k \in 1..m
      <4>1. PICK i \in 1..l : at[i] = k
        BY <3>2 DEF Picks, l
      <4> QED
        BY <2>4, <2>5, <4>1
    <3> QED
      BY <3>1, <3>2
  <2>9. Picks(M, a, s, places, m + 1)
    BY <2>1, <2>3, <2>6, <2>7, <2>8 DEF Picks
  <2> QED
    BY <1>3, <2>9 DEF M
<1> QED
  BY <1>2, <1>3

(* NumbersAt picks the numbers of the requests at the given places and     *)
(* keeps their order.                                                      *)
LEMMA NumbersArePicked ==
  ASSUME NEW s \in Seq(Record), NEW places
  PROVE  \E at : Picks(NumbersAt(s, places), at, s, places, Len(s))
<1> DEFINE n == Len(s)
           Up(i, x) == IF i \in places THEN Append(x, s[i].no) ELSE x
           IsNumbers(f) == f = [i \in 0..n |-> IF i = 0 THEN <<>> ELSE Up(i, f[i - 1])]
<1>1. n \in Nat /\ \A i \in 1..n : s[i].no \in Nat
  <2>1. \A i \in 1..n : s[i] \in Record
    BY ElementOfSeq
  <2> QED
    BY <2>1 DEF Record
<1>2. \E f : IsNumbers(f)
  <2> DEFINE g == [i \in 1..n |-> [x \in Seq(Nat) |-> Up(i, x)]]
  <2>1. g \in [1..n -> [Seq(Nat) -> Seq(Nat)]]
    BY <1>1
  <2>2. \A i \in 1..n, x \in Seq(Nat) : g[i][x] = Up(i, x)
    OBVIOUS
  <2>3. <<>> \in Seq(Nat)
    OBVIOUS
  <2> HIDE DEF g
  <2>4. PICK f \in [0..n -> Seq(Nat)] : f[0] = <<>> /\ \A i \in 1..n : f[i] = g[i][f[i - 1]]
    <3> HIDE DEF n
    <3>1. \E f \in [0..n -> Seq(Nat)] : IsTable(f, n, <<>>, g)
      BY <1>1, <2>1, <2>3, TableExists
    <3> QED
      BY <3>1 DEF IsTable
  <2>5. ASSUME NEW i \in 0..n PROVE f[i] = IF i = 0 THEN <<>> ELSE Up(i, f[i - 1])
    <3>1. CASE i = 0
      BY <2>4, <3>1
    <3>2. CASE i # 0
      <4>1. i \in 1..n /\ i - 1 \in 0..n
        BY <1>1, <3>2
      <4>2. f[i] = g[i][f[i - 1]] /\ f[i - 1] \in Seq(Nat)
        BY <2>4, <4>1
      <4> HIDE DEF n, Up
      <4> QED
        BY <2>2, <3>2, <4>1, <4>2
    <3> QED
      BY <3>1, <3>2
  <2>6. f = [i \in 0..n |-> f[i]]
    OBVIOUS
  <2> HIDE DEF Up, n
  <2>7. IsNumbers(f)
    BY <2>5, <2>6
  <2> QED
    BY <2>7
<1>3. PICK f : IsNumbers(f) /\ NumbersAt(s, places) = f[n]
  <2>1. NumbersAt(s, places) = (CHOOSE f : IsNumbers(f))[n]
    BY DEF NumbersAt
  <2> HIDE DEF IsNumbers
  <2> QED
    BY <1>2, <2>1
<1> DEFINE T == {m \in Nat : m <= n /\ ~\E at : Picks(f[m], at, s, places, m)}
<1>4. f[0] = <<>> /\ \A m \in Nat : m + 1 <= n => f[m + 1] = IF m + 1 \in places THEN Append(f[m], s[m + 1].no) ELSE f[m]
  <2>1. 0 \in 0..n /\ \A m \in Nat : m + 1 <= n => m + 1 \in 0..n /\ m + 1 # 0 /\ m + 1 - 1 = m
    BY <1>1
  <2>2. \A i \in 0..n : f[i] = IF i = 0 THEN <<>> ELSE Up(i, f[i - 1])
    <3> HIDE DEF n, Up
    <3> QED
      BY <1>3
  <2> HIDE DEF n, IsNumbers, T
  <2>3. f[0] = <<>>
    BY <2>1, <2>2
  <2>4. ASSUME NEW m \in Nat, m + 1 <= n
        PROVE  f[m + 1] = IF m + 1 \in places THEN Append(f[m], s[m + 1].no) ELSE f[m]
    <3>1. f[m + 1] = Up(m + 1, f[m + 1 - 1]) /\ m + 1 - 1 = m
      <4> HIDE DEF Up
      <4> QED
        BY <2>1, <2>2, <2>4
    <3> QED
      BY <3>1
  <2> QED
    BY <2>3, <2>4
<1>5. CASE T = {}
  <2>1. n \notin T
    BY <1>5
  <2> HIDE DEF IsNumbers
  <2> QED
    BY <1>1, <1>3, <2>1
<1>6. CASE T # {}
  <2>1. PICK m \in T : \A k \in T : m <= k
    <3>1. T \subseteq Nat
      OBVIOUS
    <3> HIDE DEF T
    <3> QED
      BY <1>6, <3>1, LeastNat
  <2>2. \E at : Picks(<<>>, at, s, places, 0)
    <3>1. Picks(<<>>, [i \in 1..0 |-> 0], s, places, 0)
      BY DEF Picks
    <3> QED
      BY <3>1
  <2>3. m \in Nat /\ m <= n /\ m # 0 /\ ~\E at : Picks(f[m], at, s, places, m)
    BY <1>4, <2>1, <2>2
  <2>4. m - 1 \in Nat /\ m - 1 <= n /\ m - 1 + 1 = m /\ ~(m <= m - 1)
    BY <1>1, <2>3
  <2>5. m - 1 \notin T
    <3> HIDE DEF T
    <3> QED
      BY <2>1, <2>4
  <2>6. PICK at : Picks(f[m - 1], at, s, places, m - 1)
    BY <2>4, <2>5
  <2>7. f[m] = IF m \in places THEN Append(f[m - 1], s[m].no) ELSE f[m - 1]
    BY <1>4, <2>3, <2>4
  <2>8. \E a : Picks(f[m], a, s, places, m)
    <3>1. PICK k \in Nat : k = m - 1 /\ m = k + 1
      BY <2>4
    <3>2. k + 1 <= Len(s) /\ Picks(f[k], at, s, places, k)
      BY <2>3, <2>6, <3>1
    <3>3. \E a : Picks(IF k + 1 \in places THEN Append(f[k], s[k + 1].no) ELSE f[k], a, s, places, k + 1)
      <4> HIDE DEF IsNumbers, T
      <4> QED
        BY <3>2, PickNext
    <3> QED
      BY <2>7, <3>1, <3>3
  <2> QED
    BY <2>3, <2>8
<1> QED
  BY <1>5, <1>6

(* Numbers that grow, and leave none out after k, are those after k.       *)
LEMMA GapFree ==
  ASSUME NEW k \in Nat, NEW N \in Seq(Nat),
         \A i \in 1..Len(N), j \in 1..Len(N) : i < j => N[i] < N[j],
         \A i \in 1..Len(N) : N[i] > k /\ \A m \in k+1..N[i] : \E j \in 1..Len(N) : N[j] = m
  PROVE  \A i \in 1..Len(N) : N[i] = k + i
<1> DEFINE T == {i \in 1..Len(N) : N[i] # k + i}
<1> SUFFICES ASSUME T # {} PROVE FALSE
  OBVIOUS
<1>1. PICK i \in T : \A j \in T : i <= j
  <2>1. T \subseteq Nat
    OBVIOUS
  <2> HIDE DEF T
  <2> QED
    BY <2>1, LeastNat
<1>2. \A j \in 1..Len(N) : j < i => N[j] = k + j
  BY <1>1
<1>3. i \in 1..Len(N) /\ N[i] # k + i /\ N[i] \in Nat /\ Len(N) \in Nat
  BY <1>1
<1>4. N[i] >= k + i
  <2>1. CASE i = 1
    BY <1>3, <2>1
  <2>2. CASE i # 1
    <3>1. i - 1 \in 1..Len(N) /\ i - 1 < i
      BY <1>3, <2>2
    <3>2. N[i - 1] = k + (i - 1) /\ N[i - 1] < N[i]
      BY <1>2, <1>3, <3>1
    <3> QED
      BY <1>3, <3>2
  <2> QED
    BY <2>1, <2>2
<1>5. k + i \in k+1..N[i] /\ k + i < N[i]
  <2>1. PICK v : v = N[i]
    OBVIOUS
  <2>2. v \in Nat /\ i \in Nat /\ i >= 1 /\ v # k + i /\ v >= k + i
    BY <1>3, <1>4, <2>1
  <2>3. k + i \in k+1..v /\ k + i < v
    BY <2>2
  <2> QED
    BY <2>1, <2>3
<1>6. PICK j \in 1..Len(N) : N[j] = k + i
  BY <1>3, <1>5
<1>7. CASE j < i
  BY <1>2, <1>3, <1>6, <1>7
<1>8. CASE ~(j < i)
  <2>1. j = i \/ i < j
    BY <1>3, <1>8
  <2> QED
    BY <1>3, <1>5, <1>6, <2>1
<1> QED
  BY <1>7, <1>8

-----------------------------------------------------------------------------
(* What is on its way on link l: where it is, the end whose thread will    *)
(* see it or None for a client that waits; how far it is there; its number.*)
(* A request that an executor has is ahead of those still in the queue.    *)
Says(l, m) == /\ m.about = l[3]
              /\ m.what = IF l[3] = "entity" THEN "entity" ELSE "add_executor"
Arrives(l, e) == e[1] \in 1..Len(conns) /\ Owner(e) = l[2] /\ Peer(e) = l[1]
Asked(l) == executors[l[2]][l[3]]
Kept(l) == client[l[1]][l[2]].cache

InQueue(l, x) ==
  /\ x.place \in Ends /\ Arrives(l, x.place) /\ x.pos \in 1..Len(queue[x.place])
  /\ Says(l, queue[x.place][x.pos]) /\ x.no = queue[x.place][x.pos].no
InExecutor(l, x) ==
  /\ l[3] \in Tables /\ x.pos + Len(Asked(l)) \in 1..Len(Asked(l))
  /\ x.place = Asked(l)[x.pos + Len(Asked(l))].from
  /\ x.no = Asked(l)[x.pos + Len(Asked(l))].no /\ Arrives(l, x.place)
InCache(l, x) ==
  /\ l[3] = "entity" /\ x.place = None /\ x.pos \in 1..Len(Kept(l))
  /\ x.no = Kept(l)[x.pos].no

Items == [place: Ends \cup {None}, pos: Int, no: Nat]
Rides(l, x) == InQueue(l, x) \/ InExecutor(l, x) \/ InCache(l, x)
OnTheWay(l) == {x \in Items : Rides(l, x) /\ InTime(l, x.no)}

(* The items of a link whose first k are heard, in one place, in order and *)
(* without gaps; and all of the first n.                                   *)
Tracked(S, k) ==
  /\ \A x \in S : x.no > k /\ \A m \in k+1..x.no : \E y \in S : y.no = m
  /\ \A x \in S, y \in S : x.place = y.place /\ (x.pos = y.pos => x = y)
                           /\ (x.pos < y.pos => x.no < y.no)
All(S, k, n) == \A m \in k+1..n : \E x \in S : x.no = m

InOrder(l) ==
  /\ heard[l] = [i \in 1..Len(heard[l]) |-> i] /\ Len(heard[l]) <= said[l]
  /\ cut[l] # None => cut[l] <= said[l]
  /\ \A x \in Items : Rides(l, x) => x.no \in 1..said[l]
  /\ Tracked(OnTheWay(l), Len(heard[l]))
  /\ cut[l] = None => All(OnTheWay(l), Len(heard[l]), said[l])

(* Where calls are, of a link between games that was never cut.            *)
Calls(p, q) == <<p, q, "entity">>
Place(p, q) == IF Waits(p, q) THEN None ELSE Other(client[p][byAddress[p][q]].handler)
Together(p, q) ==
  IF byAddress[p][q] = None THEN said[Calls(p, q)] = 0
  ELSE \A x \in Items : Rides(Calls(p, q), x) => x.place = Place(p, q)
CallsAreTogether ==
  \A p \in Procs, q \in Procs : cut[Calls(p, q)] = None => Together(p, q)

OInv == (\A l \in Links : InOrder(l)) /\ CallsAreTogether

-----------------------------------------------------------------------------
(* What breaks is cut, what is closed is broken and was read to its end,   *)
(* only clients that wait keep calls, what an executor has came over an    *)
(* end that it has seen.                                                   *)
BrokenAreCut ==
  \A c \in 1..Len(conns) : c \notin standing =>
    \A l \in Between(conns[c].dialer, conns[c].acceptor) : cut[l] # None
ClosedAreBroken ==
  \A e \in Ends : stage[e] = "closed" => e[1] \notin standing /\ queue[e] = <<>>
CachesWait ==
  \A p \in Procs, n \in Names : client[p][n].cache # <<>> => n \in Procs /\ Waits(p, n)
ExecutorsFit ==
  \A d \in Procs, t \in Tables : \A i \in 1..Len(executors[d][t]) :
    LET e == executors[d][t][i].from
    IN stage[e] \in {"open", "closed"} /\ Owner(e) = d

(* A game dials, and its requests to a db_manager have one connection.     *)
Joins(c, p, q) == conns[c].dialer = p /\ conns[c].acceptor = q
GamesDial == \A c \in 1..Len(conns) : kind[conns[c].dialer] = "game"
RequestsAreTogether ==
  \A p \in Procs, q \in Procs, t \in Tables : kind[q] = "db" /\ cut[<<p, q, t>>] = None =>
    \A c \in 1..Len(conns), d \in 1..Len(conns) : Joins(c, p, q) /\ Joins(d, p, q) => c = d

SInv == /\ BrokenAreCut /\ ClosedAreBroken /\ CachesWait /\ ExecutorsFit
        /\ GamesDial /\ RequestsAreTogether

-----------------------------------------------------------------------------
(* Items that move along and keep their order; those that are lost are     *)
(* behind the others.                                                      *)
Follows(T, S, f) ==
  /\ \A x \in T : f[x] \in S /\ f[x].no = x.no
  /\ \A x \in T, y \in T : x.place = y.place /\ (x.pos = y.pos => f[x].pos = f[y].pos)
                           /\ (x.pos < y.pos => f[x].pos < f[y].pos)
  /\ \A x \in T, y \in S : y.pos < f[x].pos => \E z \in T : f[z] = y

(* An item is where it is and what its number is.                          *)
LEMMA SameItem ==
  ASSUME NEW x \in Items, NEW y \in Items, x.place = y.place, x.pos = y.pos, x.no = y.no
  PROVE  x = y
  BY DEF Items

(* What follows tracked items is tracked, and all of them if none was      *)
(* lost.                                                                   *)
LEMMA Carried ==
  ASSUME NEW S \in SUBSET Items, NEW T \in SUBSET Items, NEW k \in Nat, Tracked(S, k),
         NEW f, Follows(T, S, f)
  PROVE  /\ Tracked(T, k)
         /\ (\A y \in S : \E z \in T : f[z] = y) => \A n : All(S, k, n) => All(T, k, n)
<1>1. \A x \in T : x \in Items /\ f[x] \in S /\ f[x] \in Items /\ f[x].no = x.no
  BY DEF Follows
<1>2. ASSUME NEW x \in T PROVE x.no > k /\ \A m \in k+1..x.no : \E z \in T : z.no = m
  <2>1. x.no > k
    BY <1>1 DEF Tracked
  <2>2. ASSUME NEW m \in k+1..x.no PROVE \E z \in T : z.no = m
    <3>1. PICK y \in S : y.no = m
      BY <1>1 DEF Tracked
    <3>2. CASE y.pos < f[x].pos
      <4>1. PICK z \in T : f[z] = y
        BY <3>2 DEF Follows
      <4> QED
        BY <1>1, <3>1, <4>1
    <3>3. CASE ~(y.pos < f[x].pos)
      <4>1. y = f[x] \/ f[x].pos < y.pos
        <5>1. y.pos \in Int /\ f[x].pos \in Int
          BY <1>1 DEF Items
        <5>2. y.pos = f[x].pos \/ f[x].pos < y.pos
          BY <3>3, <5>1
        <5>3. y.pos = f[x].pos => y = f[x]
          BY <1>1 DEF Tracked
        <5> QED
          BY <5>2, <5>3
      <4>2. ~(f[x].no < y.no)
        <5>1. x.no \in Nat /\ m \in Nat /\ m <= x.no
          BY <1>1 DEF Items
        <5> QED
          BY <1>1, <3>1, <5>1
      <4>3. y = f[x]
        BY <1>1, <4>1, <4>2 DEF Tracked
      <4> QED
        BY <1>1, <3>1, <4>3
    <3> QED
      BY <3>2, <3>3
  <2> QED
    BY <2>1, <2>2
<1>3. ASSUME NEW x \in T, NEW y \in T, x.pos < y.pos PROVE x.no < y.no
  <2>1. f[x].pos < f[y].pos
    BY <1>3 DEF Follows
  <2>2. f[x].no < f[y].no
    BY <1>1, <2>1 DEF Tracked
  <2> QED
    BY <1>1, <2>2
<1>6. ASSUME NEW x \in T, NEW y \in T, x.pos = y.pos PROVE x = y
  <2>1. f[x].pos = f[y].pos /\ x.place = y.place
    BY <1>6 DEF Follows
  <2>2. f[x] = f[y]
    BY <1>1, <2>1 DEF Tracked
  <2>3. x.no = y.no
    BY <1>1, <2>2
  <2> QED
    BY <1>1, <1>6, <2>1, <2>3, SameItem
<1>4. Tracked(T, k)
  BY <1>2, <1>3, <1>6 DEF Tracked, Follows
<1>5. ASSUME \A y \in S : \E z \in T : f[z] = y, NEW n, All(S, k, n) PROVE All(T, k, n)
  <2> SUFFICES ASSUME NEW m \in k+1..n PROVE \E z \in T : z.no = m
    BY DEF All
  <2>1. PICK y \in S : y.no = m
    BY <1>5 DEF All
  <2>2. PICK z \in T : f[z] = y
    BY <1>5
  <2> QED
    BY <1>1, <2>1, <2>2
<1> QED
  BY <1>4, <1>5

(* The first item is the next number.                                      *)
LEMMA NextIsFirst ==
  ASSUME NEW S \in SUBSET Items, NEW k \in Nat, Tracked(S, k),
         NEW h \in S, \A x \in S : h.pos <= x.pos
  PROVE  /\ h.no = k + 1 /\ Tracked(S \ {h}, k + 1)
         /\ \A n : All(S, k, n) => All(S \ {h}, k + 1, n)
<1>1. \A x \in S : x.no \in Nat /\ x.pos \in Int
  BY DEF Items
<1>2. ASSUME NEW x \in S, x # h PROVE h.no < x.no
  <2>1. h.pos < x.pos
    BY <1>1, <1>2 DEF Tracked
  <2> QED
    BY <2>1 DEF Tracked
<1>3. h.no = k + 1
  <2>1. h.no > k /\ h.no \in Nat
    BY <1>1 DEF Tracked
  <2>2. k + 1 \in k+1..h.no
    BY <2>1
  <2>3. PICK y \in S : y.no = k + 1
    BY <2>2 DEF Tracked
  <2>4. y = h \/ h.no < k + 1
    BY <1>2, <2>3
  <2> QED
    BY <2>1, <2>3, <2>4
<1>4. ASSUME NEW x \in S \ {h}
      PROVE  x.no > k + 1 /\ \A m \in k+1+1..x.no : \E y \in S \ {h} : y.no = m
  <2>1. x.no > k + 1
    BY <1>1, <1>2, <1>3
  <2>2. ASSUME NEW m \in k+1+1..x.no PROVE \E y \in S \ {h} : y.no = m
    <3>1. m \in k+1..x.no /\ m # k + 1
      BY <1>1
    <3>2. PICK y \in S : y.no = m
      BY <3>1 DEF Tracked
    <3> QED
      BY <1>3, <3>1, <3>2
  <2> QED
    BY <2>1, <2>2
<1>5. Tracked(S \ {h}, k + 1)
  BY <1>4 DEF Tracked
<1>6. ASSUME NEW n, All(S, k, n) PROVE All(S \ {h}, k + 1, n)
  <2> SUFFICES ASSUME NEW m \in k+1+1..n PROVE \E y \in S \ {h} : y.no = m
    BY DEF All
  <2>1. m \in k+1..n /\ m # k + 1
    OBVIOUS
  <2>2. PICK y \in S : y.no = m
    BY <1>6, <2>1 DEF All
  <2> QED
    BY <1>3, <2>1, <2>2
<1> QED
  BY <1>3, <1>5, <1>6

(* What is said next goes behind the others.                               *)
LEMMA OneMore ==
  ASSUME NEW S \in SUBSET Items, NEW k \in Nat, NEW n \in Nat, k <= n, Tracked(S, k), All(S, k, n),
         \A x \in S : x.no <= n,
         NEW y \in Items, y.no = n + 1, \A x \in S : x.place = y.place /\ x.pos < y.pos
  PROVE  Tracked(S \cup {y}, k) /\ All(S \cup {y}, k, n + 1)
<1>1. \A x \in S : x.no \in Nat /\ x.pos \in Int
  BY DEF Items
<1>2. y.pos \in Int /\ y.no \in Nat
  BY DEF Items
<1>3. All(S \cup {y}, k, n + 1)
  <2> SUFFICES ASSUME NEW m \in k+1..n+1 PROVE \E x \in S \cup {y} : x.no = m
    BY DEF All
  <2>1. m \in k+1..n \/ m = n + 1
    OBVIOUS
  <2> QED
    BY <2>1 DEF All
<1>4. ASSUME NEW x \in S \cup {y}
      PROVE  x.no > k /\ \A m \in k+1..x.no : \E z \in S \cup {y} : z.no = m
  <2>1. x.no > k /\ x.no <= n + 1
    BY <1>1 DEF Tracked
  <2>2. \A m \in k+1..x.no : m \in k+1..n+1
    BY <1>1, <2>1
  <2> QED
    BY <1>3, <2>1, <2>2 DEF All
<1>5. ASSUME NEW x \in S \cup {y}, NEW z \in S \cup {y}
      PROVE  x.place = z.place /\ (x.pos = z.pos => x = z) /\ (x.pos < z.pos => x.no < z.no)
  <2>1. CASE x \in S /\ z \in S
    BY <2>1 DEF Tracked
  <2>2. CASE x \in S /\ z = y
    <3>1. x.place = y.place /\ x.pos < y.pos /\ x.no <= n
      BY <2>2
    <3> QED
      BY <1>1, <1>2, <2>2, <3>1
  <2>3. CASE x = y /\ z \in S
    <3>1. z.place = y.place /\ z.pos < y.pos
      BY <2>3
    <3> QED
      BY <1>1, <1>2, <2>3, <3>1
  <2>4. CASE x = y /\ z = y
    BY <1>2, <2>4
  <2> QED
    BY <2>1, <2>2, <2>3, <2>4
<1> QED
  BY <1>3, <1>4, <1>5 DEF Tracked

-----------------------------------------------------------------------------
(* The types of what is not in the maps.                                   *)
Sound == {m \in Message : /\ m.what # "register_server" => m.no > 0
                          /\ m.what = "entity" => m.about = "entity"
                          /\ m.what \in {"add_executor", "answer"} => m.about \in Tables}
SoundCalls == {m \in Sound : m.what = "entity"}
Request == [from: Ends, no: 1..MaxSaid]

QueuesFit ==
  /\ queue \in [Ends -> Seq(Sound)]
  /\ \A e \in Ends : queue[e] # <<>> => e[1] \in 1..Len(conns)
CachesFit == \A p \in Procs, n \in Names : client[p][n].cache \in Seq(SoundCalls)
CountsFit ==
  /\ said \in [Links -> 0..MaxSaid] /\ heard \in [Links -> Seq(1..MaxSaid)]
  /\ answered \in [Links -> SUBSET (1..MaxSaid)]
  /\ cut \in [Links -> 0..MaxSaid \cup {None}]
TInv ==
  /\ kind \in Kinds /\ down \subseteq Procs /\ standing \subseteq 1..Len(conns)
  /\ QueuesFit /\ CachesFit /\ CountsFit
  /\ executors \in [Procs -> [Tables -> Seq(Request)]]

(* The two invariants give the type invariant of the model.                *)
LEMMA TypesFollow == ASSUME IInv, TInv PROVE TypeOK
<1>1. queue \in [Ends -> Seq(Message)]
  <2>1. ASSUME NEW e \in Ends PROVE queue[e] \in Seq(Message)
    <3>1. queue[e] \in Seq(Sound) /\ Sound \subseteq Message
      BY DEF TInv, QueuesFit, Sound
    <3> QED
      BY <3>1, SeqMonotonic
  <2> QED
    BY <2>1 DEF TInv, QueuesFit
<1>2. client \in [Procs -> [Names -> Client]]
  <2>1. ASSUME NEW p \in Procs, NEW n \in Names PROVE client[p][n] \in Client
    <3>1. client[p][n].cache \in Seq(SoundCalls) /\ SoundCalls \subseteq Message
      BY DEF TInv, CachesFit, SoundCalls, Sound
    <3>2. client[p][n].cache \in Seq(Message)
      BY <3>1, SeqMonotonic
    <3>3. client[p][n] \in Plain
      BY DEF IInv, Shape
    <3> QED
      BY <3>2, <3>3 DEF Plain, Client
  <2> QED
    BY <2>1 DEF IInv, Shape
<1> QED
  BY <1>1, <1>2 DEF TypeOK, IInv, Shape, TInv, CountsFit, Request

LEMMA StartTypes == Init => TInv
<1> SUFFICES ASSUME Init PROVE TInv
  OBVIOUS
<1>1. \A p \in Procs, n \in Names : client[p][n].cache \in Seq(SoundCalls)
  <2>1. \A p \in Procs, n \in Names : client[p][n].cache = <<>>
    BY DEF Init, Gone
  <2>2. <<>> \in Seq(SoundCalls)
    OBVIOUS
  <2> QED
    BY <2>1, <2>2
<1>2. /\ kind \in Kinds /\ down \subseteq Procs /\ standing \subseteq 1..Len(conns)
      /\ queue \in [Ends -> Seq(Sound)]
      /\ \A e \in Ends : queue[e] # <<>> => e[1] \in 1..Len(conns)
  BY DEF Init
<1>3. executors \in [Procs -> [Tables -> Seq(Request)]]
  BY DEF Init
<1>4. said \in [Links -> 0..MaxSaid] /\ heard \in [Links -> Seq(1..MaxSaid)]
  <2>1. 0 \in 0..MaxSaid
    BY BoundsAssumption
  <2> QED
    BY <2>1 DEF Init
<1>5. answered \in [Links -> SUBSET (1..MaxSaid)] /\ cut \in [Links -> 0..MaxSaid \cup {None}]
  BY DEF Init
<1> QED
  BY <1>1, <1>2, <1>3, <1>4, <1>5 DEF TInv, QueuesFit, CachesFit, CountsFit

(* There are finitely many links, so what was said on one is no more than  *)
(* what was said.                                                          *)
LEMMA LinksAreFinite == IsFiniteSet(Links)
<1>1. IsFiniteSet(Tables)
  <2> DEFINE f == [i \in 1..Len(TableOrder) |-> TableOrder[i]]
  <2>1. f \in Surjection(1..Len(TableOrder), Tables)
    <3>1. f \in [1..Len(TableOrder) -> Tables]
      BY DEF Tables
    <3>2. \A t \in Tables : \E i \in 1..Len(TableOrder) : f[i] = t
      BY DEF Tables
    <3> HIDE DEF f
    <3> QED
      BY <3>1, <3>2 DEF Surjection
  <2>2. IsFiniteSet(1..Len(TableOrder))
    <3>1. Len(TableOrder) \in Int
      BY BoundsAssumption
    <3> QED
      BY <3>1, FS_Interval
  <2> QED
    BY <2>1, <2>2, FS_Surjection
<1>2. IsFiniteSet(Tables \cup {"entity"})
  BY <1>1, FS_AddElement
<1>3. IsFiniteSet(Procs)
  BY NamesAssumption
<1> DEFINE T == Tables \cup {"entity"}
           f == [l \in Links |-> <<<<l[1], l[2]>>, l[3]>>]
<1> HIDE DEF T
<1>4. IsFiniteSet((Procs \X Procs) \X T)
  BY <1>2, <1>3, FS_Product DEF T
<1>5. f \in Injection(Links, (Procs \X Procs) \X T)
  <2>1. f \in [Links -> (Procs \X Procs) \X T]
    BY DEF Links, T
  <2>2. \A l \in Links, m \in Links : f[l] = f[m] => l = m
    BY DEF Links, T
  <2> HIDE DEF f
  <2> QED
    BY <2>1, <2>2 DEF Injection, IsInjective
<1> QED
  BY <1>4, <1>5, FS_Injection

(* While less than the bound was said in all, the next number of a link is *)
(* within it.                                                              *)
LEMMA LessIsSaid ==
  ASSUME said \in [Links -> Nat], Spoken < MaxSaid, NEW link \in Links
  PROVE  Number(link) \in 1..MaxSaid
<1>1. Spoken = SumFunctionOnSet(said, Links)
  BY DEF Spoken, SumFunction
<1>2. PICK total : total = SumFunctionOnSet(said, Links)
  OBVIOUS
<1>3. total \in Nat /\ said[link] <= total
  BY <1>2, LinksAreFinite, SumBounds
<1>4. said[link] \in Nat /\ total < MaxSaid
  BY <1>1, <1>2
<1>5. said[link] + 1 \in 1..MaxSaid
  BY <1>3, <1>4, BoundsAssumption
<1> QED
  BY <1>5 DEF Number

(* Sequences put together are a sequence.                                  *)
LEMMA FlattenedType ==
  ASSUME NEW S, NEW ss \in Seq(Seq(S))
  PROVE  FlattenSeq(ss) \in Seq(S)
<1> DEFINE n == Len(ss)
           IsFlat(f) == f = [i \in 1..n |-> IF i = 1 THEN ss[i] ELSE f[i - 1] \o ss[i]]
<1>1. n \in Nat /\ \A i \in 1..n : ss[i] \in Seq(S)
  BY ElementOfSeq
<1>2. CASE n = 0
  <2>1. FlattenSeq(ss) = ss /\ ss = <<>>
    BY <1>2, EmptySeq DEF FlattenSeq
  <2> QED
    BY <2>1
<1>3. CASE n # 0
  <2>1. \E f : IsFlat(f)
    <3> DEFINE g == [i \in 1..n |-> [x \in Seq(S) |-> x \o ss[i]]]
    <3>1. g \in [1..n -> [Seq(S) -> Seq(S)]]
      BY <1>1
    <3>2. \A i \in 1..n, x \in Seq(S) : g[i][x] = x \o ss[i]
      OBVIOUS
    <3>3. <<>> \in Seq(S)
      OBVIOUS
    <3> HIDE DEF g
    <3>4. PICK f \in [0..n -> Seq(S)] : f[0] = <<>> /\ \A i \in 1..n : f[i] = g[i][f[i - 1]]
      <4> HIDE DEF n
      <4>1. \E f \in [0..n -> Seq(S)] : IsTable(f, n, <<>>, g)
        BY <1>1, <3>1, <3>3, TableExists
      <4> QED
        BY <4>1 DEF IsTable
    <3> DEFINE h == [i \in 1..n |-> f[i]]
    <3>5. ASSUME NEW i \in 1..n PROVE h[i] = IF i = 1 THEN ss[i] ELSE h[i - 1] \o ss[i]
      <4>1. i \in 0..n /\ i - 1 \in 0..n /\ (i # 1 => i - 1 \in 1..n)
        BY <1>1
      <4>2. f[i] = f[i - 1] \o ss[i]
        BY <3>2, <3>4, <4>1
      <4>3. CASE i = 1
        <5>1. f[i - 1] = <<>> /\ ss[i] \in Seq(S)
          BY <1>1, <3>4, <4>3
        <5>2. f[i] = ss[i]
          BY <4>2, <5>1, ConcatEmptySeq
        <5> QED
          BY <4>3, <5>2
      <4>4. CASE i # 1
        BY <4>1, <4>2, <4>4
      <4> QED
        BY <4>3, <4>4
    <3>6. h = [i \in 1..n |-> h[i]]
      OBVIOUS
    <3> HIDE DEF n, h
    <3>7. IsFlat(h)
      BY <3>5, <3>6
    <3> QED
      BY <3>7
  <2>2. PICK f : IsFlat(f) /\ FlattenSeq(ss) = f[n]
    <3>1. FlattenSeq(ss) = (CHOOSE f : IsFlat(f))[n]
      BY <1>3 DEF FlattenSeq
    <3> HIDE DEF IsFlat
    <3> QED
      BY <2>1, <3>1
  <2>3. \A i \in 1..n : f[i] = IF i = 1 THEN ss[i] ELSE f[i - 1] \o ss[i]
    <3> HIDE DEF n
    <3> QED
      BY <2>2
  <2> DEFINE T == {i \in 1..n : f[i] \notin Seq(S)}
  <2>4. CASE T = {}
    <3>1. n \in 1..n
      BY <1>1, <1>3
    <3> HIDE DEF IsFlat
    <3> QED
      BY <2>2, <2>4, <3>1
  <2>5. CASE T # {}
    <3>1. PICK i \in T : \A j \in T : i <= j
      <4>1. T \subseteq Nat
        OBVIOUS
      <4> HIDE DEF T
      <4> QED
        BY <2>5, <4>1, LeastNat
    <3>2. i \in 1..n /\ f[i] \notin Seq(S)
      BY <3>1
    <3>3. CASE i = 1
      BY <1>1, <2>3, <3>2, <3>3
    <3>4. CASE i # 1
      <4>1. i - 1 \in 1..n /\ ~(i <= i - 1)
        BY <3>2, <3>4
      <4>2. f[i - 1] \in Seq(S)
        BY <3>1, <4>1
      <4>3. f[i] = f[i - 1] \o ss[i] /\ ss[i] \in Seq(S)
        BY <1>1, <2>3, <3>2, <3>4
      <4> QED
        BY <3>2, <4>2, <4>3
    <3> QED
      BY <3>3, <3>4
  <2> QED
    BY <2>4, <2>5
<1> QED
  BY <1>2, <1>3

(* A sequence is typed by its elements.                                    *)
LEMMA SeqOfElements ==
  ASSUME NEW S, NEW T, NEW s \in Seq(S), \A i \in 1..Len(s) : s[i] \in T
  PROVE  s \in Seq(T)
<1>1. Len(s) \in Nat /\ s \in [1..Len(s) -> S]
  OBVIOUS
<1>2. s \in [1..Len(s) -> T]
  BY <1>1
<1> QED
  BY <1>1, <1>2, SeqDef

(* What is picked, and what Update answers, is typed.                      *)
LEMMA NumbersType ==
  ASSUME NEW s \in Seq(Request), NEW places
  PROVE  NumbersAt(s, places) \in Seq(1..MaxSaid)
<1>1. s \in Seq(Record)
  <2>1. Request \subseteq Record
    BY DEF Request, Record
  <2> QED
    BY <2>1, SeqMonotonic
<1>2. PICK at : Picks(NumbersAt(s, places), at, s, places, Len(s))
  BY <1>1, NumbersArePicked
<1>3. PICK N : N = NumbersAt(s, places)
  OBVIOUS
<1>4. N \in Seq(Nat) /\ \A i \in 1..Len(N) : at[i] \in 1..Len(s) /\ N[i] = s[at[i]].no
  BY <1>2, <1>3 DEF Picks
<1>5. \A i \in 1..Len(N) : N[i] \in 1..MaxSaid
  <2>1. \A i \in 1..Len(s) : s[i] \in Request
    BY ElementOfSeq
  <2> QED
    BY <1>4, <2>1 DEF Request
<1>6. N \in Seq(1..MaxSaid)
  BY <1>4, <1>5, SeqOfElements
<1> QED
  BY <1>3, <1>6

LEMMA AnswersType ==
  ASSUME TInv, NEW d \in Procs, NEW e
  PROVE  AnswersOver(d, e) \in Seq({m \in Sound : m.what = "answer"})
<1> DEFINE S == {m \in Sound : m.what = "answer"}
           over(t) == {i \in Served(d, t) : executors[d][t][i].from = e}
           done(t) == NumbersAt(executors[d][t], over(t))
           answers(t) == [i \in 1..Len(done(t)) |-> [what |-> "answer", about |-> t, no |-> done(t)[i]]]
           ss == [i \in 1..Len(TableOrder) |-> answers(TableOrder[i])]
<1>1. ASSUME NEW t \in Tables PROVE answers(t) \in Seq(S)
  <2>1. executors[d][t] \in Seq(Request)
    BY DEF TInv
  <2>2. done(t) \in Seq(1..MaxSaid)
    BY <2>1, NumbersType
  <2>3. PICK N \in Seq(1..MaxSaid) : N = done(t)
    <3> HIDE DEF done
    <3> QED
      BY <2>2
  <2>4. \A i \in 1..Len(N) : N[i] \in 1..MaxSaid
    BY ElementOfSeq
  <2>5. \A i \in 1..Len(N) : [what |-> "answer", about |-> t, no |-> N[i]] \in S
    <3>1. ASSUME NEW k \in 1..MaxSaid PROVE [what |-> "answer", about |-> t, no |-> k] \in S
      <4>1. k \in 0..MaxSaid /\ k > 0
        BY BoundsAssumption
      <4> QED
        BY <4>1 DEF Sound, Message
    <3> HIDE DEF S
    <3> QED
      BY <2>4, <3>1
  <2> HIDE DEF S, done
  <2>6. [i \in 1..Len(N) |-> [what |-> "answer", about |-> t, no |-> N[i]]] \in Seq(S)
    <3>1. Len(N) \in Nat
      OBVIOUS
    <3> QED
      BY <2>5, <3>1
  <2> QED
    BY <2>3, <2>6
<1>2. \A i \in 1..Len(TableOrder) : TableOrder[i] \in Tables
  BY DEF Tables
<1>3. Len(TableOrder) \in Nat
  BY BoundsAssumption
<1>4. \A i \in 1..Len(TableOrder) : ss[i] \in Seq(S)
  <2> HIDE DEF answers, S
  <2> QED
    BY <1>1, <1>2
<1>5. ss \in Seq(Seq(S))
  <2> HIDE DEF answers, S
  <2> QED
    BY <1>3, <1>4
<1>6. AnswersOver(d, e) = FlattenSeq(ss)
  BY DEF AnswersOver
<1> HIDE DEF ss, S
<1>7. FlattenSeq(ss) \in Seq(S)
  BY <1>5, FlattenedType
<1> QED
  BY <1>6, <1>7 DEF S

(* The steps' parts: posting, cutting, reading and saying keep the types.  *)
LEMMA PostedFits ==
  ASSUME TInv, NEW e \in Ends, NEW packets \in Seq(Sound)
  PROVE  /\ Posted(queue, e, packets) \in [Ends -> Seq(Sound)]
         /\ \A f \in Ends : Posted(queue, e, packets)[f] # <<>> => f[1] \in 1..Len(conns)
<1>1. Other(e) \in Ends /\ Other(e)[1] = e[1]
  BY EndFacts
<1>2. queue \in [Ends -> Seq(Sound)] /\ standing \subseteq 1..Len(conns)
      /\ \A f \in Ends : queue[f] # <<>> => f[1] \in 1..Len(conns)
  BY DEF TInv, QueuesFit
<1>3. queue[Other(e)] \o packets \in Seq(Sound)
  BY <1>1, <1>2
<1>4. CASE e[1] \in standing
  <2>1. Posted(queue, e, packets) = [queue EXCEPT ![Other(e)] = queue[Other(e)] \o packets]
    BY <1>4 DEF Posted
  <2> QED
    BY <1>1, <1>2, <1>3, <1>4, <2>1
<1>5. CASE e[1] \notin standing
  BY <1>2, <1>5 DEF Posted
<1> QED
  BY <1>4, <1>5

LEMMA CutFits ==
  ASSUME said \in [Links -> 0..MaxSaid], cut \in [Links -> 0..MaxSaid \cup {None}],
         NEW links, Cut(links)
  PROVE  cut' \in [Links -> 0..MaxSaid \cup {None}]
  BY DEF Cut

LEMMA ReceivesFits ==
  ASSUME IInv, TInv, NEW e \in Ends, NEW what, Receives(e, what)
  PROVE  /\ queue[e] \in Seq(Sound) /\ queue[e] # <<>> /\ Head(queue[e]) \in Sound
         /\ Head(queue[e]).what = what
         /\ Owner(e) \in Procs /\ Peer(e) \in Procs /\ stage[e] = "open"
         /\ QueuesFit'
<1>1. queue[e] \in Seq(Sound) /\ queue[e] # <<>> /\ stage[e] = "open" /\ Head(queue[e]).what = what
  BY DEF TInv, QueuesFit, Receives
<1>2. Head(queue[e]) \in Sound /\ Tail(queue[e]) \in Seq(Sound)
  BY <1>1, HeadTailProperties
<1>3. Owner(e) \in Procs /\ Peer(e) \in Procs /\ e[1] \in 1..Len(conns)
  BY <1>1, SeenOwners
<1>4. queue' = [queue EXCEPT ![e] = Tail(queue[e])] /\ conns' = conns
  BY DEF Receives
<1>5. QueuesFit'
  BY <1>2, <1>3, <1>4 DEF TInv, QueuesFit
<1> QED
  BY <1>1, <1>2, <1>3, <1>5

(* Ends that the maps lead to.                                             *)
LEMMA HandlerFits ==
  ASSUME IInv, NEW p \in Procs, NEW n \in Names
  PROVE  client[p][n].handler \in Ends \cup {None} /\ client[p][n].cache \in Seq([what: {"register_server", "entity", "add_executor", "answer"},
                      about: Tables \cup {"entity"}, no: Nat])
         /\ client[p][n] \in Plain
<1>1. client[p][n] \in Plain
  BY DEF IInv, Shape
<1> QED
  BY <1>1 DEF Plain

LEMMA RequestFits ==
  ASSUME said \in [Links -> 0..MaxSaid], Spoken < MaxSaid, NEW link \in Links
  PROVE  /\ Number(link) \in 1..MaxSaid /\ Number(link) = said[link] + 1
         /\ [said EXCEPT ![link] = @ + 1] \in [Links -> 0..MaxSaid]
<1>1. said \in [Links -> Nat]
  BY BoundsAssumption
<1>2. Number(link) \in 1..MaxSaid
  BY <1>1, LessIsSaid
<1>3. Number(link) = said[link] + 1
  BY DEF Number
<1>4. said[link] + 1 \in 0..MaxSaid
  BY <1>2, <1>3
<1> QED
  BY <1>2, <1>3, <1>4

LEMMA ConnectFits ==
  ASSUME IInv, TInv, NEW p, NEW q, Connect(p, q)
  PROVE  standing' \subseteq 1..Len(conns') /\ 1..Len(conns) \subseteq 1..Len(conns')
<1>1. PICK n \in Nat : n = Len(conns)
  BY DEF IInv, Shape
<1>2. Len(conns') = n + 1
  <2>1. conns \in Seq([dialer: Procs, acceptor: Procs])
    BY DEF IInv, Shape
  <2>2. PICK x : conns' = Append(conns, x)
    BY DEF Connect
  <2>3. ASSUME NEW S, conns \in Seq(S) PROVE Len(Append(conns, x)) = n + 1
    BY <1>1, <2>3
  <2> QED
    BY <2>1, <2>2, <2>3
<1>3. standing' = standing \cup {n + 1} /\ standing \subseteq 1..n
  BY <1>1 DEF Connect, TInv
<1>4. standing \cup {n + 1} \subseteq 1..n+1 /\ 1..n \subseteq 1..n+1
  BY <1>3
<1>5. 1..Len(conns') = 1..n+1 /\ 1..Len(conns) = 1..n
  BY <1>1, <1>2
<1> QED
  BY <1>3, <1>4, <1>5

(* The types, action by action.                                            *)
LEMMA CallEntityTypes ==
  ASSUME IInv, TInv, NEW p \in Procs, NEW q \in Procs, CallEntity(p, q)
  PROVE  TInv'
<1> DEFINE link == <<p, q, "entity">>
<1> SUFFICES ASSUME NEW call, call = [what |-> "entity", about |-> "entity", no |-> Number(link)],
                    NEW n, n = byAddress[p][q]
             PROVE  TInv'
  OBVIOUS
<1>1. link \in Links
  BY DEF Links
<1>2. Number(link) \in 1..MaxSaid /\ said' \in [Links -> 0..MaxSaid]
  BY <1>1, RequestFits DEF CallEntity, TInv, CountsFit
<1>3. call \in SoundCalls /\ call \in Sound
  <2>1. Number(link) \in 0..MaxSaid /\ Number(link) > 0
    BY <1>2, BoundsAssumption
  <2>2. call \in Message
    BY <2>1 DEF Message
  <2> QED
    BY <2>1, <2>2 DEF SoundCalls, Sound
<1>4. UNCHANGED <<kind, down, executors, heard, answered>>
  BY DEF CallEntity
<1>5. CASE /\ n # None /\ client[p][n].handler # None
           /\ queue' = Posted(queue, client[p][n].handler, <<call>>)
           /\ UNCHANGED <<conns, standing, client, cut>>
  <2>1. client[p][n].handler \in Ends
    BY <1>5, HandlerFits DEF IInv, Shape
  <2>2. <<call>> \in Seq(Sound)
    BY <1>3
  <2>3. QueuesFit'
    BY <1>5, <2>1, <2>2, PostedFits DEF QueuesFit
  <2> QED
    BY <1>2, <1>4, <1>5, <2>3 DEF TInv, CachesFit, CountsFit
<1>6. CASE /\ n # None
           /\ client' = [client EXCEPT ![p][n].cache = Cached(@, call)]
           /\ UNCHANGED netVars /\ UNCHANGED cut
  <2>1. n \in Names
    BY <1>6 DEF IInv, Shape
  <2>2. Cached(client[p][n].cache, call) \in Seq(SoundCalls)
    BY <1>3, <2>1 DEF Cached, TInv, CachesFit
  <2>3. \A r \in Procs, m \in Names :
          client'[r][m].cache = IF r = p /\ m = n THEN Cached(client[p][n].cache, call)
                                                  ELSE client[r][m].cache
    <3>1. client[p][n] \in Plain
      BY <2>1 DEF IInv, Shape
    <3> QED
      BY <1>6, <2>1, <3>1 DEF IInv, Shape, Plain
  <2>4. CachesFit'
    BY <2>2, <2>3 DEF TInv, CachesFit
  <2> QED
    BY <1>2, <1>4, <1>6, <2>4 DEF TInv, netVars, QueuesFit, CountsFit
<1>7. CASE /\ n = None /\ UNCHANGED queue
           /\ client' = [client EXCEPT ![p][q] =
                           [live |-> TRUE, handler |-> None, cache |-> <<call>>]]
           /\ \/ Connect(p, q) /\ UNCHANGED cut
              \/ Cut(Between(p, q)) /\ UNCHANGED <<conns, standing, stage>>
  <2>1. <<call>> \in Seq(SoundCalls)
    BY <1>3
  <2>2. \A r \in Procs, m \in Names :
          client'[r][m].cache = IF r = p /\ m = q THEN <<call>> ELSE client[r][m].cache
    BY <1>7 DEF IInv, Shape, Names
  <2>3. CachesFit'
    BY <2>1, <2>2 DEF TInv, CachesFit
  <2>4. cut' \in [Links -> 0..MaxSaid \cup {None}]
    BY <1>7, CutFits DEF TInv, CountsFit
  <2>5. standing' \subseteq 1..Len(conns') /\ 1..Len(conns) \subseteq 1..Len(conns')
    <3>1. CASE Connect(p, q)
      BY <3>1, ConnectFits
    <3> QED
      BY <1>7, <3>1 DEF TInv
  <2>6. QueuesFit'
    BY <1>7, <2>5 DEF TInv, QueuesFit
  <2> QED
    BY <1>2, <1>4, <1>7, <2>3, <2>4, <2>5, <2>6 DEF TInv, CountsFit
<1> QED
  BY <1>5, <1>6, <1>7 DEF CallEntity, netVars

LEMMA ConnectDbTypes ==
  ASSUME IInv, TInv, NEW p \in Procs, NEW d \in Procs, ConnectDb(p, d)
  PROVE  TInv'
<1>1. cut' \in [Links -> 0..MaxSaid \cup {None}]
  BY CutFits DEF TInv, CountsFit, ConnectDb
<1>2. standing' \subseteq 1..Len(conns') /\ 1..Len(conns) \subseteq 1..Len(conns')
  BY ConnectFits DEF ConnectDb
<1> QED
  BY <1>1, <1>2 DEF ConnectDb, TInv, QueuesFit, CachesFit, CountsFit, mapVars

LEMMA DbOptTypes ==
  ASSUME IInv, TInv, NEW p \in Procs, NEW d \in Procs, NEW t \in Tables, DbOpt(p, d, t)
  PROVE  TInv'
<1> DEFINE link == <<p, d, t>>
<1> SUFFICES ASSUME NEW packet, packet = [what |-> "add_executor", about |-> t, no |-> Number(link)],
                    NEW h, h = client[p][byProcess[p][d]].handler
             PROVE  TInv'
  OBVIOUS
<1>1. link \in Links
  BY DEF Links
<1>2. Number(link) \in 1..MaxSaid /\ said' \in [Links -> 0..MaxSaid]
  BY <1>1, RequestFits DEF DbOpt, TInv, CountsFit
<1>3. packet \in Sound
  <2>1. Number(link) \in 0..MaxSaid /\ Number(link) > 0
    BY <1>2, BoundsAssumption
  <2>2. packet \in Message
    BY <2>1 DEF Message
  <2> QED
    BY <2>1, <2>2 DEF Sound
<1>4. h \in Ends
  BY DEF DbOpt, IInv, Shape, EntriesLead, LedBy
<1>5. queue' = Posted(queue, h, <<packet>>) /\ <<packet>> \in Seq(Sound)
  BY <1>3 DEF DbOpt
<1>6. QueuesFit'
  <2>1. conns' = conns
    BY DEF DbOpt
  <2> QED
    BY <1>4, <1>5, <2>1, PostedFits DEF QueuesFit
<1> QED
  BY <1>2, <1>6 DEF DbOpt, TInv, CachesFit, CountsFit, mapVars

LEMMA NullSocketTypes == ASSUME IInv, TInv, NEW e \in Ends, NullSocket(e) PROVE TInv'
<1>1. Owner(e) \in Procs
  BY SeenOwners DEF NullSocket
<1>2. cut' \in [Links -> 0..MaxSaid \cup {None}]
  BY CutFits DEF NullSocket, TInv, CountsFit
<1> QED
  BY <1>1, <1>2 DEF NullSocket, TInv, QueuesFit, CachesFit, CountsFit, netVars, mapVars

LEMMA HandleInitTypes == ASSUME IInv, TInv, NEW e \in Ends, HandleInit(e) PROVE TInv'
<1> SUFFICES ASSUME NEW p, p = Owner(e), NEW n, n = WaitingFor(e) PROVE TInv'
  OBVIOUS
<1>1. p \in Procs /\ n \in Names
  BY SeenOwners, TakenOver DEF HandleInit
<1>2. client[p][n].cache \in Seq(SoundCalls) /\ SoundCalls \subseteq Sound
  BY <1>1 DEF TInv, CachesFit, SoundCalls
<1>3. Append(client[p][n].cache, Register) \in Seq(Sound)
  <2>1. client[p][n].cache \in Seq(Sound)
    BY <1>2, SeqMonotonic
  <2>2. Register \in Sound
    BY BoundsAssumption DEF Register, Sound, Message
  <2> QED
    BY <2>1, <2>2
<1>4. QueuesFit'
  BY <1>3, PostedFits DEF HandleInit, QueuesFit
<1>5. CachesFit'
  <2>1. \A r \in Procs, m \in Names :
          client'[r][m].cache = IF r = p /\ m = n THEN <<>> ELSE client[r][m].cache
    BY <1>1 DEF HandleInit, IInv, Shape
  <2>2. <<>> \in Seq(SoundCalls)
    OBVIOUS
  <2> QED
    BY <2>1, <2>2 DEF TInv, CachesFit
<1> QED
  BY <1>4, <1>5 DEF HandleInit, TInv, CountsFit, history

LEMMA RegisterTypes == ASSUME IInv, TInv, NEW e \in Ends, RegisterServer(e) PROVE TInv'
<1>1. QueuesFit'
  BY ReceivesFits DEF RegisterServer
<1> QED
  BY <1>1 DEF RegisterServer, Receives, TInv, CachesFit, CountsFit

LEMMA HearTypes == ASSUME IInv, TInv, NEW e \in Ends, HearCall(e) PROVE TInv'
<1> DEFINE l == <<Peer(e), Owner(e), "entity">>
           n == Head(queue[e]).no
<1>1. /\ QueuesFit' /\ Head(queue[e]) \in Sound /\ Head(queue[e]).what = "entity"
      /\ Owner(e) \in Procs /\ Peer(e) \in Procs
  BY ReceivesFits DEF HearCall
<1>2. l \in Links /\ n \in 1..MaxSaid
  BY <1>1, BoundsAssumption DEF Links, Sound, Message
<1>3. heard' \in [Links -> Seq(1..MaxSaid)]
  <2>1. heard \in [Links -> Seq(1..MaxSaid)]
    BY DEF TInv, CountsFit
  <2>2. Append(heard[l], n) \in Seq(1..MaxSaid)
    BY <1>2, <2>1
  <2>3. heard' = IF InTime(l, n) THEN [heard EXCEPT ![l] = Append(heard[l], n)] ELSE heard
    BY DEF HearCall
  <2> HIDE DEF l, n
  <2> QED
    BY <1>2, <2>1, <2>2, <2>3
<1> QED
  BY <1>1, <1>3 DEF HearCall, Receives, TInv, CachesFit, CountsFit, mapVars

LEMMA AddExecutorTypes == ASSUME IInv, TInv, NEW e \in Ends, AddExecutor(e) PROVE TInv'
<1> DEFINE d == Owner(e)
           t == Head(queue[e]).about
           r == [from |-> e, no |-> Head(queue[e]).no]
<1>1. /\ QueuesFit' /\ Head(queue[e]) \in Sound /\ Head(queue[e]).what = "add_executor"
      /\ d \in Procs
  BY ReceivesFits DEF AddExecutor
<1>2. t \in Tables /\ r \in Request
  BY <1>1, BoundsAssumption DEF Sound, Message, Request
<1>3. executors' = [executors EXCEPT ![d][t] = Append(executors[d][t], r)]
  BY DEF AddExecutor
<1> HIDE DEF d, t, r
<1>4. Append(executors[d][t], r) \in Seq(Request)
  BY <1>1, <1>2 DEF TInv
<1>5. executors' \in [Procs -> [Tables -> Seq(Request)]]
  BY <1>1, <1>2, <1>3, <1>4 DEF TInv
<1> QED
  BY <1>1, <1>5 DEF AddExecutor, Receives, TInv, CachesFit, CountsFit, mapVars

LEMMA OnOptDbTypes == ASSUME IInv, TInv, NEW e \in Ends, OnOptDb(e) PROVE TInv'
<1>1. /\ QueuesFit' /\ Head(queue[e]) \in Sound /\ Head(queue[e]).what = "answer"
  BY ReceivesFits DEF OnOptDb
<1>2. Head(queue[e]).no \in 1..MaxSaid
  BY <1>1, BoundsAssumption DEF Sound, Message
<1>3. answered' \in [Links -> SUBSET (1..MaxSaid)]
  BY <1>2 DEF OnOptDb, TInv, CountsFit
<1> QED
  BY <1>1, <1>3 DEF OnOptDb, Receives, TInv, CachesFit, CountsFit, mapVars

LEMMA CloseTypes == ASSUME IInv, TInv, NEW e \in Ends, HandleClose(e) PROVE TInv'
<1> SUFFICES ASSUME NEW p, p = Owner(e), NEW n, n = bySocket[e] PROVE TInv'
  OBVIOUS
<1>1. client' = [client EXCEPT ![p][n] = Gone] /\ UNCHANGED <<kind, down, conns, standing, queue, executors, history>>
  BY DEF HandleClose
<1>2. p \in Procs /\ n \in Names
  BY SeenOwners DEF HandleClose, IInv, OpenEndsHaveClients, Shape
<1>3. CachesFit'
  <2>1. \A r \in Procs, m \in Names :
          client'[r][m].cache = IF r = p /\ m = n THEN <<>> ELSE client[r][m].cache
    BY <1>1, <1>2 DEF Gone, IInv, Shape
  <2>2. <<>> \in Seq(SoundCalls)
    OBVIOUS
  <2> QED
    BY <2>1, <2>2 DEF TInv, CachesFit
<1> QED
  BY <1>1, <1>3 DEF TInv, QueuesFit, CountsFit, history

LEMMA UpdateTypes == ASSUME IInv, TInv, NEW d \in Procs, Update(d) PROVE TInv'
<1>1. QueuesFit'
  <2> SUFFICES ASSUME NEW e \in Ends
               PROVE  queue'[e] \in Seq(Sound) /\ (queue'[e] # <<>> => e[1] \in 1..Len(conns))
    BY DEF Update, QueuesFit
  <2>1. queue'[e] = IF e[1] \in standing /\ Peer(e) = d
                    THEN queue[e] \o AnswersOver(d, Other(e)) ELSE queue[e]
    BY DEF Update
  <2>2. queue[e] \in Seq(Sound) /\ (queue[e] # <<>> => e[1] \in 1..Len(conns))
        /\ standing \subseteq 1..Len(conns)
    BY DEF TInv, QueuesFit
  <2>3. AnswersOver(d, Other(e)) \in Seq(Sound)
    <3>1. AnswersOver(d, Other(e)) \in Seq({m \in Sound : m.what = "answer"})
      BY AnswersType
    <3> QED
      BY <3>1, SeqMonotonic
  <2>4. CASE e[1] \in standing /\ Peer(e) = d
    <3>1. queue[e] \o AnswersOver(d, Other(e)) \in Seq(Sound)
      BY <2>2, <2>3
    <3> QED
      BY <2>1, <2>2, <2>4, <3>1
  <2>5. CASE ~(e[1] \in standing /\ Peer(e) = d)
    BY <2>1, <2>2, <2>5
  <2> QED
    BY <2>4, <2>5
<1>2. heard' \in [Links -> Seq(1..MaxSaid)]
  <2>1. \A l \in Links : heard'[l] = IF l[2] = d /\ l[3] \in Tables THEN heard[l] \o Done(l) ELSE heard[l]
    BY DEF Update
  <2>2. ASSUME NEW l \in Links, l[3] \in Tables PROVE Done(l) \in Seq(1..MaxSaid)
    <3>1. executors[l[2]][l[3]] \in Seq(Request)
      BY <2>2 DEF TInv, Links
    <3> QED
      BY <3>1, NumbersType DEF Done
  <2>3. \A l \in Links : heard[l] \in Seq(1..MaxSaid)
    BY DEF TInv, CountsFit
  <2>4. ASSUME NEW l \in Links PROVE heard'[l] \in Seq(1..MaxSaid)
    <3>1. CASE l[2] = d /\ l[3] \in Tables
      <4>1. heard'[l] = heard[l] \o Done(l)
        BY <2>1, <3>1
      <4> QED
        BY <2>2, <2>3, <3>1, <4>1
    <3>2. CASE ~(l[2] = d /\ l[3] \in Tables)
      BY <2>1, <2>3, <3>2
    <3> QED
      BY <3>1, <3>2
  <2>5. heard' = [l \in Links |-> heard'[l]]
    BY DEF Update
  <2> QED
    BY <2>4, <2>5
<1>3. executors' \in [Procs -> [Tables -> Seq(Request)]]
  <2>1. [t \in Tables |-> <<>>] \in [Tables -> Seq(Request)]
    OBVIOUS
  <2> QED
    BY <2>1 DEF Update, TInv
<1> QED
  BY <1>1, <1>2, <1>3 DEF Update, TInv, CachesFit, CountsFit, mapVars

(* A prefix stays in both queues of a connection that breaks.              *)
LEMMA PrefixesStay ==
  ASSUME TInv, NEW c \in 1..MaxConns, Break(c)
  PROVE  /\ QueuesFit'
         /\ \A e \in Ends : \E n \in 0..Len(queue[e]) :
              /\ queue'[e] = SubSeq(queue[e], 1, n)
              /\ Len(queue'[e]) = n
              /\ \A i \in 1..n : i \in 1..Len(queue[e]) /\ queue'[e][i] = queue[e][i]
<1> DEFINE d == <<c, "dialer">>
           a == <<c, "acceptor">>
<1>1. d \in Ends /\ a \in Ends /\ d # a
  BY DEF Ends, Sides
<1>2. PICK n \in 0..Len(queue[d]), m \in 0..Len(queue[a]) :
        queue' = [queue EXCEPT ![d] = SubSeq(queue[d], 1, n), ![a] = SubSeq(queue[a], 1, m)]
  BY <1>1 DEF Break, TInv, QueuesFit
<1>3. \A e \in Ends : queue[e] \in Seq(Sound)
  BY DEF TInv, QueuesFit
<1> HIDE DEF d, a
<1>4. ASSUME NEW e \in Ends
      PROVE  \E k \in 0..Len(queue[e]) : queue'[e] = SubSeq(queue[e], 1, k)
  <2>1. CASE e = d
    BY <1>1, <1>2, <2>1 DEF TInv, QueuesFit
  <2>2. CASE e = a
    BY <1>1, <1>2, <2>2 DEF TInv, QueuesFit
  <2>3. CASE e # d /\ e # a
    <3>1. queue'[e] = queue[e]
      BY <1>2, <2>3 DEF TInv, QueuesFit
    <3>2. queue[e] = SubSeq(queue[e], 1, Len(queue[e])) /\ Len(queue[e]) \in 0..Len(queue[e])
      <4>1. queue[e] \in Seq(Sound)
        BY <1>3
      <4>2. Len(queue[e]) \in Nat
        BY <4>1
      <4>3. queue[e] = SubSeq(queue[e], 1, Len(queue[e]))
        BY <4>1, SubSeqFull
      <4> QED
        BY <4>2, <4>3
    <3> QED
      BY <3>1, <3>2
  <2> QED
    BY <2>1, <2>2, <2>3
<1>5. ASSUME NEW e \in Ends, NEW k \in 0..Len(queue[e]), queue'[e] = SubSeq(queue[e], 1, k)
      PROVE  /\ Len(queue'[e]) = k /\ queue'[e] \in Seq(Sound)
             /\ \A i \in 1..k : i \in 1..Len(queue[e]) /\ queue'[e][i] = queue[e][i]
  <2>1. queue[e] \in Seq(Sound)
    BY <1>3
  <2> QED
    BY <1>5, <2>1
<1>6. \A e \in Ends : queue'[e] \in Seq(Sound) /\ (queue'[e] # <<>> => queue[e] # <<>>)
  <2> SUFFICES ASSUME NEW e \in Ends
               PROVE  queue'[e] \in Seq(Sound) /\ (queue'[e] # <<>> => queue[e] # <<>>)
    OBVIOUS
  <2>1. PICK k \in 0..Len(queue[e]) : queue'[e] = SubSeq(queue[e], 1, k)
    BY <1>4
  <2>2. Len(queue'[e]) = k /\ queue'[e] \in Seq(Sound)
    BY <1>5, <2>1
  <2>3. queue[e] = <<>> => Len(queue[e]) = 0
    OBVIOUS
  <2>4. queue'[e] # <<>> => Len(queue'[e]) # 0
    BY <2>2, EmptySeq
  <2> QED
    BY <2>2, <2>3, <2>4
<1>7. QueuesFit'
  <2>1. queue' = [e \in Ends |-> queue'[e]]
    BY <1>2 DEF TInv, QueuesFit
  <2>2. conns' = conns
    BY DEF Break
  <2> QED
    BY <1>6, <2>1, <2>2 DEF TInv, QueuesFit
<1> QED
  BY <1>4, <1>5, <1>7

LEMMA BreakTypes == ASSUME IInv, TInv, NEW c \in 1..MaxConns, Break(c) PROVE TInv'
<1>1. cut' \in [Links -> 0..MaxSaid \cup {None}]
  BY CutFits DEF Break, TInv, CountsFit
<1>2. QueuesFit'
  BY PrefixesStay
<1> QED
  BY <1>1, <1>2 DEF Break, TInv, CachesFit, CountsFit, mapVars

(* Every step keeps the types.                                             *)
LEMMA NextTypes == ASSUME IInv, TInv, [Next]_vars PROVE TInv'
<1>1. CASE UNCHANGED vars
  BY <1>1 DEF vars, netVars, mapVars, history, TInv, QueuesFit, CachesFit, CountsFit
<1> QED
  BY <1>1, CallEntityTypes, ConnectDbTypes, DbOptTypes, HandleInitTypes, RegisterTypes, HearTypes,
     AddExecutorTypes, OnOptDbTypes, CloseTypes, NullSocketTypes, UpdateTypes, BreakTypes
  DEF Next, Serve, HandlePacket

(* The variables keep their types: every message in a queue of             *)
(* socket_base::m_packets or in a cache of rpc_client is one that          *)
(* rpc_client or executor_manager wrote, with a number that its link has   *)
(* given out, and every request of an executor has the end it came over.   *)
THEOREM TypeCorrect == Spec => []TypeOK
<1>1. Init => IInv /\ TInv
  BY InitInv, StartTypes
<1>2. IInv /\ TInv /\ [Next]_vars => (IInv /\ TInv)'
  BY NextInv, NextTypes
<1>3. IInv /\ TInv => TypeOK
  BY TypesFollow
<1> QED
  BY <1>1, <1>2, <1>3, PTL DEF Spec

-----------------------------------------------------------------------------
(* A link is cut where it is, and stays cut there.                         *)
CutsKeep ==
  \A l \in Links : /\ cut[l] # None => cut'[l] = cut[l]
                   /\ cut[l] = None /\ cut'[l] # None => cut'[l] = said[l]
(* A link is cut once, at the number it had then.                          *)
LEMMA CutsStay ==
  ASSUME TInv, NEW links, Cut(links)
  PROVE  CutsKeep /\ \A l \in Links : l \in links => cut'[l] # None
<1>1. \A l \in Links : said[l] \in Int
  BY BoundsAssumption DEF TInv, CountsFit
<1>2. \A l \in Links : said[l] # None
  BY <1>1, NamesAssumption
<1>3. \A l \in Links : cut'[l] = IF l \in links /\ cut[l] = None THEN said[l] ELSE cut[l]
  BY DEF Cut
<1> QED
  BY <1>2, <1>3 DEF CutsKeep

LEMMA CutsSame == UNCHANGED cut => CutsKeep
  BY DEF CutsKeep

(* The ends of a connection are at the ends of a link of its processes.    *)
LEMMA EndsOfLink ==
  ASSUME Shape, NEW e \in Ends, e[1] \in 1..Len(conns)
  PROVE  /\ \/ Owner(e) = conns[e[1]].dialer /\ Peer(e) = conns[e[1]].acceptor /\ e[2] = "dialer"
            \/ Owner(e) = conns[e[1]].acceptor /\ Peer(e) = conns[e[1]].dialer /\ e[2] = "acceptor"
         /\ conns[e[1]].dialer \in Procs /\ conns[e[1]].acceptor \in Procs
         /\ Other(Other(e)) = e /\ Owner(Other(e)) = Peer(e) /\ Peer(Other(e)) = Owner(e)
<1>1. conns[e[1]] \in [dialer: Procs, acceptor: Procs]
  <2>1. conns \in Seq([dialer: Procs, acceptor: Procs])
    BY DEF Shape
  <2> QED
    BY <2>1, ElementOfSeq
<1>2. e[2] \in {"dialer", "acceptor"} /\ e = <<e[1], e[2]>>
  BY DEF Ends, Sides
<1>3. Other(e) = <<e[1], IF e[2] = "dialer" THEN "acceptor" ELSE "dialer">>
  BY DEF Other
<1>4. Other(Other(e)) = e
  BY <1>2, <1>3 DEF Other
<1>5. CASE e[2] = "dialer"
  BY <1>1, <1>3, <1>4, <1>5 DEF Owner, Peer
<1>6. CASE e[2] = "acceptor"
  BY <1>1, <1>3, <1>4, <1>6 DEF Owner, Peer
<1> QED
  BY <1>2, <1>5, <1>6

(* The links of an end whose connection broke are cut.                     *)
LEMMA EndIsCut ==
  ASSUME Shape, BrokenAreCut, NEW e \in Ends, e[1] \in 1..Len(conns), e[1] \notin standing,
         NEW l \in Links, {l[1], l[2]} = {Owner(e), Peer(e)}
  PROVE  cut[l] # None
<1>1. {Owner(e), Peer(e)} = {conns[e[1]].dialer, conns[e[1]].acceptor}
  BY EndsOfLink
<1>2. l \in Between(conns[e[1]].dialer, conns[e[1]].acceptor)
  BY <1>1 DEF Between
<1> QED
  BY <1>2 DEF BrokenAreCut

-----------------------------------------------------------------------------
(* What keeps the connections keeps what stands.                           *)
LEMMA StandFrame ==
  ASSUME BrokenAreCut, GamesDial, RequestsAreTogether, Shape, CutsKeep, UNCHANGED <<kind, conns, standing>>
  PROVE  (BrokenAreCut /\ GamesDial /\ RequestsAreTogether)'
<1>1. BrokenAreCut'
  BY DEF BrokenAreCut, CutsKeep, Between
<1>2. GamesDial'
  BY DEF GamesDial
<1>3. RequestsAreTogether'
  <2>1. \A p \in Procs, q \in Procs, t \in Tables : <<p, q, t>> \in Links
    BY DEF Links
  <2> QED
    BY <2>1 DEF RequestsAreTogether, CutsKeep, Joins
<1> QED
  BY <1>1, <1>2, <1>3

(* A connect to a db_manager that has a connection already cuts the links  *)
(* between the two.                                                        *)
LEMMA ConnectStands ==
  ASSUME IInv, TInv, SInv, NEW p \in Procs, NEW q \in Procs, Connect(p, q), kind[p] = "game",
         CutsKeep, UNCHANGED kind,
         kind[q] = "db" /\ (\E c \in Made : conns[c] = [dialer |-> p, acceptor |-> q]) =>
           \A l \in Between(p, q) : cut'[l] # None
  PROVE  (BrokenAreCut /\ GamesDial /\ RequestsAreTogether)'
<1> DEFINE x == [dialer |-> p, acceptor |-> q]
<1>1. PICK n \in Nat : n = Len(conns) /\ n + 1 <= MaxConns
  BY DEF IInv, Shape, Connect
<1>2. /\ Len(conns') = n + 1 /\ conns'[n + 1] = x
      /\ \A c \in 1..n : conns'[c] = conns[c]
  <2>1. conns \in Seq([dialer: Procs, acceptor: Procs])
    BY DEF IInv, Shape
  <2>2. conns' = Append(conns, x)
    BY DEF Connect
  <2>3. x \in [dialer: Procs, acceptor: Procs]
    OBVIOUS
  <2> HIDE DEF x
  <2> QED
    BY <1>1, <2>1, <2>2, <2>3, AppendProperties
<1>3. \A c \in 1..n+1 : c \in 1..n \/ c = n + 1
  BY <1>1
<1>4. standing' = standing \cup {n + 1}
  BY <1>1 DEF Connect
<1>5. BrokenAreCut'
  <2> SUFFICES ASSUME NEW c \in 1..n+1, c \notin standing',
                      NEW l \in Between(conns'[c].dialer, conns'[c].acceptor)
               PROVE  cut'[l] # None
    BY <1>2 DEF BrokenAreCut, Between
  <2>1. c \in 1..n /\ c \notin standing /\ conns'[c] = conns[c]
    BY <1>2, <1>3, <1>4
  <2>2. cut[l] # None /\ l \in Links
    BY <1>1, <2>1 DEF SInv, BrokenAreCut, Between
  <2> QED
    BY <2>2 DEF CutsKeep
<1>6. GamesDial'
  BY <1>1, <1>2, <1>3 DEF SInv, GamesDial
<1>7. RequestsAreTogether'
  <2> SUFFICES ASSUME NEW r \in Procs, NEW s \in Procs, NEW t \in Tables,
                      kind[s] = "db", cut'[<<r, s, t>>] = None,
                      NEW c \in 1..n+1, NEW d \in 1..n+1,
                      Joins(c, r, s)', Joins(d, r, s)'
               PROVE  c = d
    BY <1>2 DEF RequestsAreTogether
  <2>1. <<r, s, t>> \in Links /\ cut[<<r, s, t>>] = None
    BY DEF Links, CutsKeep
  <2>2. ASSUME NEW a \in 1..n, Joins(a, r, s)', r = p, s = q PROVE FALSE
    <3>1. conns[a].dialer = p /\ conns[a].acceptor = q
      BY <1>2, <2>2 DEF Joins
    <3>2. conns[a] \in [dialer: Procs, acceptor: Procs]
      <4>1. conns \in Seq([dialer: Procs, acceptor: Procs])
        BY DEF IInv, Shape
      <4> QED
        BY <1>1, <4>1, ElementOfSeq
    <3>3. conns[a] = x
      <4>1. ASSUME NEW r1 \in [dialer: Procs, acceptor: Procs], r1.dialer = p, r1.acceptor = q
            PROVE  r1 = [dialer |-> p, acceptor |-> q]
        BY <4>1
      <4> QED
        BY <3>1, <3>2, <4>1
    <3>4. a \in Made
      <4>1. MaxConns \in Nat
        BY NamesAssumption
      <4>2. a \in 1..MaxConns /\ a <= n
        BY <1>1, <4>1
      <4> QED
        BY <1>1, <4>2 DEF Made
    <3>5. <<r, s, t>> \in Between(p, q)
      BY <2>1, <2>2 DEF Between
    <3> QED
      BY <2>2, <3>3, <3>4, <3>5
  <2>3. \A a \in 1..n+1 : Joins(a, r, s)' => (a = n + 1 => r = p /\ s = q) /\ (a # n + 1 => a \in 1..n)
    BY <1>2, <1>3 DEF Joins
  <2>4. CASE c \in 1..n /\ d \in 1..n
    <3>1. Joins(c, r, s) /\ Joins(d, r, s)
      BY <1>2, <2>4 DEF Joins
    <3> QED
      BY <1>1, <2>1, <2>4, <3>1 DEF SInv, RequestsAreTogether
  <2> QED
    BY <1>3, <2>2, <2>3, <2>4
<1> QED
  BY <1>5, <1>6, <1>7

(* A packet is queued at the other end of a connection that stands, and    *)
(* lost otherwise.                                                         *)
LEMMA PostedQueues ==
  ASSUME TInv, NEW e \in Ends, NEW packets, NEW f \in Ends
  PROVE  Posted(queue, e, packets)[f] =
           IF e[1] \in standing /\ f = Other(e) THEN queue[f] \o packets ELSE queue[f]
  BY EndFacts DEF TInv, QueuesFit, Posted

(* A connection is made, or none: what was seen stays.                     *)
LEMMA SeenStay ==
  ASSUME IInv, NEW p \in Procs, NEW q \in Procs,
         Connect(p, q) \/ UNCHANGED <<conns, standing, stage>>
  PROVE  \A e \in Ends :
           /\ stage[e] # "none" => /\ stage'[e] = stage[e] /\ Owner(e)' = Owner(e) /\ Peer(e)' = Peer(e)
                                   /\ e[1] \notin standing => e[1] \notin standing'
           /\ stage[e] = "none" => stage'[e] \in {"none", "new"}
<1>1. \A e \in Ends : /\ stage[e] # "none" => stage'[e] = stage[e] /\ Owner(e)' = Owner(e) /\ Peer(e)' = Peer(e)
                      /\ stage[e] = "none" => stage'[e] \in {"none", "new"}
  BY Growth
<1>2. ASSUME NEW e \in Ends, stage[e] # "none", e[1] \notin standing PROVE e[1] \notin standing'
  <2>1. e[1] \in 1..Len(conns)
    BY <1>2 DEF IInv, EndsAreMade
  <2>2. CASE Connect(p, q)
    <3>1. standing' = standing \cup {Len(conns) + 1} /\ Len(conns) \in Nat
      BY <2>2 DEF Connect, IInv, Shape
    <3>2. e[1] # Len(conns) + 1
      BY <2>1, <3>1
    <3> QED
      BY <1>2, <3>1, <3>2
  <2> QED
    BY <1>2, <2>2
<1> QED
  BY <1>1, <1>2

(* Ends that were seen stay seen, so executors still fit.                  *)
LEMMA FitFrame ==
  ASSUME IInv, TInv, SInv, UNCHANGED executors,
         \A e \in Ends : stage[e] \in {"open", "closed"} =>
           stage'[e] \in {"open", "closed"} /\ Owner(e)' = Owner(e)
  PROVE  ExecutorsFit'
<1>1. ASSUME NEW d \in Procs, NEW t \in Tables, NEW i \in 1..Len(executors[d][t])
      PROVE  executors[d][t][i].from \in Ends
  <2>1. executors[d][t] \in Seq(Request)
    BY DEF TInv
  <2>2. executors[d][t][i] \in Request
    BY <2>1, ElementOfSeq
  <2> QED
    BY <2>2 DEF Request
<1> SUFFICES ASSUME NEW d \in Procs, NEW t \in Tables, NEW i \in 1..Len(executors'[d][t]),
                    NEW e, e = executors'[d][t][i].from
             PROVE  stage'[e] \in {"open", "closed"} /\ Owner(e)' = d
  BY DEF ExecutorsFit, Owner
<1>2. e \in Ends /\ stage[e] \in {"open", "closed"} /\ Owner(e) = d
  BY <1>1 DEF SInv, ExecutorsFit
<1> QED
  BY <1>2

(* What stands, action by action.                                          *)
LEMMA CallEntityStands ==
  ASSUME IInv, TInv, SInv, NEW p \in Procs, NEW q \in Procs, CallEntity(p, q)
  PROVE  SInv'
<1> DEFINE link == <<p, q, "entity">>
<1> SUFFICES ASSUME NEW call, call = [what |-> "entity", about |-> "entity", no |-> Number(link)],
                    NEW n, n = byAddress[p][q]
             PROVE  SInv'
  OBVIOUS
<1>1. kind[p] = "game" /\ kind[q] = "game" /\ UNCHANGED <<kind, executors, bySocket>>
  BY DEF CallEntity
<1>2. Connect(p, q) \/ UNCHANGED <<conns, standing, stage>>
  BY DEF CallEntity, netVars
<1>3. CutsKeep
  BY CutsStay, CutsSame DEF CallEntity
<1>4. (BrokenAreCut /\ GamesDial /\ RequestsAreTogether)'
  <2>1. CASE Connect(p, q)
    BY <1>1, <1>3, <2>1, ConnectStands
  <2>2. CASE UNCHANGED <<conns, standing, stage>>
    BY <1>1, <1>3, <2>2, StandFrame DEF SInv, IInv
  <2> QED
    BY <1>2, <2>1, <2>2
<1>5. \A e \in Ends :
        /\ stage[e] # "none" => /\ stage'[e] = stage[e] /\ Owner(e)' = Owner(e) /\ Peer(e)' = Peer(e)
                                /\ e[1] \notin standing => e[1] \notin standing'
        /\ stage[e] = "none" => stage'[e] \in {"none", "new"}
  BY <1>2, SeenStay
<1>6. ExecutorsFit'
  BY <1>1, <1>5, FitFrame
<1>7. None \notin Names /\ None \notin Ends /\ q \in Names
  BY NamesAssumption DEF Names
<1>8. \A e \in Ends : e[1] \notin standing => queue'[e] = queue[e]
  <2>1. CASE UNCHANGED queue
    BY <2>1
  <2>2. CASE n # None /\ client[p][n].handler # None
             /\ queue' = Posted(queue, client[p][n].handler, <<call>>)
    <3>1. client[p][n].handler \in Ends
      BY <2>2, HandlerFits DEF IInv, Shape
    <3> QED
      BY <2>2, <3>1, PostedQueues, EndFacts
  <2> QED
    BY <2>1, <2>2 DEF CallEntity, netVars
<1>9. ClosedAreBroken'
  BY <1>5, <1>8 DEF SInv, ClosedAreBroken, IInv, Shape
<1>10. CachesWait'
  <2>1. CASE UNCHANGED <<client, byAddress>>
    BY <2>1 DEF SInv, CachesWait, Waits
  <2>2. CASE /\ n # None /\ client[p][n].handler = None
             /\ client' = [client EXCEPT ![p][n].cache = Cached(@, call)] /\ UNCHANGED byAddress
    <3>1. n \in Names /\ n = q /\ Waits(p, q)
      BY <1>7, <2>2 DEF IInv, Shape, EntriesLead, LedBy, Waits
    <3>2. \A r \in Procs, m \in Names :
            /\ client'[r][m].live = client[r][m].live /\ client'[r][m].handler = client[r][m].handler
            /\ ~(r = p /\ m = n) => client'[r][m].cache = client[r][m].cache
      <4>1. client[p][n] \in Plain
        BY <3>1 DEF IInv, Shape
      <4> QED
        BY <2>2, <3>1, <4>1 DEF IInv, Shape, Plain
    <3>3. \A r \in Procs, s \in Procs : Waits(r, s) => Waits(r, s)'
      <4>1. byAddress' = byAddress
        BY <2>2
      <4> QED
        BY <3>2, <4>1 DEF Waits, Names
    <3> QED
      BY <3>1, <3>2, <3>3 DEF SInv, CachesWait
  <2>3. CASE /\ n = None
             /\ client' = [client EXCEPT ![p][q] =
                             [live |-> TRUE, handler |-> None, cache |-> <<call>>]]
             /\ byAddress' = [byAddress EXCEPT ![p][q] = q]
    <3>1. \A r \in Procs, m \in Names :
            client'[r][m] = IF r = p /\ m = q THEN [live |-> TRUE, handler |-> None, cache |-> <<call>>]
                                              ELSE client[r][m]
      BY <1>7, <2>3 DEF IInv, Shape
    <3>2. \A r \in Procs, s \in Procs :
            byAddress'[r][s] = IF r = p /\ s = q THEN q ELSE byAddress[r][s]
      BY <2>3 DEF IInv, Shape
    <3>3. \A r \in Procs, s \in Procs : Waits(r, s) \/ (r = p /\ s = q) => Waits(r, s)'
      BY <3>1, <3>2 DEF Waits, Names
    <3> QED
      BY <3>1, <3>3 DEF SInv, CachesWait
  <2> QED
    BY <2>1, <2>2, <2>3 DEF CallEntity, netVars
<1> QED
  BY <1>4, <1>6, <1>9, <1>10 DEF SInv

LEMMA ConnectDbStands ==
  ASSUME IInv, TInv, SInv, NEW p \in Procs, NEW d \in Procs, ConnectDb(p, d)
  PROVE  SInv'
<1>1. /\ kind[p] = "game" /\ Connect(p, d)
      /\ UNCHANGED <<kind, queue, client, byAddress, executors>>
  BY DEF ConnectDb, mapVars
<1>2. CutsKeep /\ ((\E c \in Made : conns[c] = [dialer |-> p, acceptor |-> d]) =>
                     \A l \in Between(p, d) : cut'[l] # None)
  BY CutsStay DEF ConnectDb, Between
<1>3. (BrokenAreCut /\ GamesDial /\ RequestsAreTogether)'
  BY <1>1, <1>2, ConnectStands
<1>4. \A e \in Ends :
        /\ stage[e] # "none" => /\ stage'[e] = stage[e] /\ Owner(e)' = Owner(e) /\ Peer(e)' = Peer(e)
                                /\ e[1] \notin standing => e[1] \notin standing'
        /\ stage[e] = "none" => stage'[e] \in {"none", "new"}
  BY <1>1, SeenStay
<1>5. ExecutorsFit'
  BY <1>1, <1>4, FitFrame
<1>6. ClosedAreBroken'
  BY <1>1, <1>4 DEF SInv, ClosedAreBroken, IInv, Shape
<1>7. CachesWait'
  BY <1>1 DEF SInv, CachesWait, Waits
<1> QED
  BY <1>3, <1>5, <1>6, <1>7 DEF SInv

(* A step that makes and breaks no connection, takes no handler in or out, *)
(* and puts nothing into the queues of broken ones.                        *)
LEMMA QuietStands ==
  ASSUME IInv, TInv, SInv, UNCHANGED <<kind, conns, standing, stage, client>>, CutsKeep,
         \A e \in Ends : stage[e] = "closed" => queue'[e] = queue[e],
         \A p \in Procs, q \in Procs : Waits(p, q) => byAddress'[p][q] = byAddress[p][q]
  PROVE  (BrokenAreCut /\ GamesDial /\ RequestsAreTogether /\ ClosedAreBroken /\ CachesWait)'
<1>1. (BrokenAreCut /\ GamesDial /\ RequestsAreTogether)'
  BY StandFrame DEF SInv, IInv
<1>2. ClosedAreBroken'
  BY DEF SInv, ClosedAreBroken
<1>3. CachesWait'
  BY DEF SInv, CachesWait, Waits
<1> QED
  BY <1>1, <1>2, <1>3

LEMMA DbOptStands ==
  ASSUME IInv, TInv, SInv, NEW p \in Procs, NEW d \in Procs, NEW t \in Tables, DbOpt(p, d, t)
  PROVE  SInv'
<1> SUFFICES ASSUME NEW h, h = client[p][byProcess[p][d]].handler PROVE SInv'
  OBVIOUS
<1>1. h \in Ends
  BY DEF DbOpt, IInv, Shape, EntriesLead, LedBy
<1>2. \A e \in Ends : stage[e] = "closed" => queue'[e] = queue[e]
  BY <1>1, PostedQueues, EndFacts DEF DbOpt, SInv, ClosedAreBroken
<1>3. UNCHANGED <<kind, conns, standing, stage, client, byAddress, executors>> /\ CutsKeep
  BY CutsSame DEF DbOpt, mapVars
<1>4. ExecutorsFit'
  BY <1>3, OwnersStay, FitFrame
<1> QED
  BY <1>2, <1>3, <1>4, QuietStands DEF SInv

LEMMA NullSocketStands == ASSUME IInv, TInv, SInv, NEW e \in Ends, NullSocket(e) PROVE SInv'
<1>1. UNCHANGED <<kind, conns, standing, stage, client, byAddress, executors, queue>> /\ CutsKeep
  BY CutsStay DEF NullSocket, mapVars, netVars
<1>2. ExecutorsFit'
  BY <1>1, OwnersStay, FitFrame
<1> QED
  BY <1>1, <1>2, QuietStands DEF SInv

LEMMA HandleInitStands == ASSUME IInv, TInv, SInv, NEW e \in Ends, HandleInit(e) PROVE SInv'
<1> SUFFICES ASSUME NEW p, p = Owner(e), NEW n, n = WaitingFor(e) PROVE SInv'
  OBVIOUS
<1>1. p \in Procs /\ n \in Names /\ stage[e] = "new"
  BY SeenOwners, TakenOver DEF HandleInit
<1>2. UNCHANGED <<kind, conns, standing, byAddress, executors>> /\ CutsKeep
  BY CutsSame DEF HandleInit, history
<1>3. \A f \in Ends : stage'[f] = IF f = e THEN "open" ELSE stage[f]
  BY DEF HandleInit, IInv, Shape
<1>4. ExecutorsFit'
  BY <1>2, <1>3, OwnersStay, FitFrame
<1>5. (BrokenAreCut /\ GamesDial /\ RequestsAreTogether)'
  BY <1>2, StandFrame DEF SInv, IInv
<1>6. ClosedAreBroken'
  <2>1. \A f \in Ends : f[1] \notin standing => queue'[f] = queue[f]
    BY PostedQueues, EndFacts DEF HandleInit
  <2> QED
    BY <1>2, <1>3, <2>1 DEF SInv, ClosedAreBroken
<1>7. CachesWait'
  <2>1. \A r \in Procs, m \in Names :
          client'[r][m] = IF r = p /\ m = n THEN [live |-> TRUE, handler |-> e, cache |-> <<>>]
                                            ELSE client[r][m]
    BY <1>1 DEF HandleInit, IInv, Shape
  <2>2. \A r \in Procs, s \in Procs : Waits(r, s) /\ ~(r = p /\ s = n) => Waits(r, s)'
    BY <1>2, <2>1 DEF Waits, Names
  <2> QED
    BY <2>1, <2>2 DEF SInv, CachesWait
<1> QED
  BY <1>4, <1>5, <1>6, <1>7 DEF SInv

(* A packet that is read comes over an end that is open.                   *)
LEMMA ReceivesStands ==
  ASSUME IInv, TInv, SInv, NEW e \in Ends, NEW what, Receives(e, what), UNCHANGED client,
         \A p \in Procs, q \in Procs : Waits(p, q) => byAddress'[p][q] = byAddress[p][q]
  PROVE  (BrokenAreCut /\ GamesDial /\ RequestsAreTogether /\ ClosedAreBroken /\ CachesWait)'
<1>1. UNCHANGED <<kind, conns, standing, stage>> /\ CutsKeep
  BY CutsSame DEF Receives
<1>2. \A f \in Ends : stage[f] = "closed" => queue'[f] = queue[f]
  BY DEF Receives, TInv, QueuesFit
<1> QED
  BY <1>1, <1>2, QuietStands

LEMMA PacketStands ==
  ASSUME IInv, TInv, SInv, NEW e \in Ends, RegisterServer(e) \/ HearCall(e) \/ OnOptDb(e)
  PROVE  SInv'
<1>1. UNCHANGED <<conns, stage, executors, client>>
  BY DEF RegisterServer, HearCall, OnOptDb, Receives, mapVars
<1>2. ExecutorsFit'
  BY <1>1, OwnersStay, FitFrame
<1>3. \A p \in Procs, q \in Procs : Waits(p, q) => byAddress'[p][q] = byAddress[p][q]
  <2>1. CASE UNCHANGED byAddress
    BY <2>1
  <2>2. CASE RegisterServer(e)
    <3>1. Owner(e) \in Procs /\ Peer(e) \in Procs
      BY <2>2, ReceivesFits DEF RegisterServer
    <3>2. \A p \in Procs, q \in Procs : byAddress[p][q] # None => byAddress'[p][q] = byAddress[p][q]
      BY <2>2, <3>1 DEF RegisterServer, IInv, Shape
    <3> QED
      BY <3>2, NamesAssumption DEF Waits, Names
  <2> QED
    BY <2>1, <2>2 DEF HearCall, OnOptDb, mapVars
<1> QED
  BY <1>1, <1>2, <1>3, ReceivesStands DEF SInv, RegisterServer, HearCall, OnOptDb

LEMMA AddExecutorStands == ASSUME IInv, TInv, SInv, NEW e \in Ends, AddExecutor(e) PROVE SInv'
<1> DEFINE d == Owner(e)
           t == Head(queue[e]).about
           r == [from |-> e, no |-> Head(queue[e]).no]
<1>1. d \in Procs /\ t \in Tables /\ stage[e] = "open"
  BY ReceivesFits DEF AddExecutor, Sound
<1>2. UNCHANGED <<conns, stage, client, byAddress>>
      /\ executors' = [executors EXCEPT ![d][t] = Append(executors[d][t], r)]
  BY DEF AddExecutor, Receives, mapVars
<1>3. ExecutorsFit'
  <2> SUFFICES ASSUME NEW c \in Procs, NEW s \in Tables, NEW i \in 1..Len(executors'[c][s])
               PROVE  /\ stage[executors'[c][s][i].from] \in {"open", "closed"}
                      /\ Owner(executors'[c][s][i].from) = c
    <3>1. conns' = conns /\ stage' = stage
      BY <1>2
    <3> HIDE DEF d, t, r
    <3> QED
      BY <3>1 DEF ExecutorsFit, Owner
  <2>1. executors'[c][s] = IF c = d /\ s = t THEN Append(executors[d][t], r) ELSE executors[c][s]
    BY <1>1, <1>2 DEF TInv
  <2>2. r.from = e
    OBVIOUS
  <2>3. executors[c][s] \in Seq(Request)
    BY DEF TInv
  <2> HIDE DEF r, t
  <2>4. CASE c = d /\ s = t
    <3>1. executors'[c][s] = Append(executors[c][s], r)
      BY <2>1, <2>4
    <3>2. CASE i \in 1..Len(executors[c][s])
      <4>1. executors'[c][s][i] = executors[c][s][i]
        BY <2>3, <3>1, <3>2
      <4> QED
        BY <3>2, <4>1 DEF SInv, ExecutorsFit
    <3>3. CASE i \notin 1..Len(executors[c][s])
      <4>1. executors'[c][s][i] = r
        BY <2>3, <3>1, <3>3
      <4> QED
        BY <1>1, <2>2, <2>4, <4>1
    <3> QED
      BY <3>2, <3>3
  <2>5. CASE ~(c = d /\ s = t)
    BY <2>1, <2>5 DEF SInv, ExecutorsFit
  <2> QED
    BY <2>4, <2>5
<1> QED
  BY <1>2, <1>3, ReceivesStands DEF SInv, AddExecutor

LEMMA CloseStands == ASSUME IInv, TInv, SInv, NEW e \in Ends, HandleClose(e) PROVE SInv'
<1> SUFFICES ASSUME NEW p, p = Owner(e), NEW n, n = bySocket[e] PROVE SInv'
  OBVIOUS
<1>1. /\ p \in Procs /\ n \in Names /\ client[p][n].handler = e
      /\ \A q \in Procs, r \in Procs :
           byAddress'[q][r] = IF q = p /\ byAddress[q][r] = n THEN None ELSE byAddress[q][r]
      /\ \A f \in Ends : stage'[f] = IF f = e THEN "closed" ELSE stage[f]
      /\ \A q \in Procs, m \in Names :
           client'[q][m] = IF q = p /\ m = n THEN Gone ELSE client[q][m]
  BY ClosedMaps
<1>2. UNCHANGED <<kind, conns, standing, executors, queue>> /\ CutsKeep
  BY CutsSame DEF HandleClose, history
<1>3. stage[e] = "open" /\ e[1] \notin standing /\ queue[e] = <<>>
  BY DEF HandleClose
<1>4. ExecutorsFit'
  BY <1>1, <1>2, OwnersStay, FitFrame
<1>5. (BrokenAreCut /\ GamesDial /\ RequestsAreTogether)'
  BY <1>2, StandFrame DEF SInv, IInv
<1>6. ClosedAreBroken'
  BY <1>1, <1>2, <1>3 DEF SInv, ClosedAreBroken
<1>7. CachesWait'
  <2>1. \A r \in Procs, s \in Procs : Waits(r, s) => Waits(r, s)'
    BY <1>1, NamesAssumption DEF Waits, Names
  <2>2. Gone.cache = <<>>
    BY DEF Gone
  <2> QED
    BY <1>1, <2>1, <2>2 DEF SInv, CachesWait
<1> QED
  BY <1>4, <1>5, <1>6, <1>7 DEF SInv

LEMMA UpdateStands == ASSUME IInv, TInv, SInv, NEW d \in Procs, Update(d) PROVE SInv'
<1>1. UNCHANGED <<kind, conns, standing, stage, client, byAddress>> /\ CutsKeep
  BY CutsSame DEF Update, mapVars
<1>2. \A e \in Ends : stage[e] = "closed" => queue'[e] = queue[e]
  BY DEF Update, SInv, ClosedAreBroken
<1>3. ExecutorsFit'
  <2> SUFFICES ASSUME NEW c \in Procs, NEW t \in Tables, NEW i \in 1..Len(executors'[c][t])
               PROVE  /\ stage[executors'[c][t][i].from] \in {"open", "closed"}
                      /\ Owner(executors'[c][t][i].from) = c
    <3>1. conns' = conns /\ stage' = stage
      BY <1>1
    <3> QED
      BY <3>1 DEF ExecutorsFit, Owner
  <2>1. executors'[c][t] = IF c = d THEN <<>> ELSE executors[c][t]
    BY DEF Update, TInv
  <2>2. c # d /\ executors'[c][t] = executors[c][t]
    BY <2>1
  <2> QED
    BY <2>2 DEF SInv, ExecutorsFit
<1> QED
  BY <1>1, <1>2, <1>3, QuietStands DEF SInv

LEMMA BreakStands == ASSUME IInv, TInv, SInv, NEW c \in 1..MaxConns, Break(c) PROVE SInv'
<1>1. UNCHANGED <<kind, conns, stage, client, byAddress, executors>>
  BY DEF Break, mapVars
<1>2. CutsKeep /\ \A l \in Between(conns[c].dialer, conns[c].acceptor) : cut'[l] # None
  BY CutsStay DEF Break, Between
<1>3. ExecutorsFit'
  BY <1>1, OwnersStay, FitFrame
<1>4. BrokenAreCut'
  <2>1. standing' = standing \ {c}
    BY DEF Break
  <2> SUFFICES ASSUME NEW b \in 1..Len(conns), b \notin standing',
                      NEW l \in Between(conns[b].dialer, conns[b].acceptor)
               PROVE  cut'[l] # None
    BY <1>1 DEF BrokenAreCut, Between
  <2>2. CASE b = c
    BY <1>2, <2>2
  <2>3. CASE b # c
    <3>1. cut[l] # None /\ l \in Links
      BY <2>1, <2>3 DEF SInv, BrokenAreCut, Between
    <3> QED
      BY <1>2, <3>1 DEF CutsKeep
  <2> QED
    BY <2>2, <2>3
<1>5. (GamesDial /\ RequestsAreTogether)'
  <2>1. \A p \in Procs, q \in Procs, t \in Tables : <<p, q, t>> \in Links
    BY DEF Links
  <2> QED
    BY <1>1, <1>2, <2>1 DEF SInv, GamesDial, RequestsAreTogether, CutsKeep, Joins
<1>6. ClosedAreBroken'
  <2> SUFFICES ASSUME NEW e \in Ends, stage[e] = "closed" PROVE e[1] \notin standing' /\ queue'[e] = <<>>
    BY <1>1 DEF ClosedAreBroken
  <2>1. e[1] \notin standing /\ queue[e] = <<>>
    BY DEF SInv, ClosedAreBroken
  <2>2. PICK n \in 0..Len(queue[e]) : queue'[e] = SubSeq(queue[e], 1, n)
    BY PrefixesStay
  <2>3. n = 0
    BY <2>1, <2>2
  <2>4. SubSeq(<<>>, 1, 0) = <<>>
    OBVIOUS
  <2> QED
    BY <2>1, <2>2, <2>3, <2>4 DEF Break
<1>7. CachesWait'
  BY <1>1 DEF SInv, CachesWait, Waits
<1> QED
  BY <1>3, <1>4, <1>5, <1>6, <1>7 DEF SInv

(* Nothing is broken, closed or kept at the start; every step keeps what   *)
(* stands.                                                                 *)
LEMMA StartStands == Init => SInv
<1> SUFFICES ASSUME Init PROVE SInv
  OBVIOUS
<1>1. BrokenAreCut /\ GamesDial /\ RequestsAreTogether
  BY DEF Init, BrokenAreCut, GamesDial, RequestsAreTogether
<1>2. ClosedAreBroken /\ ExecutorsFit
  BY DEF Init, ClosedAreBroken, ExecutorsFit
<1>3. CachesWait
  BY DEF Init, CachesWait, Gone
<1> QED
  BY <1>1, <1>2, <1>3 DEF SInv

LEMMA NextStands == ASSUME IInv, TInv, SInv, [Next]_vars PROVE SInv'
<1>1. CASE UNCHANGED vars
  <2>1. UNCHANGED <<kind, conns, standing, stage, client, byAddress, executors, queue>> /\ CutsKeep
    BY <1>1, CutsSame DEF vars, netVars, mapVars, history
  <2>2. ExecutorsFit'
    BY <2>1, OwnersStay, FitFrame
  <2> QED
    BY <2>1, <2>2, QuietStands DEF SInv
<1> QED
  BY <1>1, CallEntityStands, ConnectDbStands, DbOptStands, HandleInitStands, PacketStands,
     AddExecutorStands, CloseStands, NullSocketStands, UpdateStands, BreakStands
  DEF Next, Serve, HandlePacket

-----------------------------------------------------------------------------
(* What was in time stays in time.                                         *)
LEMMA TimeStays ==
  ASSUME TInv, CutsKeep, NEW l \in Links, NEW n \in 1..said[l]
  PROVE  InTime(l, n)' <=> InTime(l, n)
<1>1. cut[l] # None => cut'[l] = cut[l]
  BY DEF CutsKeep
<1>2. cut[l] = None /\ cut'[l] # None => cut'[l] = said[l]
  BY DEF CutsKeep
<1>3. n <= said[l]
  OBVIOUS
<1> QED
  BY <1>1, <1>2, <1>3 DEF InTime

(* A step that carries what is on a link: f tells where an item was.  What *)
(* was ahead of an item that is still there is there too.                  *)
Moves(l, f) ==
  /\ \A x \in Items : Rides(l, x)' => f[x] \in Items /\ Rides(l, f[x]) /\ f[x].no = x.no
  /\ \A x \in Items, y \in Items : Rides(l, x)' /\ Rides(l, y)' /\ f[x].place = f[y].place =>
       /\ x.place = y.place /\ (x.pos = y.pos => f[x].pos = f[y].pos)
       /\ (x.pos < y.pos => f[x].pos < f[y].pos)
  /\ \A x \in Items, y \in Items :
       Rides(l, x)' /\ Rides(l, y) /\ InTime(l, y.no) /\ y.place = f[x].place /\ y.pos < f[x].pos =>
         \E z \in Items : Rides(l, z)' /\ f[z] = y
Loses(l, f) == \E y \in Items : Rides(l, y) /\ ~\E z \in Items : Rides(l, z)' /\ f[z] = y

(* A link stays in order when its items move without overtaking, and when  *)
(* what they lose cuts the link.                                           *)
LEMMA Moved ==
  ASSUME TInv, NEW l \in Links, InOrder(l), CutsKeep, heard'[l] = heard[l], said'[l] = said[l],
         NEW f, Moves(l, f), Loses(l, f) => cut'[l] # None
  PROVE  InOrder(l)'
<1> DEFINE S == OnTheWay(l)
           T == {x \in Items : Rides(l, x)' /\ InTime(l, x.no)'}
           k == Len(heard[l])
<1>1. /\ heard[l] = [i \in 1..k |-> i] /\ k <= said[l] /\ (cut[l] # None => cut[l] <= said[l])
      /\ \A x \in Items : Rides(l, x) => x.no \in 1..said[l]
      /\ Tracked(S, k) /\ (cut[l] = None => All(S, k, said[l]))
  BY DEF InOrder
<1>2. k \in Nat /\ said[l] \in Nat
  BY BoundsAssumption DEF TInv, CountsFit
<1>14. /\ \A x \in Items : Rides(l, x)' => f[x] \in Items /\ Rides(l, f[x]) /\ f[x].no = x.no
       /\ \A x \in Items, y \in Items : Rides(l, x)' /\ Rides(l, y)' /\ f[x].place = f[y].place =>
            /\ x.place = y.place /\ (x.pos = y.pos => f[x].pos = f[y].pos)
            /\ (x.pos < y.pos => f[x].pos < f[y].pos)
       /\ \A x \in Items, y \in Items :
            Rides(l, x)' /\ Rides(l, y) /\ InTime(l, y.no) /\ y.place = f[x].place /\ y.pos < f[x].pos =>
              \E z \in Items : Rides(l, z)' /\ f[z] = y
       /\ cut'[l] = None => \A y \in Items : Rides(l, y) => \E z \in Items : Rides(l, z)' /\ f[z] = y
  BY DEF Moves, Loses
<1>3. \A x \in Items : Rides(l, x)' => x.no \in 1..said[l]
  BY <1>1, <1>14
<1>4. \A n \in 1..said[l] : InTime(l, n)' <=> InTime(l, n)
  BY TimeStays
<1>5. /\ \A x \in Items : x \in T <=> Rides(l, x)' /\ InTime(l, x.no)
      /\ \A x \in Items : x \in S <=> Rides(l, x) /\ InTime(l, x.no)
      /\ S \in SUBSET Items /\ T \in SUBSET Items
  BY <1>3, <1>4 DEF OnTheWay
<1>6. OnTheWay(l)' = T
  BY DEF OnTheWay
<1> HIDE DEF S, T, k
<1>7. \A x \in T : f[x] \in S /\ f[x].no = x.no
  BY <1>5, <1>14
<1>8. \A x \in T, y \in T : f[x].place = f[y].place
  BY <1>1, <1>7 DEF Tracked
<1>9. \A x \in T, y \in S : y.pos < f[x].pos => \E z \in T : f[z] = y
  <2> SUFFICES ASSUME NEW x \in T, NEW y \in S, y.pos < f[x].pos PROVE \E z \in T : f[z] = y
    OBVIOUS
  <2>1. y.place = f[x].place
    BY <1>1, <1>7 DEF Tracked
  <2>2. PICK z \in Items : Rides(l, z)' /\ f[z] = y
    BY <1>5, <1>14, <2>1
  <2>3. z.no = y.no /\ InTime(l, y.no)
    BY <1>5, <1>14, <2>2
  <2> QED
    BY <1>5, <2>2, <2>3
<1>10. Follows(T, S, f)
  <2>1. \A x \in T, y \in T : /\ x.place = y.place /\ (x.pos = y.pos => f[x].pos = f[y].pos)
                              /\ (x.pos < y.pos => f[x].pos < f[y].pos)
    BY <1>5, <1>8, <1>14
  <2> QED
    BY <1>7, <1>9, <2>1 DEF Follows
<1>11. Tracked(T, k)
  BY <1>1, <1>2, <1>5, <1>10, Carried
<1>12. ASSUME cut'[l] = None PROVE All(T, k, said[l])
  <2>1. cut[l] = None
    BY <1>12 DEF CutsKeep
  <2>2. \A y \in S : \E z \in T : f[z] = y
    <3> SUFFICES ASSUME NEW y \in S PROVE \E z \in T : f[z] = y
      OBVIOUS
    <3>1. PICK z \in Items : Rides(l, z)' /\ f[z] = y
      BY <1>5, <1>12, <1>14
    <3>2. z.no = y.no
      BY <1>14, <3>1
    <3> QED
      BY <1>5, <3>1, <3>2
  <2>3. \A n : All(S, k, n) => All(T, k, n)
    BY <1>1, <1>2, <1>5, <1>10, <2>2, Carried
  <2> QED
    BY <1>1, <2>1, <2>3
<1>13. cut'[l] # None => cut'[l] <= said[l]
  BY <1>1, <1>2 DEF CutsKeep
<1> QED
  BY <1>1, <1>3, <1>6, <1>11, <1>12, <1>13 DEF InOrder, k

(* A link whose items stay is in order.                                    *)
LEMMA Unmoved ==
  ASSUME TInv, NEW l \in Links, InOrder(l), CutsKeep, heard'[l] = heard[l], said'[l] = said[l],
         \A x \in Items : Rides(l, x)' <=> Rides(l, x)
  PROVE  InOrder(l)'
<1> DEFINE f == [x \in Items |-> x]
<1>1. \A x \in Items : f[x] = x
  OBVIOUS
<1> HIDE DEF f
<1>2. Moves(l, f) /\ ~Loses(l, f)
  BY <1>1 DEF Moves, Loses
<1> QED
  BY <1>2, Moved

(* A step that says the next number on a link.                             *)
LEMMA SaidMore ==
  ASSUME TInv, NEW l \in Links, InOrder(l), CutsKeep, heard'[l] = heard[l], said'[l] = said[l] + 1,
         NEW y \in Items, y.no = said[l] + 1,
         \A x \in Items : Rides(l, x)' => Rides(l, x) \/ x = y,
         \A x \in Items : Rides(l, x) => Rides(l, x)',
         cut'[l] = None => Rides(l, y)' /\ \A x \in OnTheWay(l) : x.place = y.place /\ x.pos < y.pos
  PROVE  InOrder(l)'
<1> DEFINE S == OnTheWay(l)
           T == {x \in Items : Rides(l, x)' /\ InTime(l, x.no)'}
           k == Len(heard[l])
           n == said[l]
<1>1. /\ heard[l] = [i \in 1..k |-> i] /\ k <= n /\ (cut[l] # None => cut[l] <= n)
      /\ \A x \in Items : Rides(l, x) => x.no \in 1..n
      /\ Tracked(S, k) /\ (cut[l] = None => All(S, k, n))
  BY DEF InOrder
<1>2. k \in Nat /\ n \in Nat
  BY BoundsAssumption DEF TInv, CountsFit
<1>3. \A x \in Items : Rides(l, x)' => x.no \in 1..n+1
  <2>1. \A i \in 1..n : i \in 1..n+1
    BY <1>2
  <2>2. y.no \in 1..n+1
    BY <1>2
  <2> HIDE DEF n
  <2> QED
    BY <1>1, <2>1, <2>2
<1>4. \A i \in 1..n : InTime(l, i)' <=> InTime(l, i)
  BY TimeStays
<1>5. /\ \A x \in Items : x \in T <=> Rides(l, x)' /\ InTime(l, x.no)'
      /\ \A x \in Items : x \in S <=> Rides(l, x) /\ InTime(l, x.no)
      /\ S \in SUBSET Items /\ T \in SUBSET Items
  BY DEF OnTheWay
<1>6. OnTheWay(l)' = T
  BY DEF OnTheWay
<1>7. \A x \in Items : Rides(l, x) => (InTime(l, x.no)' <=> InTime(l, x.no))
  BY <1>1, <1>4
<1>8. cut'[l] # None => cut'[l] <= n /\ cut'[l] \in Int
  <2>1. cut[l] # None => cut[l] \in Int
    BY DEF TInv, CountsFit
  <2> QED
    BY <1>1, <1>2, <2>1 DEF CutsKeep
<1>13. y.no = n + 1
  OBVIOUS
<1>14. \A x \in Items : Rides(l, x)' => Rides(l, x) \/ x = y
  OBVIOUS
<1> HIDE DEF S, T, k, n
<1>9. ASSUME cut'[l] # None PROVE T = S
  <2>2. ~InTime(l, y.no)'
    <3>1. ~(y.no <= cut'[l])
      BY <1>2, <1>8, <1>9, <1>13
    <3> QED
      BY <1>9, <3>1 DEF InTime
  <2>3. \A x \in Items : x \in T <=> x \in S
    BY <1>5, <1>7, <2>2
  <2> QED
    BY <1>5, <2>3
<1>10. ASSUME cut'[l] = None PROVE T = S \cup {y} /\ Tracked(S \cup {y}, k) /\ All(S \cup {y}, k, n + 1)
  <2>1. cut[l] = None
    BY <1>10 DEF CutsKeep
  <2>2. \A i : InTime(l, i)' /\ InTime(l, i)
    BY <1>10, <2>1 DEF InTime
  <2>3. T = S \cup {y}
    BY <1>5, <1>10, <2>2
  <2>4. All(S, k, n)
    BY <1>1, <2>1
  <2>6. \A x \in S : x.no <= n
    <3>1. \A x \in S : x.no \in 1..n
      BY <1>1, <1>5
    <3> QED
      BY <1>2, <3>1
  <2>5. \A x \in S : x.place = y.place /\ x.pos < y.pos
    <3>1. \A x \in OnTheWay(l) : x.place = y.place /\ x.pos < y.pos
      BY <1>10
    <3> QED
      BY <3>1 DEF S
  <2> QED
    BY <1>1, <1>2, <1>5, <1>13, <2>3, <2>4, <2>5, <2>6, OneMore
<1>11. Tracked(T, k) /\ (cut'[l] = None => All(T, k, n + 1))
  BY <1>1, <1>9, <1>10
<1>12. k <= n + 1 /\ (cut'[l] # None => cut'[l] <= n + 1)
  BY <1>1, <1>2, <1>8
<1> QED
  BY <1>1, <1>3, <1>6, <1>11, <1>12 DEF InOrder, k, n

(* Where an item is, part by part.                                         *)
LEMMA LinkFacts == ASSUME NEW l \in Links PROVE l[1] \in Procs /\ l[2] \in Procs /\ l = <<l[1], l[2], l[3]>>
                                                 /\ (l[3] \in Tables \/ l[3] = "entity")
  BY DEF Links

(* The facts of links, items, queues and requests that the steps below     *)
(* use.                                                                    *)
LEMMA ItemFacts ==
  ASSUME NEW x \in Items
  PROVE  x.place \in Ends \cup {None} /\ x.pos \in Int /\ x.no \in Nat
  BY DEF Items

LEMMA QueueFacts ==
  ASSUME TInv, NEW e \in Ends
  PROVE  queue[e] \in Seq(Sound) /\ Len(queue[e]) \in Nat
         /\ (\A i \in 1..Len(queue[e]) : queue[e][i] \in Sound)
<1>1. queue[e] \in Seq(Sound)
  BY DEF TInv, QueuesFit
<1> QED
  BY <1>1, ElementOfSeq

LEMMA RequestFacts ==
  ASSUME TInv, NEW d \in Procs, NEW t \in Tables
  PROVE  /\ executors[d][t] \in Seq(Request) /\ Len(executors[d][t]) \in Nat
         /\ \A i \in 1..Len(executors[d][t]) :
              executors[d][t][i].from \in Ends /\ executors[d][t][i].no \in 1..MaxSaid
<1>1. executors[d][t] \in Seq(Request)
  BY DEF TInv
<1>2. \A i \in 1..Len(executors[d][t]) : executors[d][t][i] \in Request
  BY <1>1, ElementOfSeq
<1> QED
  BY <1>1, <1>2 DEF Request

(* A step that leaves an item's queue, executor or cache alone leaves the  *)
(* item there.                                                             *)
LEMMA ArrivesStay ==
  ASSUME IInv, NEW p, NEW q, Connect(p, q) \/ UNCHANGED conns,
         NEW l \in Links, NEW e \in Ends, e[1] \in 1..Len(conns)
  PROVE  Arrives(l, e)' <=> Arrives(l, e)
<1>1. CASE UNCHANGED conns
  BY <1>1 DEF Arrives, Owner, Peer, Other
<1>2. CASE Connect(p, q)
  <2>1. Owner(e)' = Owner(e) /\ Peer(e)' = Peer(e)
    BY <1>2, OwnersGrow DEF Connect, IInv
  <2>2. e[1] \in 1..Len(conns')
    <3>1. Len(conns') = Len(conns) + 1 /\ Len(conns) \in Nat
      <4>1. conns \in Seq([dialer: Procs, acceptor: Procs])
        BY DEF IInv, Shape
      <4>2. PICK x : conns' = Append(conns, x)
        BY <1>2 DEF Connect
      <4> QED
        BY <4>1, <4>2
    <3>2. PICK n \in Nat : n = Len(conns)
      BY <3>1
    <3>3. e[1] \in 1..n+1
      BY <3>2
    <3> QED
      BY <3>1, <3>2, <3>3
  <2> QED
    BY <2>1, <2>2 DEF Arrives
<1> QED
  BY <1>1, <1>2

LEMMA QueueSame ==
  ASSUME IInv, TInv, NEW p, NEW q, Connect(p, q) \/ UNCHANGED conns,
         NEW l \in Links, NEW x \in Items, x.place \in Ends => queue'[x.place] = queue[x.place]
  PROVE  InQueue(l, x)' <=> InQueue(l, x)
<1> SUFFICES ASSUME NEW e \in Ends, e = x.place PROVE InQueue(l, x)' <=> InQueue(l, x)
  BY DEF InQueue
<1>1. x.pos \in 1..Len(queue[e]) => e[1] \in 1..Len(conns)
  <2>1. queue[e] \in Seq(Sound) /\ (queue[e] # <<>> => e[1] \in 1..Len(conns))
    BY DEF TInv, QueuesFit
  <2>2. queue[e] = <<>> => Len(queue[e]) = 0
    OBVIOUS
  <2> QED
    BY <2>1, <2>2
<1>2. e[1] \in 1..Len(conns) => (Arrives(l, e)' <=> Arrives(l, e))
  BY ArrivesStay
<1>3. Says(l, queue'[e][x.pos]) <=> Says(l, queue[e][x.pos])
  BY DEF Says
<1> QED
  BY <1>1, <1>2, <1>3 DEF InQueue, Says

LEMMA ExecutorSame ==
  ASSUME IInv, TInv, SInv, NEW p, NEW q, Connect(p, q) \/ UNCHANGED conns,
         NEW l \in Links, NEW x \in Items, l[3] \in Tables => executors'[l[2]][l[3]] = executors[l[2]][l[3]]
  PROVE  InExecutor(l, x)' <=> InExecutor(l, x)
<1> SUFFICES ASSUME l[3] \in Tables PROVE InExecutor(l, x)' <=> InExecutor(l, x)
  BY DEF InExecutor
<1> DEFINE i == x.pos + Len(Asked(l))
<1>1. Asked(l)' = Asked(l)
  BY DEF Asked
<1>2. ASSUME NEW j \in 1..Len(Asked(l)) PROVE Asked(l)[j].from \in Ends /\ Asked(l)[j].from[1] \in 1..Len(conns)
  <2>1. l[2] \in Procs /\ Asked(l) = executors[l[2]][l[3]]
    BY LinkFacts DEF Asked
  <2>2. Asked(l)[j].from \in Ends
    BY <1>2, <2>1, RequestFacts
  <2>3. stage[Asked(l)[j].from] \in {"open", "closed"}
    BY <1>2, <2>1 DEF SInv, ExecutorsFit
  <2> QED
    BY <2>2, <2>3 DEF IInv, EndsAreMade
<1>3. ASSUME x.pos + Len(Asked(l)) \in 1..Len(Asked(l)), x.place = Asked(l)[x.pos + Len(Asked(l))].from
      PROVE  Arrives(l, x.place)' <=> Arrives(l, x.place)
  BY <1>2, <1>3, ArrivesStay
<1> QED
  BY <1>1, <1>3 DEF InExecutor

LEMMA CacheSame ==
  ASSUME NEW l \in Links, NEW x \in Items,
         l[3] = "entity" => client'[l[1]][l[2]].cache = client[l[1]][l[2]].cache
  PROVE  InCache(l, x)' <=> InCache(l, x)
  BY DEF InCache, Kept

(* Packets behind those of a queue.                                        *)
LEMMA AppendedRides ==
  ASSUME TInv, UNCHANGED conns, NEW l \in Links, NEW x \in Items, x.place \in Ends,
         NEW packets \in Seq(Sound), queue'[x.place] = queue[x.place] \o packets
  PROVE  InQueue(l, x)' <=>
           \/ InQueue(l, x)
           \/ /\ Arrives(l, x.place)
              /\ \E i \in 1..Len(packets) : /\ x.pos = Len(queue[x.place]) + i
                                            /\ Says(l, packets[i]) /\ x.no = packets[i].no
<1> DEFINE s == queue[x.place]
           r == queue'[x.place]
<1>1. s \in Seq(Sound) /\ r = s \o packets
  BY QueueFacts
<1>2. PICK n \in Nat, m \in Nat : n = Len(s) /\ m = Len(packets)
  BY <1>1
<1>3. /\ Len(r) = n + m /\ (\A i \in 1..n : r[i] = s[i])
      /\ \A i \in 1..m : r[n + i] = packets[i]
  <2> HIDE DEF s, r
  <2> QED
    BY <1>1, <1>2
<1>4. Arrives(l, x.place)' <=> Arrives(l, x.place)
  BY DEF Arrives, Owner, Peer, Other
<1>5. InQueue(l, x)' <=> /\ Arrives(l, x.place) /\ x.pos \in 1..n+m
                         /\ Says(l, r[x.pos]) /\ x.no = r[x.pos].no
  BY <1>3, <1>4 DEF InQueue, Says
<1>6. InQueue(l, x) <=> /\ Arrives(l, x.place) /\ x.pos \in 1..n
                        /\ Says(l, s[x.pos]) /\ x.no = s[x.pos].no
  BY <1>2 DEF InQueue, Says
<1>7. x.pos \in Int
  BY ItemFacts
<1> HIDE DEF s, r
<1>8. x.pos \in 1..n => x.pos \in 1..n+m /\ r[x.pos] = s[x.pos]
  BY <1>2, <1>3
<1>9. ASSUME NEW i \in 1..m, x.pos = n + i
      PROVE  x.pos \in 1..n+m /\ r[x.pos] = packets[i]
  BY <1>2, <1>3, <1>9
<1>10. x.pos \in 1..n+m => x.pos \in 1..n \/ (x.pos - n \in 1..m /\ x.pos = n + (x.pos - n))
  BY <1>2, <1>7
<1>11. CASE InQueue(l, x)'
  <2>1. CASE x.pos \in 1..n
    BY <1>5, <1>6, <1>8, <1>11, <2>1
  <2>2. CASE x.pos \notin 1..n
    <3>1. PICK i \in 1..m : x.pos = n + i
      BY <1>5, <1>10, <1>11, <2>2
    <3> QED
      BY <1>2, <1>5, <1>9, <1>11, <3>1 DEF s
  <2> QED
    BY <2>1, <2>2
<1>12. CASE InQueue(l, x)
  BY <1>5, <1>6, <1>8, <1>12
<1>13. ASSUME Arrives(l, x.place), NEW i \in 1..m, x.pos = n + i, Says(l, packets[i]), x.no = packets[i].no
       PROVE  InQueue(l, x)'
  BY <1>5, <1>9, <1>13
<1> QED
  BY <1>2, <1>11, <1>12, <1>13 DEF s

(* The head of a queue is taken out.                                       *)
Up(x) == [place |-> x.place, pos |-> x.pos + 1, no |-> x.no]
(* Reading the head of a queue moves the items behind it up.               *)
LEMMA UpFacts ==
  ASSUME NEW x \in Items
  PROVE  Up(x) \in Items /\ Up(x).place = x.place /\ Up(x).pos = x.pos + 1 /\ Up(x).no = x.no
  BY DEF Up, Items

LEMMA TakenRides ==
  ASSUME TInv, UNCHANGED conns, NEW l \in Links, NEW x \in Items, x.place \in Ends,
         queue[x.place] # <<>>, queue'[x.place] = Tail(queue[x.place])
  PROVE  InQueue(l, x)' <=> x.pos > 0 /\ InQueue(l, Up(x))
<1> DEFINE s == queue[x.place]
           r == queue'[x.place]
<1>1. s \in Seq(Sound) /\ r = Tail(s) /\ s # <<>>
  BY QueueFacts
<1>2. PICK n \in Nat : n = Len(s)
  BY <1>1
<1>3. n > 0 /\ Len(r) = n - 1 /\ \A i \in 1..n-1 : r[i] = s[i + 1]
  <2> HIDE DEF s, r
  <2> QED
    BY <1>1, <1>2
<1>4. Arrives(l, x.place)' <=> Arrives(l, x.place)
  BY DEF Arrives, Owner, Peer, Other
<1>5. InQueue(l, x)' <=> /\ Arrives(l, x.place) /\ x.pos \in 1..n-1
                         /\ Says(l, r[x.pos]) /\ x.no = r[x.pos].no
  BY <1>3, <1>4 DEF InQueue, Says
<1>6. InQueue(l, Up(x)) <=> /\ Arrives(l, x.place) /\ x.pos + 1 \in 1..n
                            /\ Says(l, s[x.pos + 1]) /\ x.no = s[x.pos + 1].no
  BY <1>2, UpFacts DEF InQueue, Says
<1>7. x.pos \in Int
  BY ItemFacts
<1> HIDE DEF s, r
<1>8. x.pos \in 1..n-1 <=> x.pos > 0 /\ x.pos + 1 \in 1..n
  BY <1>2, <1>7
<1>9. x.pos \in 1..n-1 => r[x.pos] = s[x.pos + 1]
  BY <1>3
<1> QED
  BY <1>5, <1>6, <1>8, <1>9

LEMMA CallsAreLinks == ASSUME NEW p \in Procs, NEW q \in Procs
                       PROVE Calls(p, q) \in Links /\ Calls(p, q)[1] = p /\ Calls(p, q)[2] = q
                             /\ Calls(p, q)[3] = "entity"
  BY DEF Calls, Links

(* Where calls are stays, when none comes from elsewhere.                  *)
LEMMA TogetherStays ==
  ASSUME CallsAreTogether, CutsKeep, NEW p \in Procs, NEW q \in Procs, cut'[Calls(p, q)] = None,
         byAddress'[p][q] = None => byAddress[p][q] = None /\ said'[Calls(p, q)] = said[Calls(p, q)],
         byAddress'[p][q] # None => byAddress[p][q] # None /\ Place(p, q)' = Place(p, q),
         \A x \in Items : Rides(Calls(p, q), x)' =>
           \E y \in Items : Rides(Calls(p, q), y) /\ y.place = x.place
  PROVE  Together(p, q)'
<1>1. Calls(p, q) \in Links /\ Calls(p, q)' = Calls(p, q)
  BY CallsAreLinks DEF Calls
<1>2. cut[Calls(p, q)] = None
  BY <1>1 DEF CutsKeep
<1>3. Together(p, q)
  BY <1>2 DEF CallsAreTogether
<1>4. CASE byAddress'[p][q] = None
  BY <1>1, <1>3, <1>4 DEF Together
<1>5. CASE byAddress'[p][q] # None
  <2>1. (\A x \in Items : Rides(Calls(p, q), x) => x.place = Place(p, q))'
    BY <1>1, <1>3, <1>5 DEF Together
  <2> QED
    BY <1>5, <2>1 DEF Together
<1> QED
  BY <1>4, <1>5

(* A step that leaves the client of a link alone leaves the place of its   *)
(* calls.                                                                  *)
LEMMA PlaceSame ==
  ASSUME NEW p \in Procs, NEW q \in Procs, byAddress'[p][q] = byAddress[p][q],
         client'[p][q].live = client[p][q].live, client'[p][q].handler = client[p][q].handler,
         client'[p][byAddress[p][q]].handler = client[p][byAddress[p][q]].handler
  PROVE  Place(p, q)' = Place(p, q)
  BY DEF Place, Waits, Other

(* Steps that move nothing.                                                *)
LEMMA QuietOrder ==
  ASSUME IInv, TInv, SInv, OInv, CutsKeep, NEW r, NEW s, Connect(r, s) \/ UNCHANGED conns,
         UNCHANGED <<queue, executors, said, heard>>,
         \A p \in Procs, q \in Procs : client'[p][q].cache = client[p][q].cache,
         \A p \in Procs, q \in Procs : cut'[Calls(p, q)] = None =>
           /\ byAddress'[p][q] = byAddress[p][q]
           /\ byAddress[p][q] # None => Place(p, q)' = Place(p, q)
  PROVE  OInv'
<1>1. ASSUME NEW l \in Links, NEW x \in Items PROVE Rides(l, x)' <=> Rides(l, x)
  <2>1. InQueue(l, x)' <=> InQueue(l, x)
    BY QueueSame
  <2>2. InExecutor(l, x)' <=> InExecutor(l, x)
    BY ExecutorSame
  <2>3. InCache(l, x)' <=> InCache(l, x)
    BY LinkFacts, CacheSame
  <2> QED
    BY <2>1, <2>2, <2>3 DEF Rides
<1>2. ASSUME NEW l \in Links PROVE InOrder(l)'
  BY <1>1, Unmoved DEF OInv
<1>3. ASSUME NEW p \in Procs, NEW q \in Procs, cut'[Calls(p, q)] = None PROVE Together(p, q)'
  <2>1. \A x \in Items : Rides(Calls(p, q), x)' =>
          \E y \in Items : Rides(Calls(p, q), y) /\ y.place = x.place
    BY <1>1, CallsAreLinks
  <2>2. /\ byAddress'[p][q] = byAddress[p][q] /\ said'[Calls(p, q)] = said[Calls(p, q)]
        /\ byAddress[p][q] # None => Place(p, q)' = Place(p, q)
    BY <1>3
  <2> QED
    BY <1>3, <2>1, <2>2, TogetherStays DEF OInv
<1>4. CallsAreTogether'
  <2>1. \A p, q : Calls(p, q)' = Calls(p, q)
    BY DEF Calls
  <2> QED
    BY <1>3, <2>1 DEF CallsAreTogether
<1> QED
  BY <1>2, <1>4 DEF OInv

(* ConnectDb, NullSocket and HandleClose move no item.                     *)
LEMMA ConnectDbOrder ==
  ASSUME IInv, TInv, SInv, OInv, NEW p \in Procs, NEW d \in Procs, ConnectDb(p, d)
  PROVE  OInv'
<1>1. CutsKeep /\ Connect(p, d) /\ UNCHANGED <<client, byAddress, queue, executors, said, heard>>
  BY CutsStay DEF ConnectDb, mapVars
<1>2. \A r \in Procs, s \in Procs : byAddress'[r][s] = byAddress[r][s] /\ Place(r, s)' = Place(r, s)
  BY <1>1, PlaceSame
<1> QED
  BY <1>1, <1>2, QuietOrder

LEMMA NullSocketOrder == ASSUME IInv, TInv, SInv, OInv, NEW e \in Ends, NullSocket(e) PROVE OInv'
<1>1. CutsKeep /\ UNCHANGED <<conns, client, byAddress, queue, executors, said, heard>>
  BY CutsStay DEF NullSocket, mapVars, netVars
<1>2. \A r \in Procs, s \in Procs : byAddress'[r][s] = byAddress[r][s] /\ Place(r, s)' = Place(r, s)
  BY <1>1, PlaceSame
<1> QED
  BY <1>1, <1>2, QuietOrder

LEMMA CloseOrder == ASSUME IInv, TInv, SInv, OInv, NEW e \in Ends, HandleClose(e) PROVE OInv'
<1> SUFFICES ASSUME NEW p, p = Owner(e), NEW n, n = bySocket[e] PROVE OInv'
  OBVIOUS
<1>1. /\ p \in Procs /\ Peer(e) \in Procs /\ n \in Names /\ n # None /\ client[p][n].handler = e
      /\ \A q \in Procs, r \in Procs :
           byAddress'[q][r] = IF q = p /\ byAddress[q][r] = n THEN None ELSE byAddress[q][r]
      /\ \A q \in Procs, m \in Names :
           client'[q][m] = IF q = p /\ m = n THEN Gone ELSE client[q][m]
  BY ClosedMaps
<1>2. CutsKeep /\ UNCHANGED <<conns, queue, executors, said, heard, cut>>
  BY CutsSame DEF HandleClose, history
<1>3. stage[e] = "open" /\ e[1] \notin standing /\ e[1] \in 1..Len(conns)
  BY SeenOwners DEF HandleClose
<1>4. None \notin Ends /\ Procs \subseteq Names
  BY NamesAssumption DEF Names
<1>5. \A q \in Procs, r \in Procs : client'[q][r].cache = client[q][r].cache
  <2>1. client[p][n].cache = <<>>
    BY <1>1, <1>4 DEF SInv, CachesWait, Waits
  <2> QED
    BY <1>1, <1>4, <2>1 DEF Gone
<1>6. ASSUME NEW r \in Procs, NEW s \in Procs, cut'[Calls(r, s)] = None
      PROVE  /\ byAddress'[r][s] = byAddress[r][s]
             /\ byAddress[r][s] # None => Place(r, s)' = Place(r, s)
  <2>1. CASE r = p /\ byAddress[r][s] = n
    <3>1. LedBy(p, n, s)
      BY <1>1, <1>4, <2>1 DEF IInv, EntriesLead, Waits
    <3>2. s = Peer(e)
      BY <1>1, <3>1 DEF LedBy
    <3>3. Calls(r, s) \in Links /\ {Calls(r, s)[1], Calls(r, s)[2]} = {Owner(e), Peer(e)}
      BY <2>1, <3>2, CallsAreLinks
    <3>4. cut[Calls(r, s)] # None
      BY <1>3, <3>3, EndIsCut DEF IInv, SInv
    <3> QED
      BY <1>2, <1>6, <3>4
  <2>2. CASE ~(r = p /\ byAddress[r][s] = n)
    <3>1. byAddress'[r][s] = byAddress[r][s]
      BY <1>1, <2>2
    <3>2. CASE byAddress[r][s] = None
      BY <3>1, <3>2
    <3>3. CASE byAddress[r][s] # None
      <4>1. byAddress[r][s] \in Names
        BY <3>3 DEF IInv, Shape
      <4>2. client'[r][byAddress[r][s]].handler = client[r][byAddress[r][s]].handler
        BY <1>1, <2>2, <4>1
      <4>3. CASE r = p /\ s = n
        <5>1. ~Waits(r, s) /\ ~Waits(r, s)'
          BY <1>1, <2>2, <3>1, <4>3 DEF Waits
        <5> QED
          BY <3>1, <4>2, <5>1 DEF Place, Other
      <4>4. CASE ~(r = p /\ s = n)
        <5>1. client'[r][s] = client[r][s]
          BY <1>1, <1>4, <4>4
        <5> QED
          BY <3>1, <4>2, <5>1, PlaceSame
      <4> QED
        BY <4>3, <4>4
    <3> QED
      BY <3>2, <3>3
  <2> QED
    BY <2>1, <2>2
<1> QED
  BY <1>2, <1>5, <1>6, QuietOrder

(* Where an item is, by its position.                                      *)
LEMMA PartsOfItem ==
  ASSUME TInv, NEW l \in Links, NEW x \in Items
  PROVE  /\ InQueue(l, x) => x.place \in Ends /\ x.pos > 0
         /\ InExecutor(l, x) => x.place \in Ends /\ x.pos <= 0 /\ l[3] \in Tables
         /\ InCache(l, x) => x.place = None /\ l[3] = "entity"
         /\ None \notin Ends /\ "entity" \notin Tables
<1>1. None \notin Ends /\ "entity" \notin Tables
  BY NamesAssumption, BoundsAssumption DEF Names
<1>2. ASSUME InExecutor(l, x) PROVE x.place \in Ends /\ x.pos <= 0 /\ l[3] \in Tables
  <2>1. l[3] \in Tables /\ l[2] \in Procs
    BY <1>2, LinkFacts DEF InExecutor
  <2>2. PICK n \in Nat : n = Len(Asked(l))
    BY <2>1, RequestFacts DEF Asked
  <2>3. x.pos + n \in 1..n /\ x.pos \in Int
    BY <1>2, <2>2, ItemFacts DEF InExecutor
  <2>4. x.place \in Ends
    <3>1. x.pos + n \in 1..Len(executors[l[2]][l[3]]) /\ x.place = executors[l[2]][l[3]][x.pos + n].from
      BY <1>2, <2>2, <2>3 DEF InExecutor, Asked
    <3> QED
      BY <2>1, <3>1, RequestFacts
  <2> QED
    BY <2>1, <2>3, <2>4
<1>3. InQueue(l, x) => x.place \in Ends /\ x.pos > 0
  BY DEF InQueue
<1> QED
  BY <1>1, <1>2, <1>3 DEF InCache

(* The head of the queue of e is taken out: what is behind it moves up.    *)
HeadTaken(e) == [x \in Items |-> IF x.place = e /\ x.pos > 0 THEN Up(x) ELSE x]
MovesUp(l, e, f) ==
  /\ \A x \in Items : Rides(l, x)' =>
       /\ f[x] \in Items /\ Rides(l, f[x]) /\ f[x].no = x.no /\ f[x].place = x.place
       /\ ~(f[x].place = e /\ f[x].pos = 1)
  /\ \A x \in Items, y \in Items : x.place = y.place =>
       (x.pos = y.pos => f[x].pos = f[y].pos) /\ (x.pos < y.pos => f[x].pos < f[y].pos)
  /\ \A y \in Items : Rides(l, y) /\ ~(y.place = e /\ y.pos = 1) =>
       \E z \in Items : Rides(l, z)' /\ f[z] = y
(* Reading the head moves what else is on the way.                         *)
LEMMA TakenMoves ==
  ASSUME IInv, TInv, SInv, NEW e \in Ends, queue[e] # <<>>, queue' = [queue EXCEPT ![e] = Tail(@)],
         UNCHANGED <<conns, client>>, NEW l \in Links, NEW f, f = HeadTaken(e),
         l[3] \in Tables => executors'[l[2]][l[3]] = executors[l[2]][l[3]]
  PROVE  MovesUp(l, e, f)
<1>1. \A x \in Items : f[x] = IF x.place = e /\ x.pos > 0 THEN Up(x) ELSE x
  BY DEF HeadTaken
<1>2. \A x \in Items : x.place \in Ends /\ x.place # e => queue'[x.place] = queue[x.place]
  BY DEF TInv, QueuesFit
<1>3. queue'[e] = Tail(queue[e])
  BY DEF TInv, QueuesFit
<1>4. ASSUME NEW x \in Items, x.place # e PROVE InQueue(l, x)' <=> InQueue(l, x)
  BY <1>2, <1>4, QueueSame
<1>5. ASSUME NEW x \in Items, x.place = e PROVE InQueue(l, x)' <=> x.pos > 0 /\ InQueue(l, Up(x))
  BY <1>3, <1>5, TakenRides
<1>6. ASSUME NEW x \in Items
      PROVE  (InExecutor(l, x)' <=> InExecutor(l, x)) /\ (InCache(l, x)' <=> InCache(l, x))
  BY <1>6, ExecutorSame, CacheSame
<1>7. None \notin Ends
  BY NamesAssumption DEF Names
<1>8. ASSUME NEW x \in Items, Rides(l, x)'
      PROVE  /\ f[x] \in Items /\ Rides(l, f[x]) /\ f[x].no = x.no /\ f[x].place = x.place
             /\ ~(f[x].place = e /\ f[x].pos = 1)
  <2>1. CASE x.place = e /\ x.pos > 0
    <3>1. f[x] = Up(x)
      BY <1>1, <2>1
    <3>2. InQueue(l, x)'
      <4>1. ~(x.pos <= 0)
        BY <2>1, ItemFacts
      <4> QED
        BY <1>6, <1>7, <1>8, <2>1, <4>1, PartsOfItem DEF Rides
    <3>3. InQueue(l, Up(x))
      BY <1>5, <2>1, <3>2
    <3>4. x.pos \in Int
      BY ItemFacts
    <3> QED
      BY <2>1, <3>1, <3>3, <3>4, UpFacts DEF Rides
  <2>2. CASE ~(x.place = e /\ x.pos > 0)
    <3>1. f[x] = x
      BY <1>1, <2>2
    <3>2. Rides(l, x)
      BY <1>4, <1>5, <1>6, <1>8, <2>2 DEF Rides
    <3>3. ~(x.place = e /\ x.pos = 1)
      BY <2>2
    <3> QED
      BY <3>1, <3>2, <3>3
  <2> QED
    BY <2>1, <2>2
<1>9. ASSUME NEW x \in Items, NEW y \in Items, x.place = y.place
      PROVE  (x.pos = y.pos => f[x].pos = f[y].pos) /\ (x.pos < y.pos => f[x].pos < f[y].pos)
  <2>1. x.pos \in Int /\ y.pos \in Int
    BY ItemFacts
  <2>2. /\ f[x].pos = IF x.place = e /\ x.pos > 0 THEN x.pos + 1 ELSE x.pos
        /\ f[y].pos = IF x.place = e /\ y.pos > 0 THEN y.pos + 1 ELSE y.pos
    BY <1>1, <1>9, UpFacts
  <2> QED
    BY <2>1, <2>2
<1>10. ASSUME NEW y \in Items, Rides(l, y), ~(y.place = e /\ y.pos = 1)
       PROVE  \E z \in Items : Rides(l, z)' /\ f[z] = y
  <2>1. CASE y.place = e /\ y.pos > 0
    <3> DEFINE z == [place |-> e, pos |-> y.pos - 1, no |-> y.no]
    <3>1. y.pos \in Int /\ y.no \in Nat /\ y.pos # 1
      BY <1>10, <2>1, ItemFacts
    <3>2. z \in Items /\ z.place = e /\ z.pos = y.pos - 1 /\ z.no = y.no /\ z.pos > 0
      BY <2>1, <3>1 DEF Items
    <3> HIDE DEF z
    <3>3. Up(z) = y
      BY <2>1, <3>1, <3>2, UpFacts, SameItem
    <3>4. InQueue(l, y)
      <4>1. ~(y.pos <= 0)
        BY <2>1, <3>1
      <4> QED
        BY <1>7, <1>10, <2>1, <4>1, PartsOfItem DEF Rides
    <3>5. Rides(l, z)'
      BY <1>5, <3>2, <3>3, <3>4 DEF Rides
    <3> QED
      BY <1>1, <3>2, <3>3, <3>5
  <2>2. CASE y.place = e /\ ~(y.pos > 0)
    <3>1. ~InQueue(l, y)
      BY <2>2, PartsOfItem
    <3>2. Rides(l, y)'
      BY <1>6, <1>10, <3>1 DEF Rides
    <3> QED
      BY <1>1, <2>2, <3>2
  <2>3. CASE y.place # e
    <3>1. Rides(l, y)'
      BY <1>4, <1>6, <1>10, <2>3 DEF Rides
    <3> QED
      BY <1>1, <2>3, <3>1
  <2> QED
    BY <2>1, <2>2, <2>3
<1> QED
  BY <1>8, <1>9, <1>10 DEF MovesUp

(* What is at the head is what the link says first.                        *)
LEMMA HeadRides ==
  ASSUME TInv, NEW e \in Ends, queue[e] # <<>>, NEW l \in Links, NEW y \in Items,
         Rides(l, y), y.place = e, y.pos = 1
  PROVE  /\ Says(l, Head(queue[e])) /\ Arrives(l, e) /\ y.no = Head(queue[e]).no
<1>1. InQueue(l, y)
  BY PartsOfItem DEF Rides
<1>2. Head(queue[e]) = queue[e][1]
  BY QueueFacts
<1> QED
  BY <1>1, <1>2 DEF InQueue, Says

(* Nothing of the link is taken, or nothing that matters.                  *)
LEMMA TakenOrder ==
  ASSUME IInv, TInv, SInv, NEW e \in Ends, queue[e] # <<>>, queue' = [queue EXCEPT ![e] = Tail(@)],
         UNCHANGED <<conns, client, cut>>, NEW l \in Links, InOrder(l),
         l[3] \in Tables => executors'[l[2]][l[3]] = executors[l[2]][l[3]],
         heard'[l] = heard[l], said'[l] = said[l],
         Says(l, Head(queue[e])) /\ Arrives(l, e) => ~InTime(l, Head(queue[e]).no)
  PROVE  InOrder(l)'
<1>1. PICK f : f = HeadTaken(e)
  OBVIOUS
<1>2. MovesUp(l, e, f)
  BY <1>1, TakenMoves
<1>3. \A y \in Items : Rides(l, y) /\ y.place = e /\ y.pos = 1 => ~InTime(l, y.no)
  BY HeadRides
<1>4. Moves(l, f)
  BY <1>2, <1>3 DEF Moves, MovesUp
<1>5. Loses(l, f) => cut'[l] # None
  BY <1>2, <1>3 DEF Loses, MovesUp, InTime
<1> QED
  BY <1>4, <1>5, CutsSame, Moved

(* Reading leaves the calls of a link together.                            *)
LEMMA TakenTogether ==
  ASSUME IInv, TInv, SInv, OInv, NEW e \in Ends, queue[e] # <<>>, queue' = [queue EXCEPT ![e] = Tail(@)],
         UNCHANGED <<conns, client, cut, said>>,
         NEW p \in Procs, NEW q \in Procs, cut[Calls(p, q)] = None, byAddress'[p][q] = byAddress[p][q]
  PROVE  Together(p, q)'
<1>1. PICK f : f = HeadTaken(e)
  OBVIOUS
<1>2. MovesUp(Calls(p, q), e, f)
  BY <1>1, CallsAreLinks, TakenMoves, BoundsAssumption
<1>3. Place(p, q)' = Place(p, q)
  BY PlaceSame
<1>4. \A x \in Items : Rides(Calls(p, q), x)' =>
        \E y \in Items : Rides(Calls(p, q), y) /\ y.place = x.place
  BY <1>2 DEF MovesUp
<1> QED
  BY <1>3, <1>4, CutsSame, TogetherStays DEF OInv

(* A link that said nothing has no call anywhere.                          *)
LEMMA NothingSaid ==
  ASSUME NEW p \in Procs, NEW q \in Procs, InOrder(Calls(p, q))', said'[Calls(p, q)] = 0
  PROVE  Together(p, q)'
<1>1. Calls(p, q)' = Calls(p, q)
  BY DEF Calls
<1>2. \A x \in Items : ~Rides(Calls(p, q), x)'
  <2>1. \A x \in Items : Rides(Calls(p, q), x)' => x.no \in 1..said'[Calls(p, q)]
    BY <1>1 DEF InOrder
  <2>2. 1..0 = {}
    OBVIOUS
  <2> QED
    BY <2>1, <2>2
<1>3. (\A x \in Items : ~Rides(Calls(p, q), x))'
  BY <1>1, <1>2
<1>4. (said[Calls(p, q)] = 0)'
  BY <1>1
<1> QED
  BY <1>3, <1>4 DEF Together

(* The invariant of the order from its two parts.                          *)
LEMMA AllTogether ==
  ASSUME \A p \in Procs, q \in Procs : cut'[Calls(p, q)] = None => Together(p, q)',
         \A l \in Links : InOrder(l)'
  PROVE  OInv'
<1>1. \A p, q : Calls(p, q)' = Calls(p, q)
  BY DEF Calls
<1>2. CallsAreTogether'
  BY <1>1 DEF CallsAreTogether
<1> QED
  BY <1>2 DEF OInv

(* RegisterServer and OnOptDb read a packet that is not on any link's way. *)
LEMMA ReceivedNothing ==
  ASSUME IInv, TInv, SInv, OInv, NEW e \in Ends, RegisterServer(e) \/ OnOptDb(e)
  PROVE  OInv'
<1>1. /\ queue[e] # <<>> /\ queue' = [queue EXCEPT ![e] = Tail(@)]
      /\ Head(queue[e]).what \in {"register_server", "answer"}
      /\ UNCHANGED <<conns, executors, client, cut, said, heard>>
  BY DEF RegisterServer, OnOptDb, Receives, mapVars
<1>2. \A l \in Links : InOrder(l)'
  BY <1>1, TakenOrder DEF OInv, Says
<1>3. ASSUME NEW p \in Procs, NEW q \in Procs, cut'[Calls(p, q)] = None PROVE Together(p, q)'
  <2>1. CASE byAddress'[p][q] = byAddress[p][q]
    BY <1>1, <1>3, <2>1, TakenTogether
  <2>2. CASE byAddress'[p][q] # byAddress[p][q]
    <3>1. RegisterServer(e)
      BY <2>2 DEF OnOptDb, mapVars
    <3>2. Owner(e) \in Procs /\ Peer(e) \in Procs
      BY <3>1, ReceivesFits DEF RegisterServer
    <3>3. byAddress[p][q] = None
      BY <2>2, <3>1, <3>2 DEF RegisterServer, IInv, Shape
    <3>4. said[Calls(p, q)] = 0
      BY <1>1, <1>3, <3>3 DEF OInv, CallsAreTogether, Together
    <3> QED
      BY <1>1, <1>2, <3>4, CallsAreLinks, NothingSaid
  <2> QED
    BY <2>1, <2>2
<1> QED
  BY <1>2, <1>3, AllTogether

(* The call that is heard is the next one.                                 *)
LEMMA HeardNext ==
  ASSUME IInv, TInv, SInv, OInv, NEW e \in Ends, HearCall(e),
         NEW l, l = <<Peer(e), Owner(e), "entity">>, NEW n, n = Head(queue[e]).no, InTime(l, n)
  PROVE  InOrder(l)'
<1> DEFINE S == OnTheWay(l)
           T == {x \in Items : Rides(l, x)' /\ InTime(l, x.no)'}
           k == Len(heard[l])
<1>1. /\ queue[e] \in Seq(Sound) /\ queue[e] # <<>> /\ Head(queue[e]) \in Sound
      /\ Head(queue[e]).what = "entity" /\ stage[e] = "open"
      /\ Owner(e) \in Procs /\ Peer(e) \in Procs
  BY ReceivesFits DEF HearCall
<1>2. l \in Links /\ l[1] = Peer(e) /\ l[2] = Owner(e) /\ l[3] = "entity"
  BY <1>1 DEF Links
<1>3. /\ queue' = [queue EXCEPT ![e] = Tail(@)]
      /\ UNCHANGED <<conns, executors, client, cut, said>>
      /\ heard' = [heard EXCEPT ![l] = Append(@, n)]
  BY DEF HearCall, Receives, mapVars
<1>4. /\ heard[l] = [i \in 1..k |-> i] /\ k <= said[l] /\ (cut[l] # None => cut[l] <= said[l])
      /\ \A x \in Items : Rides(l, x) => x.no \in 1..said[l]
      /\ Tracked(S, k) /\ (cut[l] = None => All(S, k, said[l]))
  BY <1>2 DEF OInv, InOrder
<1>5. k \in Nat /\ said[l] \in Nat /\ heard[l] \in Seq(1..MaxSaid)
  BY <1>2, BoundsAssumption DEF TInv, CountsFit
<1> DEFINE h == [place |-> e, pos |-> 1, no |-> n]
<1>6. h \in Items /\ h.place = e /\ h.pos = 1 /\ h.no = n
  BY <1>1 DEF Items, Sound, Message
<1>7. Rides(l, h)
  <2>1. 1 \in 1..Len(queue[e]) /\ queue[e][1] = Head(queue[e])
    BY <1>1
  <2>2. Says(l, Head(queue[e]))
    BY <1>1, <1>2 DEF Says, Sound
  <2>3. Arrives(l, e)
    BY <1>1, <1>2, SeenOwners DEF Arrives
  <2>4. Says(l, queue[e][1]) /\ h.no = queue[e][1].no
    BY <1>6, <2>1, <2>2
  <2> HIDE DEF h
  <2>5. InQueue(l, h)
    BY <1>6, <2>1, <2>3, <2>4 DEF InQueue, Says
  <2> QED
    BY <2>5 DEF Rides
<1> HIDE DEF h
<1>8. /\ S \in SUBSET Items /\ T \in SUBSET Items /\ h \in S
      /\ \A x \in Items : x \in S <=> Rides(l, x) /\ InTime(l, x.no)
      /\ \A x \in Items : x \in T <=> Rides(l, x)' /\ InTime(l, x.no)
  BY <1>3, <1>6, <1>7 DEF OnTheWay, InTime
<1>9. OnTheWay(l)' = T
  BY DEF OnTheWay
<1>10. \A x \in S : h.pos <= x.pos
  <2> SUFFICES ASSUME NEW x \in S PROVE h.pos <= x.pos
    OBVIOUS
  <2>1. x.place = e /\ x \in Items /\ Rides(l, x)
    <3> HIDE DEF S
    <3> QED
      BY <1>4, <1>6, <1>8 DEF Tracked
  <2>2. InQueue(l, x)
    BY <1>2, <2>1, PartsOfItem DEF Rides
  <2> QED
    BY <1>6, <2>2 DEF InQueue
<1>11. PICK f : f = HeadTaken(e)
  OBVIOUS
<1>12. MovesUp(l, e, f)
  BY <1>1, <1>2, <1>3, <1>11, TakenMoves
<1> HIDE DEF S, T, k
<1>13. Tracked(S \ {h}, k + 1) /\ n = k + 1 /\ \A m : All(S, k, m) => All(S \ {h}, k + 1, m)
  BY <1>4, <1>5, <1>6, <1>8, <1>10, NextIsFirst
<1>14. \A x \in T : f[x] \in S \ {h} /\ f[x].no = x.no /\ f[x].place = x.place
  BY <1>6, <1>8, <1>12 DEF MovesUp
<1>15. \A y \in S \ {h} : \E z \in T : f[z] = y
  <2> SUFFICES ASSUME NEW y \in S \ {h} PROVE \E z \in T : f[z] = y
    OBVIOUS
  <2>1. ~(y.place = e /\ y.pos = 1)
    BY <1>4, <1>6, <1>8 DEF Tracked
  <2>2. PICK z \in Items : Rides(l, z)' /\ f[z] = y
    BY <1>8, <1>12, <2>1 DEF MovesUp
  <2>3. f[z].no = z.no
    BY <1>12, <2>2 DEF MovesUp
  <2> QED
    BY <1>8, <2>2, <2>3
<1>16. Follows(T, S \ {h}, f)
  <2>1. \A x \in T, y \in T : x.place = y.place
    BY <1>4, <1>14 DEF Tracked
  <2> QED
    BY <1>8, <1>12, <1>14, <1>15, <2>1 DEF Follows, MovesUp
<1>17. Tracked(T, k + 1) /\ \A m : All(S \ {h}, k + 1, m) => All(T, k + 1, m)
  <2>1. S \ {h} \in SUBSET Items /\ k + 1 \in Nat
    BY <1>5, <1>8
  <2> QED
    BY <1>8, <1>13, <1>15, <1>16, <2>1, Carried
<1>18. heard'[l] = [i \in 1..k+1 |-> i] /\ Len(heard'[l]) = k + 1
  <2>1. heard'[l] = Append(heard[l], k + 1)
    BY <1>2, <1>3, <1>13 DEF TInv, CountsFit
  <2>2. PICK s \in Seq(Nat) : s = heard[l] /\ Len(s) = k
    <3>1. heard[l] \in Seq(Nat)
      <4>1. 1..MaxSaid \subseteq Nat
        OBVIOUS
      <4> QED
        BY <1>5, <4>1, SeqMonotonic
    <3> QED
      BY <3>1 DEF k
  <2>3. \A i \in 1..k : s[i] = i
    BY <1>4, <1>5, <2>2
  <2>4. Append(s, k + 1) = [i \in 1..k+1 |-> i]
    <3>1. PICK t : t = Append(s, k + 1)
      OBVIOUS
    <3>2. t \in Seq(Nat) /\ Len(t) = k + 1 /\ t[k + 1] = k + 1 /\ \A i \in 1..k : t[i] = s[i]
      <4>1. PICK v \in Nat : v = k + 1
        BY <1>5
      <4>2. t \in Seq(Nat) /\ Len(t) = Len(s) + 1 /\ t[Len(s) + 1] = v
            /\ \A i \in 1..Len(s) : t[i] = s[i]
        BY ONLY s \in Seq(Nat), v \in Nat, v = k + 1, <3>1
      <4> QED
        BY <2>2, <4>1, <4>2
    <3>3. \A i \in 1..k+1 : t[i] = i
      <4>1. \A i \in 1..k+1 : i \in 1..k \/ i = k + 1
        BY <1>5
      <4> QED
        BY <2>3, <3>2, <4>1
    <3>4. t = [i \in 1..Len(t) |-> t[i]]
      BY ONLY <3>2
    <3>5. PICK j : j = k + 1
      OBVIOUS
    <3>6. t = [i \in 1..j |-> t[i]] /\ \A i \in 1..j : t[i] = i
      BY <3>2, <3>3, <3>4, <3>5
    <3>7. t = [i \in 1..j |-> i]
      BY ONLY <3>6
    <3> QED
      BY <3>1, <3>5, <3>7
  <2>5. Len(Append(s, k + 1)) = k + 1
    BY <1>5, <2>2
  <2> QED
    BY <2>1, <2>2, <2>4, <2>5
<1>19. k + 1 <= said[l]
  BY <1>4, <1>5, <1>6, <1>7, <1>13
<1>20. \A x \in Items : Rides(l, x)' => x.no \in 1..said[l]
  BY <1>4, <1>12 DEF MovesUp
<1>21. said'[l] = said[l] /\ cut'[l] = cut[l]
  BY <1>3
<1> QED
  BY <1>4, <1>9, <1>13, <1>17, <1>18, <1>19, <1>20, <1>21 DEF InOrder

(* HearCall hears the first call that is on its way.                       *)
LEMMA HearOrder == ASSUME IInv, TInv, SInv, OInv, NEW e \in Ends, HearCall(e) PROVE OInv'
<1> SUFFICES ASSUME NEW l0, l0 = <<Peer(e), Owner(e), "entity">>, NEW n, n = Head(queue[e]).no
             PROVE  OInv'
  OBVIOUS
<1>1. /\ queue[e] # <<>> /\ queue' = [queue EXCEPT ![e] = Tail(@)]
      /\ Head(queue[e]).what = "entity"
      /\ UNCHANGED <<conns, executors, client, byAddress, cut, said>>
      /\ heard' = IF InTime(l0, n) THEN [heard EXCEPT ![l0] = Append(@, n)] ELSE heard
  BY DEF HearCall, Receives, mapVars
<1>2. ASSUME NEW l \in Links PROVE InOrder(l)'
  <2>1. CASE l = l0 /\ InTime(l0, n)
    BY <2>1, HeardNext
  <2>2. CASE ~(l = l0 /\ InTime(l0, n))
    <3>1. heard'[l] = heard[l]
      BY <1>1, <2>2 DEF TInv, CountsFit
    <3>2. Says(l, Head(queue[e])) /\ Arrives(l, e) => l = l0
      BY <1>1, LinkFacts, BoundsAssumption DEF Says, Arrives
    <3>3. Says(l, Head(queue[e])) /\ Arrives(l, e) => ~InTime(l, Head(queue[e]).no)
      BY <2>2, <3>2
    <3>4. InOrder(l) /\ said'[l] = said[l]
      BY <1>1 DEF OInv
    <3> QED
      BY <1>1, <3>1, <3>3, <3>4, TakenOrder
  <2> QED
    BY <2>1, <2>2
<1>3. ASSUME NEW p \in Procs, NEW q \in Procs, cut'[Calls(p, q)] = None PROVE Together(p, q)'
  BY <1>1, <1>3, TakenTogether
<1> QED
  BY <1>2, <1>3, AllTogether

(* Break loses what is behind the packets that are still read, and cuts    *)
(* the links of the connection.                                            *)
LEMMA BreakOrder == ASSUME IInv, TInv, SInv, OInv, NEW c \in 1..MaxConns, Break(c) PROVE OInv'
<1> DEFINE f == [x \in Items |-> x]
<1>1. /\ UNCHANGED <<conns, executors, client, byAddress, said, heard>>
      /\ c \in standing /\ CutsKeep
      /\ \A l \in Between(conns[c].dialer, conns[c].acceptor) : cut'[l] # None
  BY CutsStay DEF Break, mapVars, Between
<1>2. \A e \in Ends : \E n \in 0..Len(queue[e]) :
        /\ Len(queue'[e]) = n
        /\ \A i \in 1..n : i \in 1..Len(queue[e]) /\ queue'[e][i] = queue[e][i]
  BY PrefixesStay
<1>3. \A e \in Ends : e[1] # c => queue'[e] = queue[e]
  BY DEF Break, TInv, QueuesFit
<1>4. ASSUME NEW l \in Links, NEW x \in Items, x.place \in Ends
      PROVE  \E n \in 0..Len(queue[x.place]) : InQueue(l, x)' <=> InQueue(l, x) /\ x.pos <= n
  <2>1. PICK n \in 0..Len(queue[x.place]) :
          /\ Len(queue'[x.place]) = n
          /\ \A i \in 1..n : i \in 1..Len(queue[x.place]) /\ queue'[x.place][i] = queue[x.place][i]
    BY <1>2, <1>4
  <2>2. Arrives(l, x.place)' <=> Arrives(l, x.place)
    BY <1>1 DEF Arrives, Owner, Peer, Other
  <2>3. n \in Nat /\ Len(queue[x.place]) \in Nat /\ x.pos \in Int
    BY <1>4, QueueFacts, ItemFacts
  <2>4. x.pos \in 1..n <=> x.pos \in 1..Len(queue[x.place]) /\ x.pos <= n
    BY <2>3
  <2>5. InQueue(l, x)' <=> /\ Arrives(l, x.place) /\ x.pos \in 1..n
                           /\ Says(l, queue'[x.place][x.pos]) /\ x.no = queue'[x.place][x.pos].no
    BY <1>4, <2>1, <2>2 DEF InQueue, Says
  <2>6. x.pos \in 1..n => queue'[x.place][x.pos] = queue[x.place][x.pos]
    BY <2>1
  <2>7. InQueue(l, x)' <=> /\ Arrives(l, x.place) /\ x.pos \in 1..n
                           /\ Says(l, queue[x.place][x.pos]) /\ x.no = queue[x.place][x.pos].no
    BY <2>5, <2>6
  <2>8. InQueue(l, x)' <=> InQueue(l, x) /\ x.pos <= n
    BY <1>4, <2>4, <2>7 DEF InQueue
  <2> QED
    BY <2>8
<1>5. ASSUME NEW l \in Links, NEW x \in Items
      PROVE  (InExecutor(l, x)' <=> InExecutor(l, x)) /\ (InCache(l, x)' <=> InCache(l, x))
  BY <1>1, ExecutorSame, CacheSame
<1>6. \A x \in Items : f[x] = x
  OBVIOUS
<1> HIDE DEF f
<1>7. ASSUME NEW l \in Links, NEW x \in Items, Rides(l, x)' PROVE Rides(l, x)
  BY <1>4, <1>5, <1>7 DEF Rides, InQueue
<1>8. ASSUME NEW l \in Links, NEW x \in Items, NEW y \in Items,
             Rides(l, x)', Rides(l, y), y.place = x.place, y.pos < x.pos
      PROVE  Rides(l, y)'
  <2>1. x.pos \in Int /\ y.pos \in Int
    BY ItemFacts
  <2>2. CASE InQueue(l, y)
    <3>1. y.place \in Ends /\ y.pos > 0 /\ x.pos > 0 /\ ~(x.pos <= 0)
      BY <1>8, <2>1, <2>2, PartsOfItem
    <3>2. InQueue(l, x)'
      BY <1>5, <1>8, <3>1, PartsOfItem DEF Rides
    <3>3. PICK n \in 0..Len(queue[x.place]) : InQueue(l, x)' <=> InQueue(l, x) /\ x.pos <= n
      BY <1>4, <1>8, <3>1
    <3>4. Len(queue'[x.place]) = Len(queue'[y.place]) /\ x.pos \in 1..Len(queue'[x.place])
      BY <1>8, <3>2 DEF InQueue
    <3>5. PICK m \in 0..Len(queue[y.place]) :
            /\ Len(queue'[y.place]) = m
            /\ \A i \in 1..m : i \in 1..Len(queue[y.place]) /\ queue'[y.place][i] = queue[y.place][i]
      BY <1>2, <3>1
    <3>6. m \in Nat
      BY <3>1, <3>5, QueueFacts
    <3>7. y.pos \in 1..m
      BY <1>8, <2>1, <3>1, <3>4, <3>5, <3>6
    <3>8. Arrives(l, y.place)' <=> Arrives(l, y.place)
      BY <1>1 DEF Arrives, Owner, Peer, Other
    <3>9. queue'[y.place][y.pos] = queue[y.place][y.pos]
      BY <3>5, <3>7
    <3>10. InQueue(l, y)'
      BY <2>2, <3>1, <3>5, <3>7, <3>8, <3>9 DEF InQueue, Says
    <3> QED
      BY <3>10 DEF Rides
  <2> QED
    BY <1>5, <1>8, <2>2 DEF Rides
<1>9. ASSUME NEW l \in Links PROVE Moves(l, f)
  BY <1>6, <1>7, <1>8 DEF Moves
<1>10. ASSUME NEW l \in Links, Loses(l, f) PROVE cut'[l] # None
  <2>1. PICK y \in Items : Rides(l, y) /\ ~Rides(l, y)'
    BY <1>6, <1>10 DEF Loses
  <2>2. InQueue(l, y) /\ ~InQueue(l, y)' /\ y.place \in Ends
    BY <1>5, <2>1 DEF Rides, InQueue
  <2>3. y.place[1] = c
    BY <1>1, <1>3, <2>2, QueueSame
  <2>4. Arrives(l, y.place) /\ y.place[1] \in 1..Len(conns)
    BY <2>2 DEF InQueue, Arrives
  <2>5. {l[1], l[2]} = {conns[c].dialer, conns[c].acceptor}
    BY <2>2, <2>3, <2>4, EndsOfLink DEF IInv, Arrives
  <2> QED
    BY <1>1, <2>5 DEF Between
<1>11. \A l \in Links : InOrder(l)'
  BY <1>1, <1>9, <1>10, Moved DEF OInv
<1>12. ASSUME NEW p \in Procs, NEW q \in Procs, cut'[Calls(p, q)] = None PROVE Together(p, q)'
  <2>1. Place(p, q)' = Place(p, q)
    BY <1>1, PlaceSame
  <2>2. \A x \in Items : Rides(Calls(p, q), x)' =>
          \E y \in Items : Rides(Calls(p, q), y) /\ y.place = x.place
    BY <1>7, CallsAreLinks
  <2>3. byAddress'[p][q] = byAddress[p][q] /\ said'[Calls(p, q)] = said[Calls(p, q)] /\ CutsKeep
    BY <1>1
  <2> QED
    BY <1>12, <2>1, <2>2, <2>3, TogetherStays DEF OInv
<1> QED
  BY <1>11, <1>12, AllTogether

-----------------------------------------------------------------------------
(* What is said next is sent over an open end.                             *)
AllAt(l, place) == \A x \in Items : Rides(l, x) => x.place = place
Adds(l0, place) ==
  \A l \in Links, x \in Items : Rides(l, x)' => Rides(l, x) \/ (l = l0 /\ x.place = place)
(* A call or request that is written to a connection is behind all others  *)
(* of its link.                                                            *)
LEMMA PostOrder ==
  ASSUME IInv, TInv, SInv, OInv, NEW l0 \in Links, NEW h \in Ends, h[1] \in 1..Len(conns),
         Owner(h) = l0[1], Peer(h) = l0[2], NEW packet \in Sound, Says(l0, packet),
         packet.no = said[l0] + 1,
         queue' = Posted(queue, h, <<packet>>), UNCHANGED <<conns, executors, client, cut, heard>>,
         said' = [said EXCEPT ![l0] = @ + 1],
         cut[l0] = None => AllAt(l0, Other(h))
  PROVE  (\A l \in Links : InOrder(l)') /\ Adds(l0, Other(h))
<1> SUFFICES ASSUME NEW e, e = Other(h), NEW n, n = Len(queue[e]),
                    NEW y, y = [place |-> e, pos |-> n + 1, no |-> said[l0] + 1]
             PROVE  (\A l \in Links : InOrder(l)') /\ Adds(l0, e)
  OBVIOUS
<1>1. e \in Ends /\ e[1] = h[1] /\ n \in Nat /\ said[l0] \in Nat
  BY EndFacts, QueueFacts, BoundsAssumption DEF TInv, CountsFit
<1>2. y \in Items /\ y.place = e /\ y.pos = n + 1 /\ y.no = said[l0] + 1
  BY <1>1 DEF Items
<1>3. Arrives(l0, e)
  BY <1>1, EndsOfLink DEF Arrives, IInv
<1>4. \A f \in Ends : queue'[f] = IF h[1] \in standing /\ f = e THEN queue[f] \o <<packet>> ELSE queue[f]
  BY PostedQueues
<1>5. h[1] \notin standing => cut[l0] # None
  <2>1. {l0[1], l0[2]} = {Owner(h), Peer(h)}
    OBVIOUS
  <2> QED
    BY <2>1, EndIsCut DEF IInv, SInv
<1>6. ASSUME NEW l \in Links, NEW x \in Items
      PROVE  (InExecutor(l, x)' <=> InExecutor(l, x)) /\ (InCache(l, x)' <=> InCache(l, x))
  BY <1>6, ExecutorSame, CacheSame
<1>7. ASSUME NEW l \in Links, NEW x \in Items
      PROVE  /\ Rides(l, x) => Rides(l, x)'
             /\ Rides(l, x)' => Rides(l, x) \/ (l = l0 /\ x = y)
             /\ h[1] \in standing => Rides(l0, y)'
  <2>1. CASE h[1] \notin standing
    <3>1. InQueue(l, x)' <=> InQueue(l, x)
      BY <1>4, <2>1, QueueSame
    <3> QED
      BY <1>6, <2>1, <3>1 DEF Rides
  <2>2. CASE h[1] \in standing
    <3>1. <<packet>> \in Seq(Sound) /\ Len(<<packet>>) = 1 /\ <<packet>>[1] = packet
      OBVIOUS
    <3>2. 1..1 = {1}
      OBVIOUS
    <3>3. ASSUME NEW m \in Links, NEW z \in Items, z.place = e
          PROVE  InQueue(m, z)' <=> InQueue(m, z) \/ (/\ Arrives(m, e) /\ z.pos = n + 1
                                                      /\ Says(m, packet) /\ z.no = packet.no)
      <4>1. queue'[z.place] = queue[z.place] \o <<packet>>
        BY <1>1, <1>4, <2>2, <3>3
      <4>2. PICK ps \in Seq(Sound) : ps = <<packet>>
        BY <3>1
      <4>3. z.place \in Ends /\ queue'[z.place] = queue[z.place] \o ps /\ conns' = conns
        BY <1>1, <3>3, <4>1, <4>2
      <4>4. InQueue(m, z)' <=>
              \/ InQueue(m, z)
              \/ /\ Arrives(m, z.place)
                 /\ \E i \in 1..Len(ps) : /\ z.pos = Len(queue[z.place]) + i
                                           /\ Says(m, ps[i]) /\ z.no = ps[i].no
        BY <4>3, AppendedRides
      <4>5. Len(ps) = 1 /\ ps[1] = packet
        BY <3>1, <4>2
      <4> QED
        BY <3>2, <3>3, <4>4, <4>5
    <3>4. ASSUME NEW m \in Links, Arrives(m, e), Says(m, packet) PROVE m = l0
      <4>1. m[1] = l0[1] /\ m[2] = l0[2]
        BY <1>3, <3>4 DEF Arrives
      <4>2. m[3] = l0[3]
        BY <3>4 DEF Says
      <4> QED
        BY <4>1, <4>2, LinkFacts
    <3>5. InQueue(l0, y)'
      BY <1>2, <1>3, <3>3
    <3>6. ASSUME x.place # e PROVE InQueue(l, x)' <=> InQueue(l, x)
      BY <1>4, <3>6, QueueSame
    <3>7. ASSUME x.place = e, InQueue(l, x)', ~InQueue(l, x) PROVE l = l0 /\ x = y
      BY <1>2, <3>3, <3>4, <3>7, SameItem
    <3>8. InQueue(l, x) => InQueue(l, x)'
      BY <3>3, <3>6
    <3> QED
      BY <1>6, <3>5, <3>6, <3>7, <3>8 DEF Rides
  <2> QED
    BY <2>1, <2>2
<1>8. CutsKeep
  BY CutsSame
<1>9. ASSUME NEW l \in Links, l # l0 PROVE InOrder(l)'
  <2>1. said'[l] = said[l] /\ heard'[l] = heard[l]
    BY <1>9 DEF TInv, CountsFit
  <2>2. \A x \in Items : Rides(l, x)' <=> Rides(l, x)
    BY <1>7, <1>9
  <2> QED
    BY <1>8, <2>1, <2>2, Unmoved DEF OInv
<1>10. InOrder(l0)'
  <2>1. said'[l0] = said[l0] + 1 /\ heard'[l0] = heard[l0] /\ InOrder(l0)
    BY DEF TInv, CountsFit, OInv
  <2>2. /\ \A x \in Items : Rides(l0, x)' => Rides(l0, x) \/ x = y
        /\ \A x \in Items : Rides(l0, x) => Rides(l0, x)'
    BY <1>7
  <2>3. ASSUME cut'[l0] = None, NEW x \in OnTheWay(l0) PROVE x.place = y.place /\ x.pos < y.pos
    <3>1. x \in Items /\ Rides(l0, x) /\ x.place = e
      BY <2>3 DEF OnTheWay, AllAt
    <3>2. InQueue(l0, x) => x.pos \in 1..n
      BY <3>1 DEF InQueue
    <3>3. x.pos \in Int /\ ~InCache(l0, x) /\ (InExecutor(l0, x) => x.pos <= 0)
      BY <1>1, <3>1, ItemFacts, PartsOfItem
    <3>4. x.pos < n + 1
      BY <1>1, <3>1, <3>2, <3>3 DEF Rides
    <3> QED
      BY <1>2, <3>1, <3>4
  <2>4. cut'[l0] = None => Rides(l0, y)'
    BY <1>2, <1>5, <1>7
  <2> QED
    BY <1>2, <1>8, <2>1, <2>2, <2>3, <2>4, SaidMore
<1>11. Adds(l0, e)
  BY <1>2, <1>7 DEF Adds
<1> QED
  BY <1>9, <1>10, <1>11

(* A link of requests that was not cut has one end to arrive at.           *)
LEMMA OneEnd ==
  ASSUME IInv, SInv, NEW l \in Links, l[3] \in Tables, kind[l[2]] = "db", cut[l] = None,
         NEW e \in Ends, NEW f \in Ends, Arrives(l, e), Arrives(l, f)
  PROVE  e = f
<1>1. ASSUME NEW g \in Ends, Arrives(l, g)
      PROVE  g[1] \in 1..Len(conns) /\ Joins(g[1], l[1], l[2]) /\ g[2] = "acceptor"
  <2>1. g[1] \in 1..Len(conns) /\ Owner(g) = l[2] /\ Peer(g) = l[1]
    BY <1>1 DEF Arrives
  <2>2. Owner(g) # conns[g[1]].dialer
    BY <2>1 DEF SInv, GamesDial
  <2> QED
    BY <2>1, <2>2, EndsOfLink DEF IInv, Joins
<1>2. e[1] = f[1]
  <2>1. l = <<l[1], l[2], l[3]>> /\ l[1] \in Procs /\ l[2] \in Procs
    BY LinkFacts
  <2> QED
    BY <1>1, <2>1 DEF SInv, RequestsAreTogether
<1>3. e = <<e[1], e[2]>> /\ f = <<f[1], f[2]>>
  BY DEF Ends
<1> QED
  BY <1>1, <1>2, <1>3

(* DbOpt writes to the one connection the requests of its link have.       *)
LEMMA DbOptOrder ==
  ASSUME IInv, TInv, SInv, OInv, NEW p \in Procs, NEW d \in Procs, NEW t \in Tables, DbOpt(p, d, t)
  PROVE  OInv'
<1> SUFFICES ASSUME NEW l0, l0 = <<p, d, t>>, NEW h, h = client[p][byProcess[p][d]].handler,
                    NEW packet, packet = [what |-> "add_executor", about |-> t, no |-> Number(l0)]
             PROVE  OInv'
  OBVIOUS
<1>1. /\ kind[d] = "db" /\ byProcess[p][d] # None /\ Spoken < MaxSaid
      /\ queue' = Posted(queue, h, <<packet>>)
      /\ UNCHANGED <<conns, executors, client, byAddress, cut, heard>>
      /\ said' = [said EXCEPT ![l0] = @ + 1]
  BY DEF DbOpt, mapVars
<1>2. l0 \in Links /\ l0[1] = p /\ l0[2] = d /\ l0[3] = t
  BY DEF Links
<1>3. h \in Ends /\ h[1] \in 1..Len(conns) /\ Owner(h) = p /\ Peer(h) = d
  <2>1. byProcess[p][d] \in Names
    BY <1>1 DEF IInv, Shape
  <2>2. PICK n \in Names : n = byProcess[p][d]
    BY <2>1
  <2>3. LedBy(p, n, d)
    BY <2>2 DEF IInv, EntriesLead
  <2>4. h \in Ends /\ bySocket[h] # None /\ Owner(h) = p /\ Peer(h) = d
    BY <2>2, <2>3, NamesAssumption DEF LedBy
  <2>5. stage[h] # "none"
    BY <2>4 DEF IInv, OpenEndsHaveClients
  <2> QED
    BY <2>4, <2>5, SeenOwners
<1>4. packet \in Sound /\ Says(l0, packet) /\ packet.no = said[l0] + 1
  <2>1. Number(l0) \in 1..MaxSaid /\ Number(l0) = said[l0] + 1
    BY <1>1, <1>2, RequestFits DEF TInv, CountsFit
  <2>2. t # "entity"
    BY BoundsAssumption
  <2>3. Number(l0) > 0 /\ Number(l0) \in 0..MaxSaid
    BY <2>1, BoundsAssumption
  <2> QED
    BY <1>2, <2>1, <2>2, <2>3 DEF Sound, Message, Says
<1>8. ASSUME cut[l0] = None, NEW x \in Items, Rides(l0, x) PROVE x.place = Other(h)
  <2>1. x.place \in Ends /\ Arrives(l0, x.place)
    <3>1. ~InCache(l0, x)
      BY <1>2, BoundsAssumption DEF InCache
    <3> QED
      BY <1>2, <1>8, <3>1, PartsOfItem DEF Rides, InQueue, InExecutor
  <2>2. Arrives(l0, Other(h)) /\ Other(h) \in Ends
    BY <1>2, <1>3, EndFacts, EndsOfLink DEF Arrives, IInv
  <2> QED
    BY <1>1, <1>2, <1>8, <2>1, <2>2, OneEnd
<1>5. cut[l0] = None => AllAt(l0, Other(h))
  BY <1>8 DEF AllAt
<1>6. (\A l \in Links : InOrder(l)') /\ Adds(l0, Other(h))
  BY <1>1, <1>2, <1>3, <1>4, <1>5, PostOrder
<1>7. ASSUME NEW r \in Procs, NEW s \in Procs, cut'[Calls(r, s)] = None PROVE Together(r, s)'
  <2>1. Place(r, s)' = Place(r, s)
    BY <1>1, PlaceSame
  <2>2. Calls(r, s) # l0 /\ Calls(r, s) \in Links
    BY <1>2, CallsAreLinks, BoundsAssumption
  <2>3. \A x \in Items : Rides(Calls(r, s), x)' =>
          \E y \in Items : Rides(Calls(r, s), y) /\ y.place = x.place
    BY <1>6, <2>2 DEF Adds
  <2>4. /\ byAddress'[r][s] = byAddress[r][s] /\ CutsKeep
        /\ said'[Calls(r, s)] = said[Calls(r, s)]
    BY <1>1, <2>2, CutsSame DEF TInv, CountsFit
  <2> QED
    BY <1>7, <2>1, <2>3, <2>4, TogetherStays DEF OInv
<1> QED
  BY <1>6, <1>7, AllTogether

(* One place more.                                                         *)
LEMMA OneFurther ==
  ASSUME NEW i \in Int, NEW n \in Nat
  PROVE  (i \in 1..n+1 <=> i \in 1..n \/ i = n + 1) /\ (i \in 1..n => i < n + 1 /\ i # n + 1)
  OBVIOUS

(* What is said next waits in the cache of a client.                       *)
Caches(p, q, call) ==
  \A a \in Procs, b \in Procs : client'[a][b].cache =
    IF a = p /\ b = q THEN Append(client[p][q].cache, call) ELSE client[a][b].cache
(* A call that a waiting client keeps is behind all others of its link.    *)
LEMMA CacheOrder ==
  ASSUME IInv, TInv, SInv, OInv, CutsKeep, NEW p \in Procs, NEW q \in Procs,
         NEW r, NEW s, Connect(r, s) \/ UNCHANGED conns, UNCHANGED <<queue, executors, heard>>,
         NEW l0, l0 = Calls(p, q), said' = [said EXCEPT ![l0] = @ + 1],
         NEW call, call.no = said[l0] + 1,
         Caches(p, q, call),
         cut'[l0] = None => AllAt(l0, None)
  PROVE  (\A l \in Links : InOrder(l)') /\ Adds(l0, None)
<1> SUFFICES ASSUME NEW n, n = Len(client[p][q].cache),
                    NEW y, y = [place |-> None, pos |-> n + 1, no |-> said[l0] + 1]
             PROVE  (\A l \in Links : InOrder(l)') /\ Adds(l0, None)
  OBVIOUS
<1>1. l0 \in Links /\ l0[1] = p /\ l0[2] = q /\ l0[3] = "entity"
  BY CallsAreLinks
<1>2. PICK c \in Seq(SoundCalls) : c = client[p][q].cache
  BY NamesAssumption DEF TInv, CachesFit, Names
<1>3. said[l0] \in Nat /\ n \in Nat
  BY <1>1, <1>2, BoundsAssumption DEF TInv, CountsFit
<1>4. y \in Items /\ y.place = None /\ y.pos = n + 1 /\ y.no = said[l0] + 1
  BY <1>3 DEF Items
<1>5. ASSUME NEW l \in Links, NEW x \in Items
      PROVE  (InQueue(l, x)' <=> InQueue(l, x)) /\ (InExecutor(l, x)' <=> InExecutor(l, x))
  BY ExecutorSame, QueueSame
<1>6. ASSUME NEW l \in Links, NEW x \in Items, l # l0 PROVE InCache(l, x)' <=> InCache(l, x)
  <2>1. l[3] = "entity" => ~(l[1] = p /\ l[2] = q)
    BY <1>1, <1>6, LinkFacts
  <2> QED
    BY <2>1, LinkFacts, CacheSame DEF Caches
<1>7. ASSUME NEW x \in Items PROVE InCache(l0, x)' <=> InCache(l0, x) \/ x = y
  <2>1. client'[p][q].cache = Append(c, call) /\ Kept(l0) = c /\ Kept(l0)' = client'[p][q].cache
    BY <1>1, <1>2 DEF Kept, Caches
  <2>2. PICK d : d = Append(c, call)
    OBVIOUS
  <2>3. Len(d) = n + 1 /\ d[n + 1] = call /\ \A i \in 1..n : d[i] = c[i]
    BY <1>2, <2>2
  <2>4. InCache(l0, x)' <=> x.place = None /\ x.pos \in 1..n+1 /\ x.no = d[x.pos].no
    BY <1>1, <2>1, <2>2, <2>3 DEF InCache
  <2>5. InCache(l0, x) <=> x.place = None /\ x.pos \in 1..n /\ x.no = c[x.pos].no
    BY <1>1, <1>2, <2>1 DEF InCache
  <2>6. x.pos \in Int
    BY ItemFacts
  <2>7. x = y <=> x.place = None /\ x.pos = n + 1 /\ x.no = call.no
    <3>1. y.place = None /\ y.pos = n + 1 /\ y.no = call.no
      BY <1>4
    <3> QED
      BY <1>4, <3>1, SameItem
  <2>8. (x.pos \in 1..n+1 <=> x.pos \in 1..n \/ x.pos = n + 1) /\ (x.pos \in 1..n => x.pos # n + 1)
    BY <1>3, <2>6, OneFurther
  <2> QED
    BY <2>3, <2>4, <2>5, <2>7, <2>8
<1>8. ASSUME NEW l \in Links, l # l0, NEW x \in Items PROVE Rides(l, x)' <=> Rides(l, x)
  BY <1>5, <1>6, <1>8 DEF Rides
<1>9. ASSUME NEW x \in Items PROVE Rides(l0, x)' <=> Rides(l0, x) \/ x = y
  BY <1>1, <1>5, <1>7 DEF Rides
<1>10. ASSUME NEW l \in Links, l # l0 PROVE InOrder(l)'
  <2>1. said'[l] = said[l] /\ heard'[l] = heard[l]
    BY <1>10 DEF TInv, CountsFit
  <2> QED
    BY <1>8, <1>10, <2>1, Unmoved DEF OInv
<1>11. InOrder(l0)'
  <2>1. said'[l0] = said[l0] + 1 /\ heard'[l0] = heard[l0] /\ InOrder(l0)
    BY <1>1 DEF TInv, CountsFit, OInv
  <2>2. ASSUME cut'[l0] = None, NEW x \in OnTheWay(l0) PROVE x.place = y.place /\ x.pos < y.pos
    <3>1. x \in Items /\ Rides(l0, x) /\ x.place = None
      BY <2>2 DEF OnTheWay, AllAt
    <3>2. InCache(l0, x)
      BY <1>1, <3>1, PartsOfItem DEF Rides
    <3>3. x.pos \in 1..n
      BY <1>1, <3>2 DEF InCache, Kept
    <3> QED
      BY <1>3, <1>4, <3>1, <3>3
  <2>3. Rides(l0, y)'
    BY <1>4, <1>9
  <2> QED
    BY <1>1, <1>4, <1>9, <2>1, <2>2, <2>3, SaidMore
<1> QED
  BY <1>4, <1>8, <1>9, <1>10, <1>11 DEF Adds

(* The end that a name that leads is for.                                  *)
LEMMA LedEnd ==
  ASSUME IInv, NEW p \in Procs, NEW q \in Procs, NEW n \in Names, LedBy(p, n, q),
         NEW h, h = client[p][n].handler
  PROVE  /\ h \in Ends /\ h # None /\ h[1] \in 1..Len(conns) /\ Owner(h) = p /\ Peer(h) = q
         /\ client[p][n].live
<1>1. h \in Ends /\ bySocket[h] # None /\ Owner(h) = p /\ Peer(h) = q
  BY NamesAssumption DEF LedBy
<1>2. stage[h] # "none"
  BY <1>1 DEF IInv, OpenEndsHaveClients
<1>3. h # None
  BY <1>1, NamesAssumption DEF Names
<1> QED
  BY <1>1, <1>2, <1>3, SeenOwners DEF LedBy

PlacesStay(p, q) ==
  \A r \in Procs, s \in Procs : ~(r = p /\ s = q) =>
    /\ byAddress'[r][s] = byAddress[r][s]
    /\ byAddress[r][s] # None => Place(r, s)' = Place(r, s)
(* A call goes where the calls of its link are.                            *)
LEMMA CalledTogether ==
  ASSUME TInv, OInv, CutsKeep, NEW p \in Procs, NEW q \in Procs, NEW l0, l0 = Calls(p, q),
         said' = [said EXCEPT ![l0] = @ + 1], NEW place, Place(p, q)' = place, byAddress'[p][q] # None,
         cut'[l0] = None => AllAt(l0, place), Adds(l0, place),
         \A l \in Links : InOrder(l)', PlacesStay(p, q)
  PROVE  OInv'
<1>1. \A r, s : Calls(r, s)' = Calls(r, s)
  BY DEF Calls
<1>2. ASSUME NEW r \in Procs, NEW s \in Procs, cut'[Calls(r, s)] = None PROVE Together(r, s)'
  <2>1. CASE r = p /\ s = q
    <3>1. \A x \in Items : Rides(Calls(p, q), x)' => x.place = place
      BY <1>2, <2>1, CallsAreLinks DEF AllAt, Adds
    <3>2. (\A x \in Items : Rides(Calls(p, q), x) => x.place = Place(p, q))'
      BY <1>1, <3>1
    <3> QED
      BY <2>1, <3>2 DEF Together
  <2>2. CASE ~(r = p /\ s = q)
    <3>1. Calls(r, s) # l0 /\ Calls(r, s) \in Links
      BY <2>2, CallsAreLinks DEF Calls
    <3>2. said'[Calls(r, s)] = said[Calls(r, s)]
      BY <3>1 DEF TInv, CountsFit
    <3>3. \A x \in Items : Rides(Calls(r, s), x)' =>
            \E y \in Items : Rides(Calls(r, s), y) /\ y.place = x.place
      BY <3>1 DEF Adds
    <3> QED
      BY <1>2, <2>2, <3>2, <3>3, TogetherStays DEF OInv, PlacesStay
  <2> QED
    BY <2>1, <2>2
<1> QED
  BY <1>2, AllTogether

(* CallEntity writes or keeps the call, where the map of addresses says.   *)
LEMMA CallEntityOrder ==
  ASSUME IInv, TInv, SInv, OInv, NEW p \in Procs, NEW q \in Procs, CallEntity(p, q)
  PROVE  OInv'
<1> SUFFICES ASSUME NEW l0, l0 = Calls(p, q), NEW n, n = byAddress[p][q],
                    NEW call, call = [what |-> "entity", about |-> "entity", no |-> Number(l0)]
             PROVE  OInv'
  OBVIOUS
<1> DEFINE Sends ==
             /\ n # None /\ client[p][n].handler # None
             /\ queue' = Posted(queue, client[p][n].handler, <<call>>)
             /\ UNCHANGED <<conns, standing, stage, client, byAddress, cut>>
           Keeps ==
             /\ n # None /\ client[p][n].handler = None
             /\ client' = [client EXCEPT ![p][n].cache = Cached(@, call)]
             /\ UNCHANGED <<netVars, byAddress, cut>>
           Opens ==
             /\ n = None
             /\ client' = [client EXCEPT ![p][q] = [live |-> TRUE, handler |-> None, cache |-> <<call>>]]
             /\ byAddress' = [byAddress EXCEPT ![p][q] = q]
             /\ \/ Connect(p, q) /\ UNCHANGED cut
                \/ Cut(Between(p, q)) /\ UNCHANGED <<conns, standing, stage>>
             /\ UNCHANGED queue
<1>1. /\ Spoken < MaxSaid /\ said' = [said EXCEPT ![l0] = @ + 1]
      /\ UNCHANGED <<executors, heard>>
  BY DEF CallEntity, Calls
<1>2. l0 \in Links /\ l0[1] = p /\ l0[2] = q /\ l0[3] = "entity" /\ l0 = <<p, q, "entity">>
  BY CallsAreLinks DEF Calls
<1>3. call \in SoundCalls /\ call \in Sound /\ Says(l0, call) /\ call.no = said[l0] + 1
  <2>1. Number(l0) \in 1..MaxSaid /\ Number(l0) = said[l0] + 1
    BY <1>1, <1>2, RequestFits DEF TInv, CountsFit
  <2>2. Number(l0) > 0 /\ Number(l0) \in 0..MaxSaid
    BY <2>1, BoundsAssumption
  <2> QED
    BY <1>2, <2>1, <2>2 DEF Sound, SoundCalls, Message, Says
<1>4. Procs \subseteq Names /\ None \notin Names /\ None \notin Ends
  BY NamesAssumption DEF Names
<1>5. n \in Names \cup {None} /\ client \in [Procs -> [Names -> Plain]]
  BY DEF IInv, Shape
<1>6. n # None => LedBy(p, n, q) \/ (Waits(p, q) /\ n = q)
  BY <1>5 DEF IInv, EntriesLead, Waits
<1>7. CASE Sends
  <2> SUFFICES ASSUME NEW h, h = client[p][n].handler PROVE OInv'
    OBVIOUS
  <2>1. ~Waits(p, q) /\ LedBy(p, n, q)
    BY <1>6, <1>7 DEF Waits
  <2>2. h \in Ends /\ h[1] \in 1..Len(conns) /\ Owner(h) = p /\ Peer(h) = q
    BY <1>5, <1>7, <2>1, LedEnd
  <2>3. Place(p, q) = Other(h) /\ Place(p, q)' = Other(h)
    BY <1>7, <2>1, PlaceSame DEF Place
  <2>4. cut[l0] = None => AllAt(l0, Other(h))
    BY <1>7, <2>3 DEF AllAt, OInv, CallsAreTogether, Together
  <2>5. (\A l \in Links : InOrder(l)') /\ Adds(l0, Other(h))
    BY <1>1, <1>2, <1>3, <1>7, <2>2, <2>4, PostOrder
  <2>6. PlacesStay(p, q)
    BY <1>7, PlaceSame DEF PlacesStay
  <2>7. cut'[l0] = None => AllAt(l0, Other(h))
    BY <1>7, <2>4
  <2>8. byAddress'[p][q] # None /\ CutsKeep
    BY <1>7, CutsSame
  <2> QED
    BY <1>1, <2>3, <2>5, <2>6, <2>7, <2>8, CalledTogether
<1>8. CASE Keeps
  <2>1. Waits(p, q) /\ n = q
    <3>1. ~LedBy(p, n, q)
      BY <1>4, <1>8 DEF LedBy
    <3> QED
      BY <1>6, <1>8, <3>1
  <2>2. UNCHANGED <<conns, queue>> /\ CutsKeep
    BY <1>8, CutsSame DEF netVars
  <2>3. \A a \in Procs, m \in Names :
          /\ client'[a][m].cache = IF a = p /\ m = q THEN Append(client[p][q].cache, call)
                                   ELSE client[a][m].cache
          /\ client'[a][m].live = client[a][m].live /\ client'[a][m].handler = client[a][m].handler
    BY <1>5, <1>8, <2>1 DEF Cached, Plain
  <2>4. \A r \in Procs, s \in Procs : byAddress'[r][s] = byAddress[r][s]
    BY <1>8
  <2>5. \A r \in Procs, s \in Procs : byAddress[r][s] # None => Place(r, s)' = Place(r, s)
    <3> SUFFICES ASSUME NEW r \in Procs, NEW s \in Procs, byAddress[r][s] # None
                 PROVE  Place(r, s)' = Place(r, s)
      OBVIOUS
    <3>1. byAddress[r][s] \in Names
      BY DEF IInv, Shape
    <3> QED
      BY <1>4, <2>3, <2>4, <3>1, PlaceSame
  <2>6. Place(p, q) = None /\ Place(p, q)' = None
    BY <1>8, <2>1, <2>5 DEF Place
  <2>7. cut'[l0] = None => AllAt(l0, None)
    BY <1>8, <2>6 DEF AllAt, OInv, CallsAreTogether, Together
  <2>8. Caches(p, q, call) /\ PlacesStay(p, q)
    BY <1>4, <2>3, <2>4, <2>5 DEF Caches, PlacesStay
  <2>9. (\A l \in Links : InOrder(l)') /\ Adds(l0, None)
    BY <1>1, <1>3, <2>2, <2>7, <2>8, CacheOrder
  <2> QED
    BY <1>1, <1>8, <2>2, <2>6, <2>7, <2>8, <2>9, CalledTogether
<1>9. CASE Opens
  <2>1. ~client[p][q].live /\ ~Waits(p, q)
    BY <1>4, <1>9 DEF IInv, NamesFit, Waits
  <2>2. client[p][q].cache = <<>>
    BY <1>4, <2>1 DEF SInv, CachesWait
  <2>3. CutsKeep /\ (Connect(p, q) \/ UNCHANGED conns) /\ UNCHANGED queue
    BY <1>9, CutsStay, CutsSame
  <2>4. \A a \in Procs, m \in Names :
          client'[a][m] = IF a = p /\ m = q THEN [live |-> TRUE, handler |-> None, cache |-> <<call>>]
                          ELSE client[a][m]
    BY <1>4, <1>5, <1>9
  <2>5. \A r \in Procs, s \in Procs :
          byAddress'[r][s] = IF r = p /\ s = q THEN q ELSE byAddress[r][s]
    BY <1>9 DEF IInv, Shape
  <2>6. PlacesStay(p, q)
    <3> SUFFICES ASSUME NEW r \in Procs, NEW s \in Procs, ~(r = p /\ s = q), byAddress[r][s] # None
                 PROVE  Place(r, s)' = Place(r, s)
      BY <2>5 DEF PlacesStay
    <3> SUFFICES ASSUME NEW m, m = byAddress[r][s] PROVE Place(r, s)' = Place(r, s)
      OBVIOUS
    <3>1. m \in Names
      BY DEF IInv, Shape
    <3>2. ~(r = p /\ m = q)
      <4>1. LedBy(r, m, s) \/ (Waits(r, s) /\ m = s)
        BY <3>1 DEF IInv, EntriesLead, Waits
      <4>2. LedBy(r, m, s) => client[r][m].live
        BY DEF LedBy
      <4> QED
        BY <2>1, <4>1, <4>2
    <3>3. client'[r][m] = client[r][m] /\ client'[r][s] = client[r][s]
      BY <1>4, <2>4, <3>1, <3>2
    <3> QED
      BY <2>5, <3>3, PlaceSame
  <2>7. byAddress'[p][q] # None /\ Place(p, q)' = None
    <3>1. byAddress'[p][q] = q /\ client'[p][q].live /\ client'[p][q].handler = None
      BY <1>4, <2>4, <2>5
    <3>2. Waits(p, q)'
      BY <3>1 DEF Waits
    <3> QED
      BY <1>4, <3>1, <3>2 DEF Place
  <2>8. cut'[l0] = None => AllAt(l0, None)
    <3> SUFFICES ASSUME cut'[l0] = None PROVE \A x \in Items : ~Rides(l0, x)
      BY DEF AllAt
    <3>1. cut[l0] = None
      BY <1>2, <2>3 DEF CutsKeep
    <3>2. said[l0] = 0
      BY <1>9, <3>1 DEF OInv, CallsAreTogether, Together
    <3>3. \A x \in Items : Rides(l0, x) => x.no \in 1..0
      BY <1>2, <3>2 DEF OInv, InOrder
    <3> QED
      BY <3>3
  <2>9. Caches(p, q, call)
    BY <1>4, <2>2, <2>4 DEF Caches
  <2>10. (\A l \in Links : InOrder(l)') /\ Adds(l0, None)
    BY <1>1, <1>3, <2>3, <2>8, <2>9, CacheOrder
  <2> QED
    BY <1>1, <2>3, <2>6, <2>7, <2>8, <2>10, CalledTogether
<1>10. Sends \/ Keeps \/ Opens
  BY <1>2 DEF CallEntity
<1> QED
  BY <1>7, <1>8, <1>9, <1>10

(* A request goes from the head of a queue behind those an executor has.   *)
Down(y) == [place |-> y.place, pos |-> y.pos - 1, no |-> y.no]
(* An executor that takes a request over moves those it has back by one.   *)
LEMMA DownFacts ==
  ASSUME NEW y \in Items
  PROVE  /\ Down(y) \in Items /\ Down(y).place = y.place /\ Down(y).pos = y.pos - 1
         /\ Down(y).no = y.no /\ Up(Down(y)) = y
<1>1. y.pos \in Int /\ y.place \in Ends \cup {None} /\ y.no \in Nat
  BY ItemFacts
<1>2. /\ Down(y) \in Items /\ Down(y).place = y.place /\ Down(y).pos = y.pos - 1
      /\ Down(y).no = y.no
  BY <1>1 DEF Down, Items
<1>3. /\ Up(Down(y)) \in Items /\ Up(Down(y)).place = y.place /\ Up(Down(y)).no = y.no
      /\ Up(Down(y)).pos = y.pos - 1 + 1
  BY <1>2, UpFacts
<1>4. y.pos - 1 + 1 = y.pos
  BY <1>1
<1> QED
  BY <1>2, <1>3, <1>4, SameItem

LEMMA QueuedRides ==
  ASSUME TInv, UNCHANGED conns, NEW l \in Links, NEW x \in Items, l[3] \in Tables,
         NEW r, executors'[l[2]][l[3]] = Append(Asked(l), r)
  PROVE  InExecutor(l, x)' <=>
           \/ x.pos < 0 /\ InExecutor(l, Up(x))
           \/ x.pos = 0 /\ x.place = r.from /\ x.no = r.no /\ Arrives(l, x.place)
<1>1. PICK s \in Seq(Request) : s = Asked(l)
  BY LinkFacts DEF TInv, Asked
<1>2. PICK t : t = Append(s, r)
  OBVIOUS
<1>3. PICK n \in Nat : n = Len(s)
  BY <1>1
<1>4. Len(t) = n + 1 /\ t[n + 1] = r /\ \A i \in 1..n : t[i] = s[i]
  BY <1>2, <1>3
<1>5. Asked(l)' = t
  BY <1>1, <1>2 DEF Asked
<1>6. Arrives(l, x.place)' <=> Arrives(l, x.place)
  BY DEF Arrives, Owner, Peer, Other
<1>7. PICK i \in Int : i = x.pos + (n + 1) /\ i = x.pos + 1 + n /\ i = x.pos + n + 1
  <2>1. PICK v : v = x.pos
    OBVIOUS
  <2>2. v \in Int
    BY <2>1, ItemFacts
  <2>3. /\ v + (n + 1) \in Int /\ v + (n + 1) = v + 1 + n
        /\ v + (n + 1) = v + n + 1
    BY ONLY n \in Nat, <2>2
  <2> QED
    BY <2>1, <2>3
<1>8. InExecutor(l, x)' <=> i \in 1..n+1 /\ x.place = t[i].from /\ x.no = t[i].no /\ Arrives(l, x.place)
  BY <1>4, <1>5, <1>6, <1>7 DEF InExecutor
<1>9. InExecutor(l, Up(x)) <=> i \in 1..n /\ x.place = s[i].from /\ x.no = s[i].no /\ Arrives(l, x.place)
  BY <1>1, <1>3, <1>7, UpFacts DEF InExecutor
<1>10. (i \in 1..n+1 <=> i \in 1..n \/ i = n + 1) /\ (i \in 1..n => i # n + 1)
  BY OneFurther
<1>11. (i = n + 1 <=> x.pos = 0) /\ (i \in 1..n => x.pos < 0)
  BY <1>3, <1>7, ItemFacts
<1> QED
  BY <1>4, <1>8, <1>9, <1>10, <1>11

(* AddExecutor moves the head of a queue behind what the executor has,     *)
(* ahead of what the queue still holds.                                    *)
LEMMA AddedMoves ==
  ASSUME IInv, TInv, SInv, NEW e \in Ends, queue[e] # <<>>, queue' = [queue EXCEPT ![e] = Tail(@)],
         UNCHANGED <<conns, client>>, NEW l \in Links, l[3] \in Tables,
         Head(queue[e]).what = "add_executor", Head(queue[e]).about = l[3],
         executors'[l[2]][l[3]] = Append(Asked(l), [from |-> e, no |-> Head(queue[e]).no]),
         NEW f, f = [x \in Items |-> IF x.place = e \/ x.pos <= 0 THEN Up(x) ELSE x]
  PROVE  Moves(l, f) /\ ~Loses(l, f)
<1> SUFFICES ASSUME NEW n, n = Head(queue[e]).no PROVE Moves(l, f) /\ ~Loses(l, f)
  OBVIOUS
<1>1. \A x \in Items : f[x] = IF x.place = e \/ x.pos <= 0 THEN Up(x) ELSE x
  OBVIOUS
<1>2. \A x \in Items : x.place \in Ends /\ x.place # e => queue'[x.place] = queue[x.place]
  BY DEF TInv, QueuesFit
<1>3. queue'[e] = Tail(queue[e])
  BY DEF TInv, QueuesFit
<1>4. ASSUME NEW x \in Items, x.place # e PROVE InQueue(l, x)' <=> InQueue(l, x)
  BY <1>2, <1>4, QueueSame
<1>5. ASSUME NEW x \in Items, x.place = e PROVE InQueue(l, x)' <=> x.pos > 0 /\ InQueue(l, Up(x))
  BY <1>3, <1>5, TakenRides
<1>6. ASSUME NEW x \in Items
      PROVE  InExecutor(l, x)' <=> \/ x.pos < 0 /\ InExecutor(l, Up(x))
                                   \/ x.pos = 0 /\ x.place = e /\ x.no = n /\ Arrives(l, e)
  <2> SUFFICES ASSUME NEW r, r = [from |-> e, no |-> n]
               PROVE  InExecutor(l, x)' <=> \/ x.pos < 0 /\ InExecutor(l, Up(x))
                                            \/ x.pos = 0 /\ x.place = e /\ x.no = n /\ Arrives(l, e)
    OBVIOUS
  <2>1. executors'[l[2]][l[3]] = Append(Asked(l), r) /\ r.from = e /\ r.no = n
    OBVIOUS
  <2> QED
    BY <2>1, QueuedRides
<1>7. ASSUME NEW x \in Items PROVE ~InCache(l, x)' /\ ~InCache(l, x)
  BY BoundsAssumption DEF InCache
<1>8. ASSUME NEW y \in Items, y.place = e, y.pos = 1
      PROVE  InQueue(l, y) <=> Arrives(l, e) /\ y.no = n
  <2>1. Says(l, Head(queue[e]))
    BY BoundsAssumption DEF Says
  <2>2. 1 \in 1..Len(queue[e]) /\ queue[e][1] = Head(queue[e])
    <3>1. queue[e] \in Seq(Sound)
      BY QueueFacts
    <3> QED
      BY <3>1
  <2> QED
    BY <1>8, <2>1, <2>2 DEF InQueue, Says
<1>9. ASSUME NEW x \in Items
      PROVE  /\ InQueue(l, x)' => x.pos > 0
             /\ InExecutor(l, x)' => x.pos <= 0 /\ (x.pos = 0 => x.place = e)
             /\ x.pos \in Int
  <2>1. x.pos \in Int /\ Up(x) \in Items /\ Up(x).pos = x.pos + 1
    BY ItemFacts, UpFacts
  <2>2. InExecutor(l, Up(x)) => Up(x).pos <= 0
    BY <2>1, PartsOfItem
  <2>3. InQueue(l, x)' => x.pos > 0
    BY <1>4, <1>5, PartsOfItem
  <2> QED
    BY <1>6, <2>1, <2>2, <2>3
<1>10. ASSUME NEW x \in Items, Rides(l, x)'
       PROVE  /\ f[x] \in Items /\ Rides(l, f[x]) /\ f[x].no = x.no /\ f[x].place = x.place
              /\ f[x].pos = IF x.place = e \/ x.pos < 0 THEN x.pos + 1 ELSE x.pos
              /\ x.pos = 0 => x.place = e
  <2>1. Up(x) \in Items /\ Up(x).place = x.place /\ Up(x).pos = x.pos + 1 /\ Up(x).no = x.no
    BY UpFacts
  <2>2. CASE InQueue(l, x)'
    <3>1. x.pos > 0 /\ x.pos \in Int
      BY <1>9, <2>2
    <3>2. CASE x.place = e
      BY <1>1, <1>5, <2>1, <2>2, <3>1, <3>2 DEF Rides
    <3>3. CASE x.place # e
      BY <1>1, <1>4, <2>1, <2>2, <3>1, <3>3 DEF Rides
    <3> QED
      BY <3>2, <3>3
  <2>3. CASE InExecutor(l, x)'
    <3>1. x.pos <= 0 /\ (x.pos = 0 => x.place = e) /\ x.pos \in Int
      BY <1>9, <2>3
    <3>2. f[x] = Up(x)
      BY <1>1, <3>1
    <3>3. Rides(l, Up(x))
      <4>1. CASE x.pos < 0
        BY <1>6, <2>3, <4>1 DEF Rides
      <4>2. CASE x.pos = 0
        BY <1>6, <1>8, <2>1, <2>3, <4>2 DEF Rides
      <4> QED
        BY <3>1, <4>1, <4>2
    <3> QED
      BY <2>1, <3>1, <3>2, <3>3
  <2> QED
    BY <1>7, <1>10, <2>2, <2>3 DEF Rides
<1>11. ASSUME NEW x \in Items, NEW y \in Items, Rides(l, x)', Rides(l, y)', f[x].place = f[y].place
       PROVE  /\ x.place = y.place /\ (x.pos = y.pos => f[x].pos = f[y].pos)
              /\ (x.pos < y.pos => f[x].pos < f[y].pos)
  <2>1. x.place = y.place /\ (x.pos = 0 => x.place = e) /\ (y.pos = 0 => y.place = e)
    BY <1>10, <1>11
  <2>2. /\ f[x].pos = IF x.place = e \/ x.pos < 0 THEN x.pos + 1 ELSE x.pos
        /\ f[y].pos = IF y.place = e \/ y.pos < 0 THEN y.pos + 1 ELSE y.pos
    BY <1>10, <1>11
  <2>3. x.pos \in Int /\ y.pos \in Int
    BY ItemFacts
  <2> QED
    BY <2>1, <2>2, <2>3
<1>12. ASSUME NEW y \in Items, Rides(l, y) PROVE \E z \in Items : Rides(l, z)' /\ f[z] = y
  <2>1. Down(y) \in Items /\ Down(y).place = y.place /\ Down(y).pos = y.pos - 1
        /\ Down(y).no = y.no /\ Up(Down(y)) = y /\ y.pos \in Int
    BY DownFacts, ItemFacts
  <2>2. CASE InQueue(l, y) /\ y.place # e
    <3>1. y.pos > 0
      BY <2>2, PartsOfItem
    <3>2. f[y] = y
      BY <1>1, <2>1, <2>2, <3>1
    <3> QED
      BY <1>4, <2>2, <3>2 DEF Rides
  <2>3. CASE InQueue(l, y) /\ y.place = e
    <3>1. y.pos > 0
      BY <2>3, PartsOfItem
    <3>2. f[Down(y)] = y
      BY <1>1, <2>1, <2>3
    <3>3. CASE y.pos = 1
      <4>1. Down(y).pos = 0 /\ Down(y).no = n /\ Arrives(l, e)
        BY <1>8, <2>1, <2>3, <3>3
      <4>2. InExecutor(l, Down(y))'
        BY <1>6, <2>1, <2>3, <4>1
      <4> QED
        BY <2>1, <3>2, <4>2 DEF Rides
    <3>4. CASE y.pos # 1
      <4>1. Down(y).pos > 0
        BY <2>1, <3>1, <3>4
      <4>2. InQueue(l, Down(y))'
        BY <1>5, <2>1, <2>3, <4>1
      <4> QED
        BY <2>1, <3>2, <4>2 DEF Rides
    <3> QED
      BY <3>3, <3>4
  <2>4. CASE InExecutor(l, y)
    <3>1. y.pos <= 0
      BY <2>4, PartsOfItem
    <3>2. Down(y).pos < 0 /\ Down(y).pos <= 0
      BY <2>1, <3>1
    <3>3. f[Down(y)] = y
      BY <1>1, <2>1, <3>2
    <3>4. InExecutor(l, Down(y))'
      BY <1>6, <2>1, <2>4, <3>2
    <3> QED
      BY <2>1, <3>3, <3>4 DEF Rides
  <2> QED
    BY <1>7, <1>12, <2>2, <2>3, <2>4 DEF Rides
<1>13. Moves(l, f)
  BY <1>10, <1>11, <1>12 DEF Moves
<1> QED
  BY <1>12, <1>13 DEF Loses

(* AddExecutor keeps the order: a request changes its place on the way,    *)
(* not its turn.                                                           *)
LEMMA AddExecutorOrder ==
  ASSUME IInv, TInv, SInv, OInv, NEW e \in Ends, AddExecutor(e) PROVE OInv'
<1> SUFFICES ASSUME NEW d, d = Owner(e), NEW t, t = Head(queue[e]).about,
                    NEW r, r = [from |-> e, no |-> Head(queue[e]).no]
             PROVE  OInv'
  OBVIOUS
<1>1. /\ queue[e] # <<>> /\ queue' = [queue EXCEPT ![e] = Tail(@)]
      /\ Head(queue[e]).what = "add_executor" /\ Head(queue[e]) \in Sound
      /\ UNCHANGED <<conns, client, byAddress, cut, said, heard>>
      /\ executors' = [executors EXCEPT ![d][t] = Append(@, r)]
      /\ d \in Procs
  BY ReceivesFits DEF AddExecutor, Receives, mapVars
<1>2. t \in Tables
  BY <1>1 DEF Sound
<1>3. \A c \in Procs, u \in Tables : executors'[c][u] =
        IF c = d /\ u = t THEN Append(executors[c][u], r) ELSE executors[c][u]
  BY <1>1, <1>2 DEF TInv
<1>4. ASSUME NEW l \in Links PROVE InOrder(l)'
  <2>1. l[2] \in Procs
    BY LinkFacts
  <2>2. InOrder(l) /\ heard'[l] = heard[l] /\ said'[l] = said[l] /\ CutsKeep
    BY <1>1, CutsSame DEF OInv
  <2>3. CASE l[2] = d /\ l[3] = t
    <3>1. l[3] \in Tables /\ executors'[l[2]][l[3]] = Append(Asked(l), r)
      BY <1>2, <1>3, <2>1, <2>3 DEF Asked
    <3>2. PICK f : f = [x \in Items |-> IF x.place = e \/ x.pos <= 0 THEN Up(x) ELSE x]
      OBVIOUS
    <3>3. Moves(l, f) /\ ~Loses(l, f)
      BY <1>1, <2>3, <3>1, <3>2, AddedMoves
    <3> QED
      BY <2>2, <3>3, Moved
  <2>4. CASE ~(l[2] = d /\ l[3] = t)
    <3>1. l[3] \in Tables => executors'[l[2]][l[3]] = executors[l[2]][l[3]]
      BY <1>3, <2>1, <2>4
    <3>2. ~(Says(l, Head(queue[e])) /\ Arrives(l, e))
      BY <2>4 DEF Says, Arrives
    <3> QED
      BY <1>1, <2>2, <3>1, <3>2, TakenOrder
  <2> QED
    BY <2>3, <2>4
<1>5. ASSUME NEW p \in Procs, NEW q \in Procs, cut'[Calls(p, q)] = None PROVE Together(p, q)'
  BY <1>1, <1>5, TakenTogether
<1> QED
  BY <1>4, <1>5, AllTogether

(* The place of a kept call in the queue it is flushed to.                 *)
LEMMA Difference ==
  ASSUME NEW a \in Int, NEW k \in Nat, NEW i \in Int
  PROVE  a = k + i <=> a - k = i
  OBVIOUS

(* Calls that waited go behind what is in the queue; nothing else is said. *)
LEMMA InitedRides ==
  ASSUME IInv, TInv, UNCHANGED conns, NEW e \in Ends, e[1] \in 1..Len(conns), e[1] \in standing,
         NEW cache \in Seq(SoundCalls), queue' = Posted(queue, e, Append(cache, Register)),
         NEW l \in Links, NEW x \in Items, NEW k, k = Len(queue[Other(e)])
  PROVE  /\ InQueue(l, x)' <=>
              \/ InQueue(l, x)
              \/ /\ x.place = Other(e) /\ l = Calls(Owner(e), Peer(e))
                 /\ x.pos - k \in 1..Len(cache) /\ x.no = cache[x.pos - k].no
         /\ InQueue(l, x) /\ x.place = Other(e) => x.pos <= k
<1> SUFFICES ASSUME NEW e0, e0 = Other(e), NEW packets, packets = Append(cache, Register),
                    NEW n, n = Len(cache), x.place \in Ends
             PROVE  /\ InQueue(l, x)' <=>
                         \/ InQueue(l, x)
                         \/ /\ x.place = e0 /\ l = Calls(Owner(e), Peer(e))
                            /\ x.pos - k \in 1..n /\ x.no = cache[x.pos - k].no
                    /\ InQueue(l, x) /\ x.place = e0 => x.pos <= k
  BY EndFacts DEF InQueue
<1>1. e0 \in Ends /\ e0[1] = e[1] /\ Owner(e0) = Peer(e) /\ Peer(e0) = Owner(e)
  BY EndFacts, EndsOfLink DEF IInv
<1>2. \A g \in Ends : queue'[g] = IF g = e0 THEN queue[g] \o packets ELSE queue[g]
  BY PostedQueues
<1>3. CASE x.place # e0
  BY <1>2, <1>3, QueueSame
<1>4. CASE x.place = e0
  <2>1. k \in Nat /\ n \in Nat /\ x.pos \in Int
    BY <1>1, QueueFacts, ItemFacts
  <2>2. InQueue(l, x) => x.pos <= k
    BY <1>4, <2>1 DEF InQueue
  <2>3. Register \in Sound /\ Register.what = "register_server"
    BY BoundsAssumption DEF Register, Sound, Message
  <2>4. cache \in Seq(Sound)
    BY SeqMonotonic DEF SoundCalls
  <2>5. packets \in Seq(Sound)
    BY <2>3, <2>4
  <2>6. /\ Len(packets) = n + 1 /\ packets[n + 1] = Register /\ \A i \in 1..n : packets[i] = cache[i]
    BY <2>4
  <2>7. \A i \in 1..n : cache[i].what = "entity" /\ cache[i].about = "entity"
    <3>1. \A i \in 1..n : cache[i] \in SoundCalls
      BY ElementOfSeq
    <3> QED
      BY <3>1 DEF SoundCalls, Sound
  <2>8. InQueue(l, x)' <=>
          \/ InQueue(l, x)
          \/ /\ Arrives(l, x.place)
             /\ \E i \in 1..n+1 : /\ x.pos = k + i /\ Says(l, packets[i]) /\ x.no = packets[i].no
    <3>1. /\ queue'[x.place] = queue[x.place] \o packets /\ k = Len(queue[x.place])
          /\ x.place \in Ends
      BY <1>1, <1>2, <1>4
    <3>2. InQueue(l, x)' <=>
            \/ InQueue(l, x)
            \/ /\ Arrives(l, x.place)
               /\ \E i \in 1..Len(packets) : /\ x.pos = Len(queue[x.place]) + i
                                              /\ Says(l, packets[i]) /\ x.no = packets[i].no
      BY <2>5, <3>1, AppendedRides
    <3> QED
      BY <2>6, <3>1, <3>2
  <2>9. Arrives(l, e0) <=> l[1] = Owner(e) /\ l[2] = Peer(e)
    BY <1>1 DEF Arrives
  <2>10. l = Calls(Owner(e), Peer(e)) <=> l[1] = Owner(e) /\ l[2] = Peer(e) /\ l[3] = "entity"
    BY LinkFacts DEF Calls
  <2>11. \A i \in 1..n : Says(l, packets[i]) <=> l[3] = "entity"
    BY <2>6, <2>7 DEF Says
  <2>12. ~Says(l, packets[n + 1])
    BY <2>3, <2>6 DEF Says
  <2>13. \A i \in 1..n+1 : i \in 1..n \/ i = n + 1
    BY <2>1
  <2>14. \A i \in 1..n : i \in 1..n+1 /\ packets[i] = cache[i]
    BY <2>1, <2>6
  <2>15. \A i \in 1..n : x.pos = k + i <=> x.pos - k = i
    <3> SUFFICES ASSUME NEW i \in 1..n PROVE x.pos = k + i <=> x.pos - k = i
      OBVIOUS
    <3>1. i \in Int
      OBVIOUS
    <3> QED
      BY ONLY <2>1, <3>1, Difference
  <2>16. ASSUME InQueue(l, x)', ~InQueue(l, x)
         PROVE  l = Calls(Owner(e), Peer(e)) /\ x.pos - k \in 1..n /\ x.no = cache[x.pos - k].no
    <3>1. PICK i \in 1..n+1 : x.pos = k + i /\ Says(l, packets[i]) /\ x.no = packets[i].no
      BY <2>8, <2>16
    <3>2. i \in 1..n
      BY <2>12, <2>13, <3>1
    <3>3. l = Calls(Owner(e), Peer(e))
      BY <1>4, <2>8, <2>9, <2>10, <2>11, <2>16, <3>1, <3>2
    <3>4. x.pos - k = i /\ packets[i] = cache[i]
      BY <2>14, <2>15, <3>1, <3>2
    <3> QED
      BY <3>1, <3>2, <3>3, <3>4
  <2>17. ASSUME l = Calls(Owner(e), Peer(e)), x.pos - k \in 1..n, x.no = cache[x.pos - k].no
         PROVE  InQueue(l, x)'
    <3>1. PICK i \in 1..n : x.pos - k = i
      BY <2>17
    <3> QED
      BY <1>4, <2>8, <2>9, <2>10, <2>11, <2>14, <2>15, <2>17, <3>1
  <2>18. InQueue(l, x) => InQueue(l, x)'
    BY <2>8
  <2> QED
    BY <1>4, <2>2, <2>16, <2>17, <2>18
<1> QED
  BY <1>3, <1>4

(* A new handler for which no client waits.                                *)
LEMMA NewClientOrder ==
  ASSUME IInv, TInv, SInv, OInv, NEW e \in Ends, HandleInit(e), WaitingFor(e) = e
  PROVE  OInv'
<1> SUFFICES ASSUME NEW p, p = Owner(e) PROVE OInv'
  OBVIOUS
<1>1. /\ stage[e] = "new" /\ p \in Procs /\ e[1] \in 1..Len(conns)
      /\ client' = [client EXCEPT ![p][e] = [live |-> TRUE, handler |-> e, cache |-> <<>>]]
      /\ queue' = Posted(queue, e, Append(client[p][e].cache, Register))
      /\ UNCHANGED <<conns, executors, byAddress, said, heard, cut>>
  BY SeenOwners DEF HandleInit, history
<1>2. e \in Names /\ e \notin Procs /\ Procs \subseteq Names /\ None \notin Names
  BY NamesAssumption DEF Names
<1>3. client[p][e].cache = <<>>
  BY <1>1, <1>2 DEF SInv, CachesWait
<1>4. \A r \in Procs, m \in Names : ~(r = p /\ m = e) => client'[r][m] = client[r][m]
  BY <1>1, <1>2 DEF IInv, Shape
<1>5. ASSUME NEW l \in Links, NEW x \in Items PROVE InQueue(l, x)' <=> InQueue(l, x)
  <2>1. CASE e[1] \in standing
    <3>1. <<>> \in Seq(SoundCalls) /\ Len(<<>>) = 0 /\ 1..0 = {}
      OBVIOUS
    <3>2. PICK c \in Seq(SoundCalls) : c = client[p][e].cache
      BY <1>3, <3>1
    <3>3. queue' = Posted(queue, e, Append(c, Register)) /\ 1..Len(c) = {}
      BY <1>1, <1>3, <3>1, <3>2
    <3>4. PICK k : k = Len(queue[Other(e)])
      OBVIOUS
    <3> QED
      BY <1>1, <2>1, <3>3, <3>4, InitedRides
  <2>2. CASE e[1] \notin standing
    BY <1>1, <2>2, QueueSame DEF Posted
  <2> QED
    BY <2>1, <2>2
<1>6. ASSUME NEW l \in Links, NEW x \in Items PROVE Rides(l, x)' <=> Rides(l, x)
  <2>1. client'[l[1]][l[2]] = client[l[1]][l[2]]
    BY <1>2, <1>4, LinkFacts
  <2>2. (InCache(l, x)' <=> InCache(l, x)) /\ (InExecutor(l, x)' <=> InExecutor(l, x))
    BY <1>1, <2>1, CacheSame, ExecutorSame
  <2> QED
    BY <1>5, <2>2 DEF Rides
<1>7. \A l \in Links : InOrder(l)'
  BY <1>1, <1>6, CutsSame, Unmoved DEF OInv
<1>8. ASSUME NEW r \in Procs, NEW s \in Procs, cut'[Calls(r, s)] = None PROVE Together(r, s)'
  <2>1. ASSUME byAddress[r][s] # None PROVE Place(r, s)' = Place(r, s)
    <3> SUFFICES ASSUME NEW m, m = byAddress[r][s] PROVE Place(r, s)' = Place(r, s)
      OBVIOUS
    <3>1. m \in Names
      BY <2>1 DEF IInv, Shape
    <3>2. ~(r = p /\ m = e)
      <4>1. LedBy(r, m, s) \/ Waits(r, s)
        BY <3>1 DEF IInv, EntriesLead
      <4>2. ~\E h \in Ends : bySocket[h] = e /\ Owner(h) = p
        BY <1>1, TakenOver
      <4> QED
        BY <1>2, <4>1, <4>2 DEF LedBy, Waits
    <3>3. client'[r][m] = client[r][m] /\ client'[r][s] = client[r][s]
      BY <1>2, <1>4, <3>1, <3>2
    <3> QED
      BY <1>1, <3>3, PlaceSame
  <2>2. \A x \in Items : Rides(Calls(r, s), x)' =>
          \E y \in Items : Rides(Calls(r, s), y) /\ y.place = x.place
    BY <1>6, CallsAreLinks
  <2>3. /\ byAddress'[r][s] = byAddress[r][s] /\ said'[Calls(r, s)] = said[Calls(r, s)] /\ CutsKeep
    BY <1>1, CutsSame
  <2> QED
    BY <1>8, <2>1, <2>2, <2>3, TogetherStays DEF OInv
<1> QED
  BY <1>7, <1>8, AllTogether

(* The client that waited: its calls go from its cache behind the packets  *)
(* of the other end, in order.                                             *)
LEMMA WaitingMoves ==
  ASSUME IInv, TInv, SInv, UNCHANGED <<conns, executors>>,
         NEW e \in Ends, e[1] \in 1..Len(conns), e[1] \in standing,
         NEW p \in Procs, NEW q \in Procs, p = Owner(e), q = Peer(e),
         NEW cache \in Seq(SoundCalls), cache = client[p][q].cache, client'[p][q].cache = <<>>,
         queue' = Posted(queue, e, Append(cache, Register)),
         NEW l, l = Calls(p, q), NEW k, k = Len(queue[Other(e)]),
         NEW f, f = [x \in Items |-> IF x.place = Other(e) /\ x.pos > k
                                     THEN [place |-> None, pos |-> x.pos - k, no |-> x.no] ELSE x]
  PROVE  Moves(l, f) /\ ~Loses(l, f)
<1> SUFFICES ASSUME NEW e0, e0 = Other(e), NEW n, n = Len(cache) PROVE Moves(l, f) /\ ~Loses(l, f)
  OBVIOUS
<1>1. e0 \in Ends /\ k \in Nat /\ n \in Nat /\ None \notin Ends
  BY EndFacts, QueueFacts, NamesAssumption DEF Names
<1>2. l \in Links /\ l[1] = p /\ l[2] = q /\ l[3] = "entity" /\ l[3] \notin Tables
  BY CallsAreLinks, BoundsAssumption
<1> DEFINE Comes(x) == x.place = e0 /\ x.pos - k \in 1..n /\ x.no = cache[x.pos - k].no
<1>3. ASSUME NEW x \in Items
      PROVE  /\ InQueue(l, x)' <=> InQueue(l, x) \/ Comes(x)
             /\ InQueue(l, x) /\ x.place = e0 => x.pos <= k
  BY <1>2, InitedRides
<1>4. ASSUME NEW x \in Items
      PROVE  (Rides(l, x)' <=> InQueue(l, x)') /\ (Rides(l, x) <=> InQueue(l, x) \/ InCache(l, x))
  <2>1. Len(<<>>) = 0 /\ 1..0 = {}
    OBVIOUS
  <2>2. ~InCache(l, x)'
    BY <1>2, <2>1 DEF InCache, Kept
  <2>3. ~InExecutor(l, x)' /\ ~InExecutor(l, x)
    BY <1>2 DEF InExecutor
  <2> QED
    BY <2>2, <2>3 DEF Rides
<1>5. ASSUME NEW x \in Items
      PROVE  InCache(l, x) <=> x.place = None /\ x.pos \in 1..n /\ x.no = cache[x.pos].no
  BY <1>2 DEF InCache, Kept
<1>6. \A x \in Items : f[x] = IF x.place = e0 /\ x.pos > k
                              THEN [place |-> None, pos |-> x.pos - k, no |-> x.no] ELSE x
  OBVIOUS
<1>7. ASSUME NEW x \in Items, InQueue(l, x) PROVE f[x] = x /\ x.place # None
  <2>1. x.pos \in Int /\ x.place \in Ends
    BY <1>7, ItemFacts DEF InQueue
  <2>2. ~(x.place = e0 /\ x.pos > k)
    BY <1>1, <1>3, <1>7, <2>1
  <2> QED
    BY <1>1, <1>6, <2>1, <2>2
<1>8. ASSUME NEW x \in Items, Comes(x)
      PROVE  /\ f[x] \in Items /\ f[x].place = None /\ f[x].pos = x.pos - k /\ f[x].no = x.no
             /\ InCache(l, f[x])
  <2>1. x.pos \in Int /\ x.no \in Nat /\ x.place = e0 /\ x.pos - k \in 1..n
    BY <1>8, ItemFacts
  <2>2. x.pos > k /\ x.pos - k \in Int
    BY <1>1, <2>1
  <2>3. f[x] = [place |-> None, pos |-> x.pos - k, no |-> x.no]
    BY <1>6, <2>1, <2>2
  <2>4. f[x] \in Items /\ f[x].place = None /\ f[x].pos = x.pos - k /\ f[x].no = x.no
    BY <2>1, <2>2, <2>3 DEF Items
  <2> QED
    BY <1>5, <1>8, <2>4
<1> HIDE DEF Comes
<1>9. ASSUME NEW x \in Items, NEW y \in Items, Rides(l, x)', Rides(l, y)', f[x].place = f[y].place
      PROVE  /\ x.place = y.place /\ (x.pos = y.pos => f[x].pos = f[y].pos)
             /\ (x.pos < y.pos => f[x].pos < f[y].pos)
  <2>1. CASE Comes(x) /\ Comes(y)
    <3>1. x.place = y.place /\ f[x].pos = x.pos - k /\ f[y].pos = y.pos - k
      BY <1>8, <2>1 DEF Comes
    <3>2. x.pos \in Int /\ y.pos \in Int
      BY ItemFacts
    <3> QED
      BY <1>1, <3>1, <3>2
  <2>2. CASE InQueue(l, x) /\ InQueue(l, y)
    BY <1>7, <1>9, <2>2
  <2> QED
    BY <1>3, <1>4, <1>7, <1>8, <1>9, <2>1, <2>2
<1>10. ASSUME NEW y \in Items, Rides(l, y) PROVE \E z \in Items : Rides(l, z)' /\ f[z] = y
  <2>1. CASE InQueue(l, y)
    BY <1>3, <1>4, <1>7, <2>1
  <2>2. CASE InCache(l, y)
    <3> DEFINE z == [place |-> e0, pos |-> y.pos + k, no |-> y.no]
    <3>1. y.pos \in 1..n /\ y.place = None /\ y.no = cache[y.pos].no /\ y.no \in Nat
      BY <1>5, <2>2, ItemFacts
    <3>2. z \in Items /\ z.place = e0 /\ z.pos = y.pos + k /\ z.no = y.no
      BY <1>1, <3>1 DEF Items
    <3> HIDE DEF z
    <3>3. z.pos - k = y.pos
      BY <1>1, <3>1, <3>2
    <3>4. Comes(z)
      BY <3>1, <3>2, <3>3 DEF Comes
    <3>5. f[z] = y
      BY <1>8, <3>1, <3>2, <3>3, <3>4, SameItem
    <3> QED
      BY <1>3, <1>4, <3>2, <3>4, <3>5
  <2> QED
    BY <1>4, <1>10, <2>1, <2>2
<1>11. ASSUME NEW x \in Items, Rides(l, x)' PROVE f[x] \in Items /\ Rides(l, f[x]) /\ f[x].no = x.no
  BY <1>3, <1>4, <1>7, <1>8, <1>11
<1> QED
  BY <1>9, <1>10, <1>11 DEF Moves, Loses

(* HandleInit of the client that waited writes all it kept, in order, to   *)
(* the connection it is given.                                             *)
LEMMA WaitingClientOrder ==
  ASSUME IInv, TInv, SInv, OInv, NEW e \in Ends, HandleInit(e),
         NEW p, p = Owner(e), NEW q, q = Peer(e), WaitingFor(e) = q, Waits(p, q)
  PROVE  OInv'
<1> SUFFICES ASSUME NEW l0, l0 = Calls(p, q), NEW e0, e0 = Other(e),
                    NEW k, k = Len(queue[Other(e)])
             PROVE  OInv'
  OBVIOUS
<1>1. /\ stage[e] = "new" /\ p \in Procs /\ q \in Procs /\ e[1] \in 1..Len(conns)
      /\ client' = [client EXCEPT ![p][q] = [live |-> TRUE, handler |-> e, cache |-> <<>>]]
      /\ queue' = Posted(queue, e, Append(client[p][q].cache, Register))
      /\ UNCHANGED <<conns, executors, byAddress, said, heard, cut>>
  BY SeenOwners DEF HandleInit, history
<1>2. Procs \subseteq Names /\ None \notin Names /\ None \notin Ends
  BY NamesAssumption DEF Names
<1>3. /\ \A r \in Procs, m \in Names : ~(r = p /\ m = q) => client'[r][m] = client[r][m]
      /\ client'[p][q] = [live |-> TRUE, handler |-> e, cache |-> <<>>]
  BY <1>1, <1>2 DEF IInv, Shape
<1>4. l0 \in Links /\ l0[1] = p /\ l0[2] = q /\ l0[3] = "entity"
  BY <1>1, CallsAreLinks
<1>5. PICK cache \in Seq(SoundCalls) : cache = client[p][q].cache
  BY <1>1, <1>2 DEF TInv, CachesFit
<1>6. CutsKeep
  BY <1>1, CutsSame
<1>7. e[1] \notin standing => queue' = queue /\ cut[l0] # None
  <2>1. {l0[1], l0[2]} = {Owner(e), Peer(e)}
    BY <1>4
  <2> QED
    BY <1>1, <1>4, <2>1, EndIsCut DEF IInv, SInv, Posted
<1>8. ASSUME NEW l \in Links, l # l0, NEW x \in Items PROVE Rides(l, x)' <=> Rides(l, x)
  <2>1. InQueue(l, x)' <=> InQueue(l, x)
    <3>1. CASE e[1] \in standing
      BY <1>1, <1>5, <1>8, <3>1, InitedRides
    <3>2. CASE e[1] \notin standing
      BY <1>1, <1>7, <3>2, QueueSame
    <3> QED
      BY <3>1, <3>2
  <2>2. l[3] = "entity" => client'[l[1]][l[2]] = client[l[1]][l[2]]
    <3>1. l[3] = "entity" => ~(l[1] = p /\ l[2] = q)
      BY <1>4, <1>8, LinkFacts
    <3> QED
      BY <1>2, <1>3, <3>1, LinkFacts
  <2>3. (InCache(l, x)' <=> InCache(l, x)) /\ (InExecutor(l, x)' <=> InExecutor(l, x))
    BY <1>1, <2>2, CacheSame, ExecutorSame
  <2> QED
    BY <2>1, <2>3 DEF Rides
<1>9. ASSUME NEW l \in Links, l # l0 PROVE InOrder(l)'
  BY <1>1, <1>6, <1>8, <1>9, Unmoved DEF OInv
<1>10. ASSUME NEW x \in Items PROVE ~InExecutor(l0, x)' /\ ~InExecutor(l0, x) /\ ~InCache(l0, x)'
  <2>1. Len(<<>>) = 0 /\ 1..0 = {}
    OBVIOUS
  <2>2. Kept(l0)' = <<>>
    BY <1>3, <1>4 DEF Kept
  <2>3. ~InCache(l0, x)'
    BY <2>1, <2>2 DEF InCache
  <2> QED
    BY <1>4, <2>3, BoundsAssumption DEF InExecutor
<1>11. InOrder(l0)'
  <2>1. InOrder(l0) /\ heard'[l0] = heard[l0] /\ said'[l0] = said[l0]
    BY <1>1, <1>4 DEF OInv
  <2>2. CASE e[1] \in standing
    <3>1. PICK f : f = [x \in Items |-> IF x.place = Other(e) /\ x.pos > k
                                     THEN [place |-> None, pos |-> x.pos - k, no |-> x.no] ELSE x]
      OBVIOUS
    <3>2. client'[p][q].cache = <<>> /\ queue' = Posted(queue, e, Append(cache, Register))
      BY <1>1, <1>3, <1>5
    <3>3. Moves(l0, f) /\ ~Loses(l0, f)
      BY <1>1, <1>5, <2>2, <3>1, <3>2, WaitingMoves
    <3> QED
      BY <1>4, <1>6, <2>1, <3>3, Moved
  <2>3. CASE e[1] \notin standing
    <3>1. PICK f : f = [x \in Items |-> x]
      OBVIOUS
    <3>2. \A x \in Items : f[x] = x
      BY <3>1
    <3>3. \A x \in Items : InQueue(l0, x)' <=> InQueue(l0, x)
      BY <1>1, <1>4, <1>7, <2>3, QueueSame
    <3>4. \A x \in Items : InQueue(l0, x) => x.place # None
      BY <1>2 DEF InQueue
    <3>5. \A x \in Items : InCache(l0, x) => x.place = None
      BY DEF InCache
    <3>6. Moves(l0, f)
      BY <1>10, <3>2, <3>3, <3>4, <3>5 DEF Moves, Rides
    <3>7. cut'[l0] # None
      BY <1>1, <1>7, <2>3
    <3> QED
      BY <1>4, <1>6, <2>1, <3>6, <3>7, Moved
  <2> QED
    BY <2>2, <2>3
<1>12. ASSUME NEW r \in Procs, NEW s \in Procs, cut'[Calls(r, s)] = None PROVE Together(r, s)'
  <2>1. CASE r = p /\ s = q
    <3>1. cut[l0] = None /\ e[1] \in standing
      BY <1>1, <1>7, <1>12, <2>1
    <3>2. Together(p, q) /\ byAddress[p][q] = q /\ q # None
      BY <1>1, <1>2, <3>1 DEF OInv, CallsAreTogether, Waits
    <3>3. \A x \in Items : Rides(l0, x) => x.place = None
      BY <3>2 DEF Together, Place
    <3>4. \A x \in Items : ~InQueue(l0, x)
      BY <1>2, <3>3 DEF InQueue, Rides
    <3>5. \A x \in Items : InQueue(l0, x)' => x.place = e0
      BY <1>1, <1>4, <1>5, <3>1, <3>4, InitedRides
    <3>6. \A x \in Items : Rides(l0, x)' => x.place = e0
      BY <1>10, <3>5 DEF Rides
    <3>7. Place(p, q)' = e0
      <4>1. byAddress'[p][q] = q /\ client'[p][q].handler = e /\ e # None
        BY <1>1, <1>2, <1>3, <3>2
      <4> QED
        BY <4>1 DEF Place, Waits, Other
    <3>8. (\A x \in Items : Rides(Calls(p, q), x) => x.place = Place(p, q))'
      <4>1. Calls(p, q)' = l0
        BY DEF Calls
      <4> QED
        BY <3>6, <3>7, <4>1
    <3>9. byAddress'[p][q] # None
      BY <1>1, <3>2
    <3> QED
      BY <2>1, <3>8, <3>9 DEF Together
  <2>2. CASE ~(r = p /\ s = q)
    <3>1. Calls(r, s) # l0 /\ Calls(r, s) \in Links
      BY <1>4, <2>2, CallsAreLinks
    <3>2. ASSUME byAddress[r][s] # None PROVE Place(r, s)' = Place(r, s)
      <4> SUFFICES ASSUME NEW m, m = byAddress[r][s] PROVE Place(r, s)' = Place(r, s)
        OBVIOUS
      <4>1. m \in Names
        BY <3>2 DEF IInv, Shape
      <4>2. ~(r = p /\ m = q)
        <5>1. LedBy(r, m, s) \/ (Waits(r, s) /\ m = s)
          BY <4>1 DEF IInv, EntriesLead, Waits
        <5>2. ~LedBy(p, q, s)
          BY <1>2 DEF LedBy, Waits
        <5> QED
          BY <2>2, <5>1, <5>2
      <4>3. client'[r][m] = client[r][m] /\ client'[r][s] = client[r][s]
        BY <1>2, <1>3, <2>2, <4>1, <4>2
      <4> QED
        BY <1>1, <4>3, PlaceSame
    <3>3. \A x \in Items : Rides(Calls(r, s), x)' =>
            \E y \in Items : Rides(Calls(r, s), y) /\ y.place = x.place
      BY <1>8, <3>1
    <3>4. byAddress'[r][s] = byAddress[r][s] /\ said'[Calls(r, s)] = said[Calls(r, s)]
      BY <1>1
    <3> QED
      BY <1>6, <1>12, <3>2, <3>3, <3>4, TogetherStays DEF OInv
  <2> QED
    BY <2>1, <2>2
<1>13. \A l \in Links : InOrder(l)'
  BY <1>9, <1>11
<1> QED
  BY <1>12, <1>13, AllTogether

LEMMA HandleInitOrder == ASSUME IInv, TInv, SInv, OInv, NEW e \in Ends, HandleInit(e) PROVE OInv'
<1>1. stage[e] = "new"
  BY DEF HandleInit
<1>2. \/ WaitingFor(e) = e
      \/ WaitingFor(e) = Peer(e) /\ Waits(Owner(e), Peer(e))
  BY <1>1, TakenOver
<1>3. CASE WaitingFor(e) = e
  BY <1>3, NewClientOrder
<1>4. CASE WaitingFor(e) = Peer(e) /\ Waits(Owner(e), Peer(e))
  BY <1>4, WaitingClientOrder
<1> QED
  BY <1>2, <1>3, <1>4

(* All that an executor has of a link is heard, as X lists it.             *)
Lists(S, X, N) ==
  /\ X \in [1..Len(N) -> S]
  /\ \A i \in 1..Len(N) : X[i].no = N[i] /\ X[i].pos <= 0
  /\ \A i \in 1..Len(N), j \in 1..Len(N) : i < j => X[i].pos < X[j].pos
  /\ \A y \in S : y.pos <= 0 => \E i \in 1..Len(N) : X[i] = y

(* Requests served in the order of their places are heard in the order of  *)
(* their numbers.                                                          *)
LEMMA ListIsHeard ==
  ASSUME NEW S \in SUBSET Items, NEW k \in Nat, Tracked(S, k), NEW N \in Seq(Nat),
         NEW X, Lists(S, X, N), NEW T, T = {x \in S : x.pos > 0}
  PROVE  /\ \A i \in 1..Len(N) : N[i] = k + i
         /\ Tracked(T, k + Len(N)) /\ \A n : All(S, k, n) => All(T, k + Len(N), n)
<1> PICK c \in Nat : c = Len(N)
  OBVIOUS
<1>1. \A x \in S : x.pos \in Int /\ x.no \in Nat /\ x.no > k
  BY DEF Items, Tracked
<1>2. \A i \in 1..c : X[i] \in S /\ X[i].no = N[i] /\ X[i].pos <= 0 /\ N[i] \in Nat
  <2>1. X \in [1..c -> S] /\ \A i \in 1..c : X[i].no = N[i] /\ X[i].pos <= 0
    BY DEF Lists
  <2>2. \A i \in 1..c : N[i] \in Nat
    BY ElementOfSeq
  <2> QED
    BY <2>1, <2>2
<1>3. ASSUME NEW i \in 1..c, NEW j \in 1..c, i < j PROVE N[i] < N[j]
  <2>1. X[i].pos < X[j].pos
    BY <1>3 DEF Lists
  <2>2. X[i].no < X[j].no
    BY <1>2, <2>1 DEF Tracked
  <2> QED
    BY <1>2, <2>2
<1>4. ASSUME NEW i \in 1..c, NEW m \in k+1..N[i] PROVE \E j \in 1..c : N[j] = m
  <2>1. PICK y \in S : y.no = m
    <3>1. X[i] \in S /\ X[i].no = N[i]
      BY <1>2
    <3> QED
      BY <3>1 DEF Tracked
  <2>2. ~(X[i].no < y.no)
    <3>1. m <= N[i] /\ m \in Int /\ N[i] \in Int
      BY <1>2
    <3> QED
      BY <1>2, <2>1, <3>1
  <2>3. ~(X[i].pos < y.pos)
    BY <1>2, <2>2 DEF Tracked
  <2>4. y.pos <= 0
    BY <1>1, <1>2, <2>3
  <2>5. PICK j \in 1..c : X[j] = y
    BY <2>4 DEF Lists
  <2> QED
    BY <1>2, <2>1, <2>5
<1>5. \A i \in 1..c : N[i] = k + i
  <2>1. \A i \in 1..c : N[i] > k
    BY <1>1, <1>2
  <2> QED
    <3>1. \A i \in 1..Len(N), j \in 1..Len(N) : i < j => N[i] < N[j]
      BY <1>3
    <3>2. \A i \in 1..Len(N) : N[i] > k /\ \A m \in k+1..N[i] : \E j \in 1..Len(N) : N[j] = m
      BY <1>4, <2>1
    <3>3. \A i \in 1..Len(N) : N[i] = k + i
      BY ONLY k \in Nat, N \in Seq(Nat), <3>1, <3>2, GapFree
    <3> QED
      BY <3>3
<1>6. ASSUME NEW x \in T PROVE x.no > k + c
  <2>1. x \in S /\ x.pos > 0
    OBVIOUS
  <2>2. CASE c = 0
    BY <1>1, <2>1, <2>2
  <2>3. CASE c # 0
    <3>1. c \in 1..c
      BY <2>3
    <3>2. X[c] \in S /\ X[c].pos <= 0 /\ X[c].no = k + c
      BY <1>2, <1>5, <3>1
    <3>3. X[c].pos < x.pos
      BY <1>1, <2>1, <3>2
    <3>4. X[c].no < x.no
      BY <2>1, <3>2, <3>3 DEF Tracked
    <3> QED
      BY <3>2, <3>4
  <2> QED
    BY <2>2, <2>3
<1>7. ASSUME NEW y \in S, y.no > k + c PROVE y \in T
  <2> SUFFICES ASSUME y.pos <= 0 PROVE FALSE
    BY <1>1
  <2>1. PICK i \in 1..c : X[i] = y
    BY DEF Lists
  <2>2. y.no = k + i /\ i <= c /\ i \in Nat
    BY <1>2, <1>5, <2>1
  <2> QED
    BY <1>7, <2>2
<1>8. ASSUME NEW x \in T, NEW m \in k+c+1..x.no PROVE \E y \in T : y.no = m
  <2>1. x \in S /\ x.no \in Nat
    BY <1>1
  <2>2. m \in k+1..x.no /\ m > k + c
    BY <2>1
  <2>3. PICK y \in S : y.no = m
    BY <2>1, <2>2 DEF Tracked
  <2> QED
    BY <1>7, <2>2, <2>3
<1>9. Tracked(T, k + c)
  BY <1>6, <1>8 DEF Tracked
<1>10. ASSUME NEW n, All(S, k, n) PROVE All(T, k + c, n)
  <2> SUFFICES ASSUME NEW m \in k+c+1..n PROVE \E y \in T : y.no = m
    BY DEF All
  <2>1. m \in k+1..n /\ m > k + c
    OBVIOUS
  <2>2. PICK y \in S : y.no = m
    BY <1>10, <2>1 DEF All
  <2> QED
    BY <1>7, <2>1, <2>2
<1> QED
  BY <1>5, <1>9, <1>10

(* A list 1..k goes on with what counts on from k.                         *)
LEMMA CountedOn ==
  ASSUME NEW k \in Nat, NEW s \in Seq(Nat), s = [i \in 1..k |-> i], NEW N \in Seq(Nat),
         \A i \in 1..Len(N) : N[i] = k + i
  PROVE  Len(s \o N) = k + Len(N) /\ s \o N = [i \in 1..Len(s \o N) |-> i]
<1>1. PICK c \in Nat : c = Len(N)
  OBVIOUS
<1>2. Len(s) = k /\ \A i \in 1..k : s[i] = i
  OBVIOUS
<1>3. PICK t : t = s \o N
  OBVIOUS
<1>4. /\ t \in Seq(Nat) /\ Len(t) = k + c
      /\ \A i \in 1..k : t[i] = s[i]
      /\ \A i \in k+1..k+c : t[i] = N[i - k]
  BY <1>1, <1>2, <1>3
<1>5. ASSUME NEW i \in 1..k+c PROVE t[i] = i
  <2>1. CASE i \in 1..k
    BY <1>2, <1>4, <2>1
  <2>2. CASE i \notin 1..k
    <3>1. i \in k+1..k+c /\ i - k \in 1..c /\ k + (i - k) = i
      BY <2>2
    <3> QED
      BY <1>1, <1>4, <3>1
  <2> QED
    BY <2>1, <2>2
<1>6. t = [i \in 1..k+c |-> i]
  <2>1. t = [i \in 1..Len(t) |-> t[i]]
    BY <1>4
  <2> QED
    BY <1>4, <1>5, <2>1
<1> QED
  BY <1>1, <1>3, <1>4, <1>6

(* The requests an executor has, as items.                                 *)
ItemAt(l, i) ==
  [place |-> Asked(l)[i].from, pos |-> i - Len(Asked(l)), no |-> Asked(l)[i].no]
Mine(l, i) == Peer(Asked(l)[i].from) = l[1]
(* The requests that an executor has, as items.                            *)
LEMMA AskedItems ==
  ASSUME IInv, TInv, SInv, NEW l \in Links, l[3] \in Tables, NEW n, n = Len(Asked(l))
  PROVE  /\ n \in Nat /\ Asked(l) \in Seq(Request)
         /\ \A i \in 1..n : /\ ItemAt(l, i) \in Items /\ ItemAt(l, i).place = Asked(l)[i].from
                            /\ ItemAt(l, i).pos = i - n /\ ItemAt(l, i).no = Asked(l)[i].no
                            /\ stage[Asked(l)[i].from] \in {"open", "closed"}
                            /\ Mine(l, i) => Rides(l, ItemAt(l, i)) /\ Arrives(l, Asked(l)[i].from)
         /\ \A x \in Items : Rides(l, x) /\ x.pos <= 0 =>
              x.pos + n \in 1..n /\ x = ItemAt(l, x.pos + n) /\ Mine(l, x.pos + n)
<1>1. l[2] \in Procs /\ Asked(l) = executors[l[2]][l[3]]
  BY LinkFacts DEF Asked
<1>2. n \in Nat /\ Asked(l) \in Seq(Request)
  BY <1>1, RequestFacts
<1>3. ASSUME NEW i \in 1..n
      PROVE  /\ ItemAt(l, i) \in Items /\ ItemAt(l, i).place = Asked(l)[i].from
             /\ ItemAt(l, i).pos = i - n /\ ItemAt(l, i).no = Asked(l)[i].no
             /\ stage[Asked(l)[i].from] \in {"open", "closed"}
             /\ Mine(l, i) => Rides(l, ItemAt(l, i)) /\ Arrives(l, Asked(l)[i].from)
  <2> SUFFICES ASSUME NEW e, e = Asked(l)[i].from, NEW r, r = Asked(l)[i].no
               PROVE  /\ ItemAt(l, i) \in Items /\ ItemAt(l, i).place = e
                      /\ ItemAt(l, i).pos = i - n /\ ItemAt(l, i).no = r
                      /\ stage[e] \in {"open", "closed"}
                      /\ Mine(l, i) => Rides(l, ItemAt(l, i)) /\ Arrives(l, e)
    OBVIOUS
  <2>1. e \in Ends /\ r \in Nat
    <3>1. e \in Ends /\ r \in 1..MaxSaid
      BY <1>1, RequestFacts
    <3> QED
      BY <3>1
  <2>2. stage[e] \in {"open", "closed"} /\ Owner(e) = l[2]
    BY <1>1 DEF SInv, ExecutorsFit
  <2>3. ItemAt(l, i) = [place |-> e, pos |-> i - n, no |-> r] /\ i - n \in Int
    BY <1>2 DEF ItemAt
  <2>4. ItemAt(l, i) \in Items /\ ItemAt(l, i).place = e /\ ItemAt(l, i).pos = i - n
        /\ ItemAt(l, i).no = r
    BY <2>1, <2>3 DEF Items
  <2>5. i - n + n = i
    BY <1>2
  <2>6. Mine(l, i) => Arrives(l, e)
    BY <2>1, <2>2, SeenOwners DEF Mine, Arrives
  <2>7. Mine(l, i) => InExecutor(l, ItemAt(l, i))
    BY <2>4, <2>5, <2>6 DEF InExecutor
  <2> QED
    BY <2>2, <2>4, <2>6, <2>7 DEF Rides
<1>4. ASSUME NEW x \in Items, Rides(l, x), x.pos <= 0
      PROVE  x.pos + n \in 1..n /\ x = ItemAt(l, x.pos + n) /\ Mine(l, x.pos + n)
  <2>1. ~(x.pos > 0)
    BY <1>4, ItemFacts
  <2>2. InExecutor(l, x)
    BY <1>4, <2>1, PartsOfItem DEF Rides, InCache
  <2>3. PICK i \in 1..n : i = x.pos + n
    BY <2>2 DEF InExecutor
  <2>4. x.place = Asked(l)[i].from /\ x.no = Asked(l)[i].no /\ Arrives(l, x.place)
    BY <2>2, <2>3 DEF InExecutor
  <2>5. x.pos = i - n
    BY <1>2, <2>3, ItemFacts
  <2>6. x = ItemAt(l, i)
    BY <1>3, <2>4, <2>5, SameItem
  <2>7. Mine(l, i)
    BY <2>4 DEF Mine, Arrives
  <2> QED
    BY <2>3, <2>6, <2>7
<1> QED
  BY <1>2, <1>3, <1>4

(* When all of them are served, they are what is heard.                    *)
LEMMA ServedAreListed ==
  ASSUME IInv, TInv, SInv, NEW l \in Links, l[3] \in Tables,
         \A i \in 1..Len(Asked(l)) : Mine(l, i) /\ InTime(l, Asked(l)[i].no) => i \in Served(l[2], l[3])
  PROVE  \E X : Lists(OnTheWay(l), X, Done(l))
<1> SUFFICES ASSUME NEW n, n = Len(Asked(l)), NEW s, s = Asked(l)
             PROVE  \E X : Lists(OnTheWay(l), X, Done(l))
  OBVIOUS
<1>1. /\ n \in Nat /\ s \in Seq(Request)
      /\ \A i \in 1..n : /\ ItemAt(l, i) \in Items /\ ItemAt(l, i).pos = i - n
                         /\ ItemAt(l, i).no = s[i].no
                         /\ Mine(l, i) => Rides(l, ItemAt(l, i))
      /\ \A x \in Items : Rides(l, x) /\ x.pos <= 0 =>
           x.pos + n \in 1..n /\ x = ItemAt(l, x.pos + n) /\ Mine(l, x.pos + n)
  BY AskedItems
<1>2. PICK places : places = {i \in 1..n : Mine(l, i) /\ InTime(l, s[i].no)}
  OBVIOUS
<1>3. Done(l) = NumbersAt(s, places)
  <2>1. {i \in Served(l[2], l[3]) : Peer(s[i].from) = l[1] /\ InTime(l, s[i].no)} = places
    BY <1>2 DEF Mine, Served, Asked
  <2> QED
    BY <2>1 DEF Done, Asked
<1>4. PICK N, at : N = Done(l) /\ Picks(N, at, s, places, n)
  <2>1. s \in Seq(Record)
    <3>1. Request \subseteq Record
      BY DEF Request, Record
    <3> QED
      BY <1>1, <3>1, SeqMonotonic
  <2> QED
    BY <1>3, <2>1, NumbersArePicked
<1>5. PICK c \in Nat : c = Len(N)
  BY <1>4 DEF Picks
<1>6. /\ \A i \in 1..c : at[i] \in 1..n /\ at[i] \in places /\ N[i] = s[at[i]].no
      /\ \A i \in 1..c, j \in 1..c : i < j => at[i] < at[j]
      /\ \A k \in places : \E i \in 1..c : at[i] = k
  BY <1>2, <1>4, <1>5 DEF Picks
<1>7. PICK X : X = [i \in 1..c |-> ItemAt(l, at[i])]
  OBVIOUS
<1>8. ASSUME NEW i \in 1..c
      PROVE  X[i] \in OnTheWay(l) /\ X[i].no = N[i] /\ X[i].pos = at[i] - n /\ X[i].pos <= 0
  <2>1. PICK j \in 1..n : j = at[i] /\ Mine(l, j) /\ InTime(l, s[j].no) /\ N[i] = s[j].no
    BY <1>2, <1>6
  <2>2. X[i] = ItemAt(l, j)
    BY <1>7, <2>1
  <2>3. X[i] \in Items /\ Rides(l, X[i]) /\ X[i].no = s[j].no /\ X[i].pos = j - n
    BY <1>1, <2>1, <2>2
  <2>4. j - n <= 0
    BY <1>1
  <2> QED
    BY <2>1, <2>3, <2>4 DEF OnTheWay
<1>9. ASSUME NEW i \in 1..c, NEW j \in 1..c, i < j PROVE X[i].pos < X[j].pos
  <2>1. PICK a \in 1..n, b \in 1..n : a = at[i] /\ b = at[j] /\ a < b
    BY <1>6, <1>9
  <2>2. X[i].pos = a - n /\ X[j].pos = b - n
    BY <1>8, <2>1
  <2> QED
    BY <1>1, <2>1, <2>2
<1>10. ASSUME NEW y \in OnTheWay(l), y.pos <= 0 PROVE \E i \in 1..c : X[i] = y
  <2>1. y \in Items /\ Rides(l, y) /\ InTime(l, y.no)
    BY DEF OnTheWay
  <2>2. PICK k \in 1..n : k = y.pos + n /\ y = ItemAt(l, k) /\ Mine(l, k)
    BY <1>1, <1>10, <2>1
  <2>3. k \in places
    BY <1>1, <1>2, <2>1, <2>2
  <2>4. PICK i \in 1..c : at[i] = k
    BY <1>6, <2>3
  <2> QED
    BY <1>7, <2>2, <2>4
<1>11. X \in [1..c -> OnTheWay(l)]
  BY <1>7, <1>8
<1>12. Lists(OnTheWay(l), X, N)
  BY <1>5, <1>8, <1>9, <1>10, <1>11 DEF Lists
<1> QED
  BY <1>4, <1>12

(* Answers are not what the links carry.                                   *)
LEMMA AnswersAreNotSaid ==
  ASSUME IInv, TInv, NEW d \in Procs, Update(d), NEW l \in Links, NEW x \in Items
  PROVE  InQueue(l, x)' <=> InQueue(l, x)
<1>1. UNCHANGED conns
  BY DEF Update
<1> SUFFICES ASSUME NEW g \in Ends, g = x.place PROVE InQueue(l, x)' <=> InQueue(l, x)
  BY DEF InQueue
<1>2. queue'[g] = IF g[1] \in standing /\ Peer(g) = d
                  THEN queue[g] \o AnswersOver(d, Other(g)) ELSE queue[g]
  BY DEF Update
<1>3. CASE g[1] \in standing /\ Peer(g) = d
  <2>1. PICK packets \in Seq({m \in Sound : m.what = "answer"}) : packets = AnswersOver(d, Other(g))
    BY AnswersType
  <2>2. packets \in Seq(Sound)
    BY SeqMonotonic
  <2>3. \A i \in 1..Len(packets) : packets[i].what = "answer"
    <3>1. \A i \in 1..Len(packets) : packets[i] \in {m \in Sound : m.what = "answer"}
      BY ElementOfSeq
    <3> QED
      BY <3>1
  <2>4. \A i \in 1..Len(packets) : ~Says(l, packets[i])
    BY <2>3 DEF Says
  <2>5. queue'[x.place] = queue[x.place] \o packets
    BY <1>2, <1>3, <2>1
  <2> QED
    BY <1>1, <2>2, <2>4, <2>5, AppendedRides
<1>4. CASE ~(g[1] \in standing /\ Peer(g) = d)
  BY <1>1, <1>2, <1>4, QueueSame
<1> QED
  BY <1>3, <1>4

(* A request of an end that has gone: nothing more comes over it.          *)
LEMMA GoneIsSilent ==
  ASSUME IInv, TInv, SInv, NEW l \in Links, l[3] \in Tables,
         NEW k, Tracked(OnTheWay(l), k),
         NEW i \in 1..Len(Asked(l)), Mine(l, i), InTime(l, Asked(l)[i].no), i \notin Served(l[2], l[3])
  PROVE  /\ Len(Done(l)) = 0 /\ cut[l] # None
         /\ \A x \in OnTheWay(l) : ~InQueue(l, x)
<1> SUFFICES ASSUME NEW n, n = Len(Asked(l)), NEW s, s = Asked(l), NEW e, e = s[i].from
             PROVE  /\ Len(Done(l)) = 0 /\ cut[l] # None
                    /\ \A x \in OnTheWay(l) : ~InQueue(l, x)
  OBVIOUS
<1>1. /\ n \in Nat /\ s \in Seq(Request)
      /\ \A j \in 1..n : /\ ItemAt(l, j) \in Items /\ ItemAt(l, j).place = s[j].from
                         /\ ItemAt(l, j).no = s[j].no
                         /\ stage[s[j].from] \in {"open", "closed"}
                         /\ Mine(l, j) => Rides(l, ItemAt(l, j)) /\ Arrives(l, s[j].from)
  BY AskedItems
<1>2. e \in Ends /\ Arrives(l, e) /\ stage[e] \in {"open", "closed"}
  <2>1. ItemAt(l, i).place \in Ends \cup {None}
    BY <1>1, ItemFacts
  <2>2. e \in Ends
    BY LinkFacts, RequestFacts DEF Asked
  <2> QED
    BY <1>1, <2>2
<1>3. bySocket[e] = None
  BY DEF Served, Asked
<1>4. stage[e] = "closed"
  BY <1>2, <1>3 DEF IInv, OpenEndsHaveClients
<1>5. e[1] \notin standing /\ queue[e] = <<>>
  BY <1>2, <1>4 DEF SInv, ClosedAreBroken
<1>6. cut[l] # None
  <2>1. e[1] \in 1..Len(conns) /\ {l[1], l[2]} = {Owner(e), Peer(e)}
    BY <1>2 DEF Arrives
  <2> QED
    BY <1>2, <1>5, <2>1, EndIsCut DEF IInv, SInv
<1>7. ItemAt(l, i) \in OnTheWay(l) /\ ItemAt(l, i).place = e
  BY <1>1 DEF OnTheWay
<1>8. \A x \in OnTheWay(l) : x.place = e
  BY <1>7 DEF Tracked
<1>9. \A x \in OnTheWay(l) : ~InQueue(l, x)
  <2>1. Len(<<>>) = 0 /\ 1..0 = {}
    OBVIOUS
  <2> QED
    BY <1>5, <1>8, <2>1 DEF InQueue
<1>10. PICK places : places = {j \in Served(l[2], l[3]) : Peer(s[j].from) = l[1] /\ InTime(l, s[j].no)}
  OBVIOUS
<1>11. places = {}
  <2> SUFFICES ASSUME NEW j \in places PROVE FALSE
    OBVIOUS
  <2>1. j \in 1..n /\ Mine(l, j) /\ InTime(l, s[j].no) /\ bySocket[s[j].from] # None
    BY <1>10 DEF Served, Mine, Asked
  <2>2. ItemAt(l, j) \in OnTheWay(l) /\ ItemAt(l, j).place = s[j].from
    BY <1>1, <2>1 DEF OnTheWay
  <2> QED
    BY <1>3, <1>8, <2>1, <2>2
<1>12. Done(l) = NumbersAt(s, places)
  BY <1>10 DEF Done, Asked
<1>13. PICK N, at : N = Done(l) /\ Picks(N, at, s, places, n)
  <2>1. s \in Seq(Record)
    <3>1. Request \subseteq Record
      BY DEF Request, Record
    <3> QED
      BY <1>1, <3>1, SeqMonotonic
  <2> QED
    BY <1>12, <2>1, NumbersArePicked
<1>14. Len(N) = 0
  <2>1. Len(N) \in Nat
    BY <1>13 DEF Picks
  <2>2. \A j \in 1..Len(N) : at[j] \in places
    BY <1>13 DEF Picks
  <2>3. 1..Len(N) = {}
    BY <1>11, <2>2
  <2>4. Len(N) > 0 => 1 \in 1..Len(N)
    BY <2>1
  <2> QED
    BY <2>1, <2>3, <2>4
<1> QED
  BY <1>6, <1>9, <1>13, <1>14

(* Update hears, of each link to its db_manager, all requests in time that *)
(* the executors have, or none when their end has gone.                    *)
LEMMA UpdatedOrder ==
  ASSUME IInv, TInv, SInv, OInv, NEW d \in Procs, Update(d), NEW l \in Links, l[2] = d, l[3] \in Tables
  PROVE  InOrder(l)'
<1>1. PICK S, k : S = OnTheWay(l) /\ k = Len(heard[l])
  OBVIOUS
<1>2. /\ heard[l] = [i \in 1..k |-> i] /\ k <= said[l] /\ (cut[l] # None => cut[l] <= said[l])
      /\ \A x \in Items : Rides(l, x) => x.no \in 1..said[l]
      /\ Tracked(S, k) /\ (cut[l] = None => All(S, k, said[l]))
  BY <1>1 DEF OInv, InOrder
<1>3. k \in Nat /\ said[l] \in Nat /\ heard[l] \in Seq(Nat)
  <2>1. heard[l] \in Seq(1..MaxSaid) /\ 1..MaxSaid \subseteq Nat
    BY DEF TInv, CountsFit
  <2>2. heard[l] \in Seq(Nat)
    BY <2>1, SeqMonotonic
  <2> QED
    BY <1>1, <2>2, BoundsAssumption DEF TInv, CountsFit
<1>4. /\ heard'[l] = heard[l] \o Done(l)
      /\ executors'[d][l[3]] = <<>> /\ UNCHANGED <<cut, said>>
  BY DEF Update, TInv
<1>5. PICK N \in Seq(Nat) : N = Done(l)
  <2>1. Asked(l) \in Seq(Request)
    BY AskedItems
  <2>2. Done(l) \in Seq(1..MaxSaid)
    BY <2>1, NumbersType DEF Done, Asked
  <2>3. 1..MaxSaid \subseteq Nat
    OBVIOUS
  <2> QED
    BY <2>2, <2>3, SeqMonotonic
<1>6. ASSUME NEW x \in Items PROVE Rides(l, x)' <=> Rides(l, x) /\ x.pos > 0
  <2>1. ~InExecutor(l, x)'
    <3>1. Len(<<>>) = 0 /\ 1..0 = {}
      OBVIOUS
    <3>2. Asked(l)' = <<>>
      BY <1>4 DEF Asked
    <3> QED
      BY <3>1, <3>2 DEF InExecutor
  <2>2. ~InCache(l, x)' /\ ~InCache(l, x)
    BY BoundsAssumption DEF InCache
  <2>3. (InQueue(l, x)' <=> InQueue(l, x)) /\ (InQueue(l, x) => x.pos > 0)
    BY AnswersAreNotSaid, PartsOfItem
  <2>4. InExecutor(l, x) => ~(x.pos > 0)
    BY PartsOfItem, ItemFacts
  <2> QED
    BY <2>1, <2>2, <2>3, <2>4 DEF Rides
<1>7. PICK T : T = {x \in S : x.pos > 0}
  OBVIOUS
<1>8. OnTheWay(l)' = T
  <2>1. \A x \in Items : InTime(l, x.no)' <=> InTime(l, x.no)
    BY <1>4 DEF InTime
  <2>2. OnTheWay(l)' = {x \in Items : Rides(l, x)' /\ InTime(l, x.no)'}
    BY DEF OnTheWay
  <2> QED
    BY <1>1, <1>6, <1>7, <2>1, <2>2 DEF OnTheWay
<1>9. S \in SUBSET Items
  BY <1>1 DEF OnTheWay
<1>10. /\ \A i \in 1..Len(N) : N[i] = k + i
       /\ Tracked(T, k + Len(N)) /\ (cut[l] = None => All(T, k + Len(N), said[l]))
       /\ k + Len(N) <= said[l]
  <2>1. CASE \A i \in 1..Len(Asked(l)) :
               Mine(l, i) /\ InTime(l, Asked(l)[i].no) => i \in Served(l[2], l[3])
    <3>1. PICK X : Lists(S, X, N)
      BY <1>1, <1>5, <2>1, ServedAreListed
    <3>2. /\ \A i \in 1..Len(N) : N[i] = k + i
          /\ Tracked(T, k + Len(N)) /\ \A n : All(S, k, n) => All(T, k + Len(N), n)
      BY <1>2, <1>3, <1>7, <1>9, <3>1, ListIsHeard
    <3>3. k + Len(N) <= said[l]
      <4>1. PICK c \in Nat : c = Len(N)
        OBVIOUS
      <4>2. CASE c = 0
        BY <1>2, <1>3, <4>1, <4>2
      <4>3. CASE c # 0
        <5>1. c \in 1..c
          BY <4>3
        <5>2. X[c] \in S /\ X[c].no = k + c
          BY <3>1, <3>2, <4>1, <5>1 DEF Lists
        <5>3. k + c \in 1..said[l]
          BY <1>1, <1>2, <5>2 DEF OnTheWay
        <5> QED
          BY <1>3, <4>1, <5>3
      <4> QED
        BY <4>2, <4>3
    <3> QED
      BY <1>2, <3>2, <3>3
  <2>2. CASE ~\A i \in 1..Len(Asked(l)) :
                Mine(l, i) /\ InTime(l, Asked(l)[i].no) => i \in Served(l[2], l[3])
    <3>1. PICK i \in 1..Len(Asked(l)) :
            Mine(l, i) /\ InTime(l, Asked(l)[i].no) /\ i \notin Served(l[2], l[3])
      BY <2>2
    <3>2. Len(N) = 0 /\ cut[l] # None /\ \A x \in S : ~InQueue(l, x)
      BY <1>1, <1>2, <1>5, <3>1, GoneIsSilent
    <3>3. T = {}
      <4> SUFFICES ASSUME NEW x \in S, x.pos > 0 PROVE FALSE
        BY <1>7
      <4>1. x \in Items /\ Rides(l, x) /\ ~(x.pos <= 0)
        BY <1>1, ItemFacts DEF OnTheWay
      <4> QED
        BY <3>2, <4>1, BoundsAssumption, PartsOfItem DEF Rides
    <3>4. 1..0 = {} /\ k + 0 = k
      BY <1>3
    <3>5. Tracked(T, k)
      BY <3>3 DEF Tracked
    <3> QED
      BY <1>2, <3>2, <3>4, <3>5
  <2> QED
    BY <2>1, <2>2
<1>11. Len(heard'[l]) = k + Len(N) /\ heard'[l] = [i \in 1..Len(heard'[l]) |-> i]
  BY <1>2, <1>3, <1>4, <1>5, <1>10, CountedOn
<1>12. \A x \in Items : Rides(l, x)' => x.no \in 1..said[l]
  BY <1>2, <1>6
<1>13. said'[l] = said[l] /\ cut'[l] = cut[l]
  BY <1>4
<1> QED
  BY <1>2, <1>8, <1>10, <1>11, <1>12, <1>13 DEF InOrder

LEMMA UpdateOrder == ASSUME IInv, TInv, SInv, OInv, NEW d \in Procs, Update(d) PROVE OInv'
<1>1. UNCHANGED <<conns, client, byAddress, said, cut>> /\ CutsKeep
  BY CutsSame DEF Update, mapVars
<1>2. ASSUME NEW l \in Links, ~(l[2] = d /\ l[3] \in Tables), NEW x \in Items
      PROVE  Rides(l, x)' <=> Rides(l, x)
  <2>1. l[3] \in Tables => executors'[l[2]][l[3]] = executors[l[2]][l[3]]
    BY <1>2, LinkFacts DEF Update, TInv
  <2>2. InExecutor(l, x)' <=> InExecutor(l, x)
    BY <1>1, <2>1, ExecutorSame
  <2>3. (InCache(l, x)' <=> InCache(l, x)) /\ (InQueue(l, x)' <=> InQueue(l, x))
    BY <1>1, CacheSame, AnswersAreNotSaid
  <2> QED
    BY <2>2, <2>3 DEF Rides
<1>3. ASSUME NEW l \in Links PROVE InOrder(l)'
  <2>1. CASE l[2] = d /\ l[3] \in Tables
    BY <2>1, UpdatedOrder
  <2>2. CASE ~(l[2] = d /\ l[3] \in Tables)
    <3>1. heard'[l] = heard[l] /\ said'[l] = said[l]
      BY <1>1, <2>2 DEF Update
    <3> QED
      BY <1>1, <1>2, <2>2, <3>1, Unmoved DEF OInv
  <2> QED
    BY <2>1, <2>2
<1>4. ASSUME NEW p \in Procs, NEW q \in Procs, cut'[Calls(p, q)] = None PROVE Together(p, q)'
  <2>1. byAddress'[p][q] = byAddress[p][q] /\ Place(p, q)' = Place(p, q)
        /\ said'[Calls(p, q)] = said[Calls(p, q)]
    BY <1>1, PlaceSame
  <2>2. \A x \in Items : Rides(Calls(p, q), x)' =>
          \E y \in Items : Rides(Calls(p, q), y) /\ y.place = x.place
    BY <1>2, CallsAreLinks, BoundsAssumption
  <2> QED
    BY <1>1, <1>4, <2>1, <2>2, TogetherStays DEF OInv
<1> QED
  BY <1>3, <1>4, AllTogether

(* Nothing is on its way at the start.                                     *)
LEMMA StartOrder == Init => OInv
<1> SUFFICES ASSUME Init PROVE OInv
  OBVIOUS
<1>1. Len(<<>>) = 0 /\ 1..0 = {}
  OBVIOUS
<1>2. ASSUME NEW l \in Links, NEW x \in Items PROVE ~Rides(l, x)
  <2>1. l[1] \in Procs /\ l[2] \in Procs /\ l[2] \in Names
    BY LinkFacts DEF Names
  <2>2. ~InQueue(l, x)
    BY <1>1 DEF Init, InQueue
  <2>3. ~InExecutor(l, x)
    BY <1>1, <2>1 DEF Init, InExecutor, Asked
  <2>4. ~InCache(l, x)
    BY <1>1, <2>1 DEF Init, InCache, Kept, Gone
  <2> QED
    BY <2>2, <2>3, <2>4 DEF Rides
<1>3. ASSUME NEW l \in Links PROVE InOrder(l)
  <2>1. heard[l] = <<>> /\ said[l] = 0 /\ cut[l] = None
    BY DEF Init
  <2>2. OnTheWay(l) = {}
    BY <1>2 DEF OnTheWay
  <2>3. <<>> = [i \in 1..0 |-> i]
    OBVIOUS
  <2>4. heard[l] = [i \in 1..Len(heard[l]) |-> i] /\ Len(heard[l]) = 0
    BY <1>1, <2>1, <2>3
  <2>5. Tracked({}, 0)
    BY DEF Tracked
  <2>6. All({}, 0, 0)
    BY DEF All
  <2> QED
    BY <1>2, <2>1, <2>2, <2>4, <2>5, <2>6 DEF InOrder
<1>4. CallsAreTogether
  <2>1. \A p \in Procs, q \in Procs : byAddress[p][q] = None /\ said[Calls(p, q)] = 0
    BY CallsAreLinks DEF Init
  <2> QED
    BY <2>1 DEF CallsAreTogether, Together
<1> QED
  BY <1>3, <1>4 DEF OInv

(* Every step keeps the order.                                             *)
LEMMA NextOrder == ASSUME IInv, TInv, SInv, OInv, [Next]_vars PROVE OInv'
<1>1. ASSUME NEW p \in Procs, NEW q \in Procs, CallEntity(p, q) PROVE OInv'
  BY <1>1, CallEntityOrder
<1>2. ASSUME NEW p \in Procs, NEW q \in Procs, ConnectDb(p, q) PROVE OInv'
  BY <1>2, ConnectDbOrder
<1>3. ASSUME NEW p \in Procs, NEW q \in Procs, NEW t \in Tables, DbOpt(p, q, t) PROVE OInv'
  BY <1>3, DbOptOrder
<1>4. ASSUME NEW e \in Ends, HandleInit(e) PROVE OInv'
  BY <1>4, HandleInitOrder
<1>5. ASSUME NEW e \in Ends, HandlePacket(e) PROVE OInv'
  BY <1>5, ReceivedNothing, HearOrder, AddExecutorOrder DEF HandlePacket
<1>6. ASSUME NEW e \in Ends, HandleClose(e) PROVE OInv'
  BY <1>6, CloseOrder
<1>7. ASSUME NEW e \in Ends, NullSocket(e) PROVE OInv'
  BY <1>7, NullSocketOrder
<1>8. ASSUME NEW d \in Procs, Update(d) PROVE OInv'
  BY <1>8, UpdateOrder
<1>9. ASSUME NEW c \in 1..MaxConns, Break(c) PROVE OInv'
  BY <1>9, BreakOrder
<1>10. CASE UNCHANGED vars
  <2>1. CutsKeep /\ UNCHANGED <<conns, client, byAddress, queue, executors, said, heard, cut>>
    BY <1>10, CutsSame DEF vars, netVars, mapVars, history
  <2>2. \A p \in Procs, q \in Procs : byAddress'[p][q] = byAddress[p][q] /\ Place(p, q)' = Place(p, q)
    BY <2>1, PlaceSame
  <2> QED
    BY <2>1, <2>2, QuietOrder
<1> QED
  BY <1>1, <1>2, <1>3, <1>4, <1>5, <1>6, <1>7, <1>8, <1>9, <1>10 DEF Next, Serve

(* The order of calls: what rpc_client::send_entity_packet writes at once  *)
(* or keeps until process_cache_packets, and what a db_manager's executor  *)
(* holds until executor_manager::update, is heard in the order it was      *)
(* said, once and without gaps, for any processes, tables and bounds,      *)
(* until something on its link breaks.                                     *)
THEOREM CallsKeepTheirOrder == Spec => []HeardInOrder
<1>1. Init => IInv /\ TInv /\ SInv /\ OInv
  BY InitInv, StartTypes, StartStands, StartOrder
<1>2. IInv /\ TInv /\ SInv /\ OInv /\ [Next]_vars => (IInv /\ TInv /\ SInv /\ OInv)'
  BY NextInv, NextTypes, NextStands, NextOrder
<1>3. OInv => HeardInOrder
  BY DEF OInv, InOrder, HeardInOrder
<1> QED
  BY <1>1, <1>2, <1>3, PTL DEF Spec
=============================================================================
