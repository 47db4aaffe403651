------------------------- MODULE TimerWheelProofs -------------------------
(* Every invariant of TimerWheel, for layers of any size, any timers, any  *)
(* delays that WheelAssumption and ServerAssumption allow and any stalls.  *)
(*                                                                         *)
(* 1. A node's slots stand for one second at which it runs (RunsAt): the   *)
(* first, at or after the second the indices have reached, whose index in  *)
(* the node's layer and in each layer below is the slot the node keeps.    *)
(* add_timer_core drops the carries between the layers, so that second is  *)
(* the one the timer is due in, or earlier by a minute, an hour, a day or  *)
(* their sums (TimerPlaced).                                               *)
(*                                                                         *)
(* 2. The lists are sound (Lists): each node that waits has a slot and a   *)
(* rank, the number of the nodes behind it, the links agree with both, and *)
(* no two nodes of a slot have the same rank.  While proc_node walks a     *)
(* slot, its list starts at the node whose turn it is and not at the head. *)
(* The timer that repeats is added to another slot before the walk goes    *)
(* on, and del_timer_core takes it for the predecessor of each node that   *)
(* follows: it writes their links to the next into it.  That does no harm  *)
(* as it is the last of its slot, where the last of the walk leaves NULL.  *)
(*                                                                         *)
(* 3. A second passes: the layers hand down from above what runs in it, so *)
(* that all nodes left in a layer are those of later turns (CascadeHands), *)
(* and those left in the slot whose turn it is run now (RunsNow).          *)
(*                                                                         *)
(* 4. What servers and robots use timers for (Servers): one timer repeats, *)
(* and at most one other is longer than it, so at most one node waits in   *)
(* the slot it is added to, and it goes behind that one, to the end.       *)
EXTENDS TimerWheel, FiniteSetTheorems, WellFoundedInduction, TLAPS

-----------------------------------------------------------------------------
(* 1. Division, and how the indices of the layers follow the seconds.      *)

(* Division with remainder, ...                                            *)
LEMMA DivFacts ==
  ASSUME NEW x \in Nat, NEW b \in Nat, b > 0
  PROVE  /\ x \div b \in Nat /\ x % b \in 0..b-1 /\ x = b * (x \div b) + (x % b)
<1>1. x = b * (x \div b) + (x % b)
  BY Z3
<1> QED
  BY <1>1

(* ... products of a larger factor, ...                                    *)
LEMMA Products ==
  ASSUME NEW b \in Nat, b > 0, NEW p \in Int, NEW q \in Int, p < q
  PROVE  b * p + b <= b * q
  OBVIOUS

(* ... one quotient and one remainder, ...                                 *)
LEMMA DivUnique ==
  ASSUME NEW b \in Nat, b > 0, NEW p \in Int, NEW q \in Int, NEW r \in 0..b-1, NEW s \in 0..b-1,
         b * p + r = b * q + s
  PROVE  p = q /\ r = s
<1>1. CASE p < q
  BY <1>1, Products
<1>2. CASE q < p
  BY <1>2, Products
<1> QED
  BY <1>1, <1>2

(* ... which the sum of a multiple and a small rest shows.                 *)
LEMMA DivMod ==
  ASSUME NEW b \in Nat, b > 0, NEW q \in Nat, NEW r \in 0..b-1, NEW x, x = b * q + r
  PROVE  x \in Nat /\ x \div b = q /\ x % b = r
<1>1. x \in Nat
  OBVIOUS
<1> QED
  BY <1>1, DivFacts, DivUnique

(* A layer above a layer counts units of units.                            *)
LEMMA DivDiv ==
  ASSUME NEW x \in Nat, NEW a \in Nat, a > 0, NEW b \in Nat, b > 0
  PROVE  /\ a * b \in Nat /\ a * b > 0 /\ x \div (a * b) = (x \div a) \div b
         /\ x % (a * b) = a * ((x \div a) % b) + (x % a)
<1>1. PICK y \in Nat, r \in 0..a-1 : y = x \div a /\ r = x % a /\ x = a * y + r
  BY DivFacts
<1>2. PICK q \in Nat, s \in 0..b-1 : q = y \div b /\ s = y % b /\ y = b * q + s
  BY DivFacts
<1>3. a * b \in Nat /\ a * b > 0
  OBVIOUS
<1>4. x = (a * b) * q + (a * s + r)
  BY <1>1, <1>2
<1>5. a * s + r \in 0..(a * b)-1
  <2>1. a * s + a <= a * b
    BY <1>2, Products
  <2>2. a * s \in Nat
    OBVIOUS
  <2> QED
    BY <1>1, <1>3, <2>1, <2>2
<1> QED
  <2>1. x \div (a * b) = q /\ x % (a * b) = a * s + r
    BY <1>3, <1>4, <1>5, DivMod
  <2> QED
    BY <1>1, <1>2, <1>3, <2>1

(* Two seconds less than a unit apart that leave the same are the same.    *)
LEMMA SameDigit ==
  ASSUME NEW b \in Nat, b > 0, NEW x \in Nat, NEW y \in Nat, x % b = y % b, x <= y, y < x + b
  PROVE  x = y
<1>1. PICK p \in Nat, r \in 0..b-1 : r = x % b /\ x = b * p + r
  BY DivFacts
<1>2. PICK q \in Nat, s \in 0..b-1 : s = y % b /\ y = b * q + s
  BY DivFacts
<1>3. CASE p < q
  <2>1. b * p + b <= b * q
    BY <1>3, Products
  <2> QED
    BY <1>1, <1>2, <2>1
<1>4. CASE q < p
  <2>1. b * q + b <= b * p
    BY <1>4, Products
  <2> QED
    BY <1>1, <1>2, <2>1
<1> QED
  BY <1>1, <1>2, <1>3, <1>4

(* The whole units after another step.                                     *)
LEMMA DivNext ==
  ASSUME NEW b \in Nat, b > 0, NEW x \in Nat
  PROVE  IF (x % b) + 1 = b THEN (x + 1) \div b = x \div b + 1 /\ (x + 1) % b = 0
         ELSE (x + 1) \div b = x \div b /\ (x + 1) % b = (x % b) + 1
<1>1. PICK q \in Nat, r \in 0..b-1 : q = x \div b /\ r = x % b /\ x = b * q + r
  BY DivFacts
<1>2. CASE r + 1 = b
  <2>1. x + 1 = b * (q + 1) + 0
    BY <1>1, <1>2
  <2> QED
    BY <1>1, <1>2, <2>1, DivMod
<1>3. CASE r + 1 # b
  <2>1. x + 1 = b * q + (r + 1) /\ r + 1 \in 0..b-1
    BY <1>1, <1>3
  <2> QED
    BY <1>1, <1>3, <2>1, DivMod
<1> QED
  BY <1>2, <1>3

(* More whole units are more.                                              *)
LEMMA DivGrows ==
  ASSUME NEW b \in Nat, b > 0, NEW x \in Nat, NEW y \in Nat, x \div b < y \div b
  PROVE  x < y
<1>1. PICK p \in Nat, r \in 0..b-1 : p = x \div b /\ x = b * p + r
  BY DivFacts
<1>2. PICK q \in Nat, s \in 0..b-1 : q = y \div b /\ y = b * q + s
  BY DivFacts
<1> QED
  BY <1>1, <1>2, Products

(* Adding c to x carries when what x leaves wraps.                         *)
Carried(b, x, c) ==
  /\ (x + c) \div b = x \div b + (((x % b) + c) \div b) /\ (x + c) % b = ((x % b) + c) % b
  /\ ((x % b) + c) \div b = IF c = 1 /\ (x + c) % b = 0 THEN 1 ELSE 0

(* One more second, or none, carries when the index comes to 0.            *)
LEMMA Carry ==
  ASSUME NEW b \in Nat, b > 0, NEW x \in Nat, NEW c \in {0, 1}
  PROVE  Carried(b, x, c)
<1>1. PICK q \in Nat, r \in 0..b-1 : q = x \div b /\ r = x % b /\ x = b * q + r
  BY DivFacts
<1>2. CASE r + c = b
  <2>1. /\ x + c = b * (q + 1) + 0 /\ r + c = b * 1 + 0 /\ c = 1 /\ 0 \in 0..b-1 /\ 1 \in Nat
        /\ q + 1 \in Nat
    BY <1>1, <1>2
  <2>2. (x + c) \div b = q + 1 /\ (x + c) % b = 0 /\ (r + c) \div b = 1 /\ (r + c) % b = 0
    BY <2>1, DivMod
  <2> QED
    BY <1>1, <2>1, <2>2 DEF Carried
<1>3. CASE r + c # b
  <2>1. x + c = b * q + (r + c) /\ r + c = b * 0 + (r + c) /\ r + c \in 0..b-1 /\ 0 \in Nat
    BY <1>1, <1>3
  <2>2. (x + c) \div b = q /\ (x + c) % b = r + c /\ (r + c) \div b = 0 /\ (r + c) % b = r + c
    BY <2>1, DivMod
  <2>3. ~(c = 1 /\ r + c = 0)
    OBVIOUS
  <2> QED
    BY <1>1, <2>2, <2>3 DEF Carried
<1> QED
  BY <1>2, <1>3

(* Less than a unit is no whole unit.                                      *)
LEMMA DivSmall ==
  ASSUME NEW b \in Nat, b > 0, NEW x \in 0..b-1
  PROVE  x \div b = 0 /\ x % b = x
<1>1. PICK q \in Nat, r \in 0..b-1 : q = x \div b /\ r = x % b /\ x = b * q + r
  BY DivFacts
<1>2. q > 0 => b * 0 + b <= b * q
  BY Products
<1>3. q = 0
  BY <1>1, <1>2
<1>4. b * 0 = 0
  OBVIOUS
<1> QED
  BY <1>1, <1>3, <1>4

-----------------------------------------------------------------------------
(* 2. The lists: what add_node, del_timer_core and the loops make of them. *)

(* A set of numbers that is not empty has a least one: what is true of the *)
(* first and passes from each number to the next is true of all.           *)
LEMMA LeastNat ==
  ASSUME NEW T, T \subseteq Nat, T # {}
  PROVE  \E x \in T : \A y \in T : x <= y
<1>1. \E x \in T : \A y \in T : ~ (<<y, x>> \in OpToRel(<, Nat))
  BY WFMin, NatLessThanWellFounded
<1>2. OpToRel(<, Nat) = {ss \in Nat \X Nat : ss[1] < ss[2]}
  BY Zenon DEF OpToRel
<1>3. \A x \in Nat, y \in Nat : <<y, x>> \in OpToRel(<, Nat) <=> y < x
  BY <1>2, Zenon
<1>4. \E x \in T : \A y \in T : ~ (y < x)
  BY <1>1, <1>3, Zenon
<1> QED
  BY <1>4

(* A link or a head, and the type of the wheel.                            *)
MaybeTimer == Timer \cup {NULL}
IsWheel(w) ==
  w \in [head : [Slot -> MaybeTimer], next : [Timer -> MaybeTimer], pre : [Timer -> MaybeTimer]]

(* The nodes On lie in the lists that start at heads; at is the slot of a  *)
(* node, behind how many nodes follow it...                                *)
HeadsAreIn(w, h, C, On, at, behind) ==
  /\ \A s \in Slot \ C : w.head[s] = h[s]
  /\ \A s \in Slot : h[s] # NULL => h[s] \in On /\ at[h[s]] = s
  /\ \A t \in On : h[at[t]] # NULL /\ behind[t] <= behind[h[at[t]]]

(* ... the link back of a node is that of the list, except that of the     *)
(* first node of a slot in C, whose list is being taken apart, ...         *)
BackLinks(w, h, C, X, On, at) ==
  \A t \in On : IF t = h[at[t]] THEN at[t] \in C \/ w.pre[t] = NULL
                ELSE w.pre[t] \in On \ X /\ at[w.pre[t]] = at[t] /\ w.next[w.pre[t]] = t

(* ... and so is the link to the next, except that of the nodes X: the     *)
(* node that repeats, though already in another slot, is still before the  *)
(* node whose turn it is, and del_timer_core writes into it.               *)
Links(w, X, On, at, behind) ==
  \A t \in On \ X : IF w.next[t] = NULL THEN behind[t] = 0
                    ELSE /\ w.next[t] \in On /\ at[w.next[t]] = at[t]
                         /\ w.pre[w.next[t]] = t /\ behind[t] = behind[w.next[t]] + 1

(* The lists are sound, but for the heads of the slots in C and the links  *)
(* of X to the next.                                                       *)
Lists(w, h, C, X, On, at, behind) ==
  /\ IsWheel(w) /\ h \in [Slot -> MaybeTimer] /\ On \subseteq Timer
  /\ at \in [Timer -> Slot] /\ behind \in [Timer -> Nat]
  /\ X \subseteq On /\ \A x \in X : behind[x] = 0 /\ at[x] \notin C
  /\ HeadsAreIn(w, h, C, On, at, behind)
  /\ BackLinks(w, h, C, X, On, at)
  /\ Links(w, X, On, at, behind)

(* add_node puts a node behind the first of its slot.                      *)
LEMMA NodeAdded ==
  ASSUME NEW w, NEW h, NEW C, NEW On, NEW at, NEW behind, Lists(w, h, C, {}, On, at, behind),
         NEW e \in Timer, e \notin On, NEW s \in Slot, s \notin C
  PROVE  Lists(AddNode(w, s, e), [h EXCEPT ![s] = IF @ = NULL THEN e ELSE @], C, {}, On \cup {e},
               [at EXCEPT ![e] = s],
               IF h[s] = NULL THEN [behind EXCEPT ![e] = 0]
               ELSE [behind EXCEPT ![e] = behind[h[s]], ![h[s]] = behind[h[s]] + 1])
<1>0. NULL \notin Timer
  BY WheelAssumption
<1>1. w.head[s] = h[s] /\ IsWheel(w) /\ On \subseteq Timer /\ h \in [Slot -> MaybeTimer]
      /\ at \in [Timer -> Slot] /\ behind \in [Timer -> Nat]
  BY DEF Lists, HeadsAreIn
<1>2. /\ \A d \in Slot \ C : w.head[d] = h[d]
      /\ \A d \in Slot : h[d] # NULL => h[d] \in On /\ at[h[d]] = d
      /\ \A t \in On : h[at[t]] # NULL /\ behind[t] <= behind[h[at[t]]]
  BY DEF Lists, HeadsAreIn
<1>3. \A t \in On : IF t = h[at[t]] THEN at[t] \in C \/ w.pre[t] = NULL
                ELSE w.pre[t] \in On /\ at[w.pre[t]] = at[t] /\ w.next[w.pre[t]] = t
  BY DEF Lists, BackLinks
<1>4. \A t \in On : IF w.next[t] = NULL THEN behind[t] = 0
                    ELSE /\ w.next[t] \in On /\ at[w.next[t]] = at[t]
                         /\ w.pre[w.next[t]] = t /\ behind[t] = behind[w.next[t]] + 1
  BY DEF Lists, Links
<1>5. CASE h[s] = NULL
  <2> DEFINE v == AddNode(w, s, e)
  <2>1. v = [w EXCEPT !.head[s] = e, !.next[e] = NULL, !.pre[e] = NULL]
    BY <1>1, <1>5 DEF AddNode
  <2>2. IsWheel(v) /\ v.head = [w.head EXCEPT ![s] = e] /\ v.next = [w.next EXCEPT ![e] = NULL]
        /\ v.pre = [w.pre EXCEPT ![e] = NULL]
    <3>1. v = [head |-> [w.head EXCEPT ![s] = e], next |-> [w.next EXCEPT ![e] = NULL], pre |-> [w.pre EXCEPT ![e] = NULL]]
      BY <1>1, <2>1 DEF IsWheel
    <3>2. [w.head EXCEPT ![s] = e] \in [Slot -> MaybeTimer] /\ [w.next EXCEPT ![e] = NULL] \in [Timer -> MaybeTimer]
          /\ [w.pre EXCEPT ![e] = NULL] \in [Timer -> MaybeTimer]
      BY <1>1 DEF IsWheel, MaybeTimer
    <3> HIDE DEF v
    <3> QED
      BY <3>1, <3>2 DEF IsWheel
  <2> HIDE DEF v
  <2> SUFFICES ASSUME NEW k, NEW a, NEW r, k = [h EXCEPT ![s] = e], a = [at EXCEPT ![e] = s], r = [behind EXCEPT ![e] = 0]
               PROVE  Lists(v, k, C, {}, On \cup {e}, a, r)
    BY <1>5 DEF v
  <2>3. /\ k \in [Slot -> MaybeTimer] /\ a \in [Timer -> Slot] /\ r \in [Timer -> Nat]
        /\ On \cup {e} \subseteq Timer
    BY <1>1 DEF MaybeTimer
  <2>4. \A t \in On : /\ at[t] # s /\ t # e /\ a[t] = at[t] /\ r[t] = behind[t]
                      /\ v.pre[t] = w.pre[t] /\ v.next[t] = w.next[t]
    BY <1>1, <1>2, <1>5, <2>2 DEF IsWheel
  <2>5. \A d \in Slot : d # s => k[d] = h[d] /\ v.head[d] = w.head[d]
    BY <1>1, <2>2 DEF IsWheel
  <2>6. k[s] = e /\ v.head[s] = e /\ a[e] = s /\ r[e] = 0 /\ v.pre[e] = NULL /\ v.next[e] = NULL
    BY <1>1, <2>2 DEF IsWheel
  <2>7. HeadsAreIn(v, k, C, On \cup {e}, a, r)
    <3>1. \A t \in On : at[t] \in Slot /\ behind[t] \in Nat
      BY <1>1
    <3>2. \A d \in Slot \ C : v.head[d] = k[d]
      BY <1>2, <2>5, <2>6
    <3>3. \A d \in Slot : k[d] # NULL => k[d] \in On \cup {e} /\ a[k[d]] = d
      BY <1>2, <2>4, <2>5, <2>6
    <3>4. \A t \in On \cup {e} : k[a[t]] # NULL /\ r[t] <= r[k[a[t]]]
      BY <1>0, <1>2, <2>4, <2>5, <2>6, <3>1
    <3> QED
      BY <3>2, <3>3, <3>4 DEF HeadsAreIn
  <2>8. BackLinks(v, k, C, {}, On \cup {e}, a)
    BY <1>1, <1>3, <2>4, <2>5, <2>6 DEF BackLinks
  <2>9. Links(v, {}, On \cup {e}, a, r)
    BY <1>1, <1>4, <2>4, <2>6 DEF Links
  <2> QED
    BY <2>2, <2>3, <2>7, <2>8, <2>9 DEF Lists
<1>6. CASE h[s] # NULL
  <2> SUFFICES ASSUME NEW f \in On, NEW g, f = h[s], g = w.next[f], at[f] = s
               PROVE  Lists(AddNode(w, s, e), h, C, {}, On \cup {e}, [at EXCEPT ![e] = s],
                            [behind EXCEPT ![e] = behind[f], ![f] = behind[f] + 1])
    <3>1. h = [h EXCEPT ![s] = h[s]]
      BY <1>1
    <3> QED
      BY <1>2, <1>6, <3>1
  <2> DEFINE v == AddNode(w, s, e)
  <2>1. v = [w EXCEPT !.next = [w.next EXCEPT ![e] = g, ![f] = e],
                      !.pre = IF g = NULL THEN [w.pre EXCEPT ![e] = f] ELSE [w.pre EXCEPT ![e] = f, ![g] = e]]
    BY <1>1, <1>6 DEF AddNode
  <2>2. g \in MaybeTimer /\ g # e /\ f # e /\ g # f
    BY <1>0, <1>1, <1>4 DEF IsWheel, MaybeTimer
  <2>3. IsWheel(v) /\ v.head = w.head /\ v.next = [w.next EXCEPT ![e] = g, ![f] = e]
        /\ v.pre = IF g = NULL THEN [w.pre EXCEPT ![e] = f] ELSE [w.pre EXCEPT ![e] = f, ![g] = e]
    <3> DEFINE p == IF g = NULL THEN [w.pre EXCEPT ![e] = f] ELSE [w.pre EXCEPT ![e] = f, ![g] = e]
    <3>1. v = [head |-> w.head, next |-> [w.next EXCEPT ![e] = g, ![f] = e], pre |-> p]
      BY <1>1, <2>1 DEF IsWheel
    <3>2. w.head \in [Slot -> MaybeTimer] /\ [w.next EXCEPT ![e] = g, ![f] = e] \in [Timer -> MaybeTimer]
          /\ p \in [Timer -> MaybeTimer]
      BY <1>1, <2>2 DEF IsWheel, MaybeTimer
    <3> HIDE DEF v, p
    <3>3. IsWheel(v) /\ v.head = w.head /\ v.next = [w.next EXCEPT ![e] = g, ![f] = e] /\ v.pre = p
      BY <3>1, <3>2 DEF IsWheel
    <3> QED
      BY <3>3 DEF p
  <2> HIDE DEF v
  <2> SUFFICES ASSUME NEW a, NEW r, a = [at EXCEPT ![e] = s], r = [behind EXCEPT ![e] = behind[f], ![f] = behind[f] + 1]
               PROVE  Lists(v, h, C, {}, On \cup {e}, a, r)
    BY DEF v
  <2>4. a \in [Timer -> Slot] /\ r \in [Timer -> Nat] /\ On \cup {e} \subseteq Timer
    BY <1>1
  <2>5. /\ \A t \in On : t # e /\ a[t] = at[t] /\ (t # f => r[t] = behind[t] /\ v.next[t] = w.next[t])
                         /\ (t # g => v.pre[t] = w.pre[t])
        /\ a[e] = s /\ r[e] = behind[f] /\ r[f] = behind[f] + 1
        /\ v.next[e] = g /\ v.next[f] = e /\ v.pre[e] = f /\ (g # NULL => v.pre[g] = e)
    BY <1>1, <2>2, <2>3 DEF IsWheel, MaybeTimer
  <2>6. \A t \in On : behind[t] \in Nat /\ at[t] \in Slot
    BY <1>1
  <2>7. HeadsAreIn(v, h, C, On \cup {e}, a, r)
    <3>1. ASSUME NEW t \in On PROVE h[a[t]] # NULL /\ r[t] <= r[h[a[t]]]
      <4>1. /\ a[t] = at[t] /\ at[t] \in Slot /\ h[at[t]] # NULL /\ behind[t] <= behind[h[at[t]]]
            /\ h[at[t]] \in On
        BY <1>2, <2>5, <2>6
      <4>2. behind[t] \in Nat /\ behind[f] \in Nat /\ behind[h[at[t]]] \in Nat
        BY <2>6, <4>1
      <4>3. (r[t] = behind[t] /\ t # f) \/ (t = f /\ h[at[t]] = f)
        BY <2>5
      <4>4. r[h[at[t]]] = behind[h[at[t]]] \/ r[h[at[t]]] = behind[h[at[t]]] + 1
        BY <2>5, <4>1
      <4> QED
        BY <4>1, <4>2, <4>3, <4>4
    <3>2. h[a[e]] # NULL /\ r[e] <= r[h[a[e]]]
      <4>1. a[e] = s /\ h[s] = f /\ r[e] = behind[f] /\ r[f] = behind[f] + 1 /\ behind[f] \in Nat
        BY <2>5, <2>6
      <4>2. h[a[e]] = f /\ h[a[e]] # NULL
        BY <1>6, <4>1, Zenon
      <4>3. r[e] <= r[f]
        BY ONLY <4>1
      <4> QED
        BY <4>2, <4>3, Zenon
    <3>3. \A d \in Slot : h[d] # NULL => h[d] \in On \cup {e} /\ a[h[d]] = d
      BY <1>2, <2>5
    <3> QED
      BY <1>2, <2>3, <3>1, <3>2, <3>3 DEF HeadsAreIn
  <2>8. g # NULL => g \in On /\ at[g] = s /\ w.pre[g] = f /\ behind[f] = behind[g] + 1
    BY <1>4
  <2>9. BackLinks(v, h, C, {}, On \cup {e}, a)
    <3>1. ASSUME NEW t \in On, t # g
          PROVE IF t = h[a[t]] THEN a[t] \in C \/ v.pre[t] = NULL
                ELSE v.pre[t] \in On \cup {e} /\ a[v.pre[t]] = a[t] /\ v.next[v.pre[t]] = t
      <4>1. t # h[at[t]] => w.pre[t] # f
        BY <1>3, <3>1
      <4> QED
        BY <1>3, <2>5, <3>1, <4>1
    <3>2. g # NULL => g # h[a[g]] /\ v.pre[g] = e /\ a[e] = a[g] /\ v.next[e] = g
      BY <2>2, <2>5, <2>8
    <3>3. e # h[a[e]] /\ v.pre[e] = f /\ a[f] = a[e] /\ v.next[f] = e
      BY <2>2, <2>5
    <3>4. f \in On /\ f \notin {} /\ e \in On \cup {e}
      OBVIOUS
    <3> QED
      <4>1. ASSUME NEW t \in On \cup {e}
            PROVE IF t = h[a[t]] THEN a[t] \in C \/ v.pre[t] = NULL
                ELSE v.pre[t] \in (On \cup {e}) \ {} /\ a[v.pre[t]] = a[t] /\ v.next[v.pre[t]] = t
        <5>1. CASE t = e
          BY <3>3, <5>1
        <5>2. CASE t = g /\ t # e
          <6>1. g # NULL
            BY <1>0, <1>1, <5>2
          <6>2. t # h[a[t]] /\ v.pre[t] = e /\ a[e] = a[t] /\ v.next[e] = t
            BY <3>2, <5>2, <6>1, Zenon
          <6> QED
            BY <6>2
        <5>3. CASE t # g /\ t # e
          BY <3>1, <5>3
        <5> QED
          BY <5>1, <5>2, <5>3
      <4> QED
        BY <4>1 DEF BackLinks
  <2>10. Links(v, {}, On \cup {e}, a, r)
    <3>1. ASSUME NEW t \in On, t # f
          PROVE IF v.next[t] = NULL THEN r[t] = 0
                ELSE /\ v.next[t] \in On \cup {e} /\ a[v.next[t]] = a[t]
                     /\ v.pre[v.next[t]] = t /\ r[t] = r[v.next[t]] + 1
      <4>1. w.next[t] # NULL => w.next[t] # g
        BY <1>4, <2>8, <3>1
      <4>2. w.next[t] # NULL => w.next[t] # f
        <5>1. w.next[t] # NULL => behind[t] = behind[w.next[t]] + 1 /\ at[w.next[t]] = at[t] /\ behind[t] <= behind[h[at[t]]]
          BY <1>2, <1>4
        <5> QED
          BY <2>6, <5>1
      <4> QED
        <5>1. CASE w.next[t] = NULL
          BY <1>4, <2>5, <3>1, <5>1
        <5>2. CASE w.next[t] # NULL
          <6>1. /\ w.next[t] \in On /\ at[w.next[t]] = at[t] /\ w.pre[w.next[t]] = t
                /\ behind[t] = behind[w.next[t]] + 1
            BY <1>4, <5>2
          <6>2. v.next[t] = w.next[t] /\ a[t] = at[t] /\ r[t] = behind[t]
            BY <2>5, <3>1
          <6>3. /\ a[w.next[t]] = at[w.next[t]] /\ r[w.next[t]] = behind[w.next[t]]
                /\ v.pre[w.next[t]] = w.pre[w.next[t]]
            BY <2>5, <4>1, <4>2, <5>2, <6>1
          <6> QED
            BY <5>2, <6>1, <6>2, <6>3
        <5> QED
          BY <5>1, <5>2
    <3>2. IF v.next[e] = NULL THEN r[e] = 0
                ELSE /\ v.next[e] \in On \cup {e} /\ a[v.next[e]] = a[e]
                     /\ v.pre[v.next[e]] = e /\ r[e] = r[v.next[e]] + 1
      <4>1. g = NULL => behind[f] = 0
        BY <1>4
      <4>2. g # NULL => g \in On /\ g # f /\ r[g] = behind[g] /\ a[g] = s /\ v.pre[g] = e
        BY <2>2, <2>5, <2>8
      <4>3. CASE g = NULL
        BY <2>5, <4>1, <4>3
      <4>4. CASE g # NULL
        BY <2>5, <2>8, <4>2, <4>4
      <4> QED
        BY <4>3, <4>4
    <3>3. v.next[f] # NULL /\ v.next[f] = e /\ a[e] = a[f] /\ v.pre[e] = f /\ r[f] = r[e] + 1
      <4>1. a[f] = s /\ e # NULL
        BY <1>0, <2>5
      <4> QED
        BY <2>5, <4>1
    <3>4. ASSUME NEW t \in On \cup {e}
          PROVE IF v.next[t] = NULL THEN r[t] = 0
                ELSE /\ v.next[t] \in On \cup {e} /\ a[v.next[t]] = a[t]
                     /\ v.pre[v.next[t]] = t /\ r[t] = r[v.next[t]] + 1
      <4>1. CASE t = e
        BY <3>2, <4>1
      <4>2. CASE t = f
        BY <3>3, <4>2
      <4>3. CASE t # e /\ t # f
        BY <3>1, <4>3
      <4> QED
        BY <4>1, <4>2, <4>3
    <3> QED
      BY <3>4 DEF Links
  <2> QED
    BY <1>1, <2>3, <2>4, <2>7, <2>9, <2>10 DEF Lists
<1> QED
  BY <1>5, <1>6

(* What add_node makes of sound lists, without the new ranks.              *)
HasAdded(w, h, C, On, at, behind, e, s) ==
  \E k, a, q : /\ Lists(AddNode(w, s, e), k, C, {}, On \cup {e}, a, q)
               /\ k = [h EXCEPT ![s] = IF @ = NULL THEN e ELSE @]
               /\ a = [at EXCEPT ![e] = s]
               /\ q[e] = IF h[s] = NULL THEN 0 ELSE behind[h[s]]

(* The same, for the proofs that only need one such.                       *)
LEMMA NodeIsAdded ==
  ASSUME NEW w, NEW h, NEW C, NEW On, NEW at, NEW behind, Lists(w, h, C, {}, On, at, behind),
         NEW e \in Timer, e \notin On, NEW s \in Slot, s \notin C
  PROVE  HasAdded(w, h, C, On, at, behind, e, s)
<1>1. Lists(AddNode(w, s, e), [h EXCEPT ![s] = IF @ = NULL THEN e ELSE @], C, {}, On \cup {e},
            [at EXCEPT ![e] = s],
            IF h[s] = NULL THEN [behind EXCEPT ![e] = 0]
            ELSE [behind EXCEPT ![e] = behind[h[s]], ![h[s]] = behind[h[s]] + 1])
  BY NodeAdded
<1>2. behind \in [Timer -> Nat] /\ (h[s] # NULL => h[s] \in On)
  BY DEF Lists, HeadsAreIn
<1>3. (IF h[s] = NULL THEN [behind EXCEPT ![e] = 0]
       ELSE [behind EXCEPT ![e] = behind[h[s]], ![h[s]] = behind[h[s]] + 1])[e]
      = IF h[s] = NULL THEN 0 ELSE behind[h[s]]
  BY <1>2
<1>4. PICK k, a, q : /\ k = [h EXCEPT ![s] = IF @ = NULL THEN e ELSE @]
                     /\ a = [at EXCEPT ![e] = s]
                     /\ q = IF h[s] = NULL THEN [behind EXCEPT ![e] = 0]
                            ELSE [behind EXCEPT ![e] = behind[h[s]], ![h[s]] = behind[h[s]] + 1]
  OBVIOUS
<1>5. Lists(AddNode(w, s, e), k, C, {}, On \cup {e}, a, q)
  BY ONLY <1>1, <1>4
<1>6. q[e] = IF h[s] = NULL THEN 0 ELSE behind[h[s]]
  BY ONLY <1>3, <1>4
<1> QED
  BY ONLY <1>4, <1>5, <1>6 DEF HasAdded

(* The list of slot c without its first node, which keeps its links.       *)
HasTaken(w, h, c, X, On, at, behind, e) ==
  \E k : /\ Lists(w, k, {c}, X, On \ {e}, at, behind) /\ k[c] = w.next[e]
         /\ \A d \in Slot : d # c => k[d] = h[d]

(* Taking the first node from the list of a slot.                          *)
LEMMA FirstTaken ==
  ASSUME NEW w, NEW h, NEW c \in Slot, NEW X, NEW On, NEW at, NEW behind,
         Lists(w, h, {c}, X, On, at, behind),
         NEW e, e = h[c], e # NULL
  PROVE  HasTaken(w, h, c, X, On, at, behind, e)
<1>0. NULL \notin Timer
  BY WheelAssumption
<1> SUFFICES ASSUME NEW n, n = w.next[e], e \in On, at[e] = c
             PROVE  HasTaken(w, h, c, X, On, at, behind, e)
  BY DEF Lists, HeadsAreIn
<1>1. IsWheel(w) /\ h \in [Slot -> MaybeTimer] /\ On \subseteq Timer /\ at \in [Timer -> Slot] /\ behind \in [Timer -> Nat]
      /\ X \subseteq On /\ \A x \in X : behind[x] = 0 /\ at[x] # c
  BY DEF Lists
<1>2. /\ \A d \in Slot \ {c} : w.head[d] = h[d]
      /\ \A d \in Slot : h[d] # NULL => h[d] \in On /\ at[h[d]] = d
      /\ \A t \in On : h[at[t]] # NULL /\ behind[t] <= behind[h[at[t]]]
  BY DEF Lists, HeadsAreIn
<1>3. \A t \in On : IF t = h[at[t]] THEN at[t] = c \/ w.pre[t] = NULL
                ELSE w.pre[t] \in On \ X /\ at[w.pre[t]] = at[t] /\ w.next[w.pre[t]] = t
  BY DEF Lists, BackLinks
<1>4. \A t \in On \ X : IF w.next[t] = NULL THEN behind[t] = 0
                    ELSE /\ w.next[t] \in On /\ at[w.next[t]] = at[t]
                         /\ w.pre[w.next[t]] = t /\ behind[t] = behind[w.next[t]] + 1
  BY DEF Lists, Links
<1>5. e \notin X /\ n \in MaybeTimer
  BY <1>1 DEF IsWheel
<1>6. \A t \in On : behind[t] \in Nat /\ at[t] \in Slot
  BY <1>1
<1>7. ASSUME NEW t \in On \ {e}, at[t] = c PROVE n # NULL /\ behind[t] <= behind[n] /\ w.pre[t] \in On \ X /\ w.next[w.pre[t]] = t
                                                  /\ at[w.pre[t]] = c
  <2>1. w.pre[t] \in On \ X /\ w.next[w.pre[t]] = t /\ at[w.pre[t]] = c
    BY <1>3, <1>7
  <2>2. behind[w.pre[t]] = behind[t] + 1 /\ behind[w.pre[t]] <= behind[e]
    <3>1. t # NULL
      BY <1>0, <1>1
    <3> QED
      BY <1>2, <1>4, <2>1, <3>1
  <2>3. behind[e] = 0 \/ (n # NULL /\ n \in On /\ behind[e] = behind[n] + 1)
    BY <1>4, <1>5
  <2>4. behind[t] \in Nat /\ behind[e] \in Nat /\ (n \in On => behind[n] \in Nat)
    BY <1>6
  <2>5. behind[e] # 0
    BY <2>2, <2>4
  <2> QED
    BY <2>1, <2>2, <2>3, <2>4, <2>5
<1>8. n # NULL => n \in On \ {e} /\ at[n] = c
  <2>1. n # NULL => n \in On /\ at[n] = c /\ behind[e] = behind[n] + 1
    BY <1>4, <1>5
  <2> QED
    BY <1>6, <2>1
<1>a. PICK k : k = [h EXCEPT ![c] = n]
  OBVIOUS
<1>9. k \in [Slot -> MaybeTimer] /\ k[c] = n /\ \A d \in Slot : d # c => k[d] = h[d]
  BY <1>1, <1>5, <1>a
<1>10. HeadsAreIn(w, k, {c}, On \ {e}, at, behind)
  <2>1. \A d \in Slot \ {c} : w.head[d] = k[d]
    BY <1>2, <1>9
  <2>2. \A d \in Slot : k[d] # NULL => k[d] \in On \ {e} /\ at[k[d]] = d
    BY <1>2, <1>8, <1>9
  <2>3. \A t \in On \ {e} : k[at[t]] # NULL /\ behind[t] <= behind[k[at[t]]]
    BY <1>2, <1>6, <1>7, <1>9
  <2> QED
    BY <2>1, <2>2, <2>3 DEF HeadsAreIn
<1>11. BackLinks(w, k, {c}, X, On \ {e}, at)
  <2>1. ASSUME NEW t \in On \ {e}
        PROVE IF t = k[at[t]] THEN at[t] = c \/ w.pre[t] = NULL
                ELSE w.pre[t] \in (On \ {e}) \ X /\ at[w.pre[t]] = at[t] /\ w.next[w.pre[t]] = t
    <3>1. CASE at[t] = c
      BY <1>7, <1>9, <3>1
    <3>2. CASE at[t] # c
      BY <1>3, <1>6, <1>9, <3>2
    <3> QED
      BY <3>1, <3>2
  <2> QED
    BY <2>1 DEF BackLinks
<1>12. Links(w, X, On \ {e}, at, behind)
  <2>1. ASSUME NEW t \in On \ X, w.next[t] # NULL PROVE w.next[t] # e
    <3>1. w.next[t] = e => behind[t] = behind[e] + 1 /\ at[t] = c /\ behind[t] <= behind[e]
      BY <1>2, <1>4, <2>1
    <3> QED
      BY <1>6, <3>1
  <2> QED
    BY <1>4, <2>1 DEF Links
<1>13. X \subseteq On \ {e}
  BY <1>1, <1>5
<1>14. Lists(w, k, {c}, X, On \ {e}, at, behind)
  BY <1>1, <1>9, <1>10, <1>11, <1>12, <1>13 DEF Lists
<1> QED
  BY <1>9, <1>14 DEF HasTaken

(* What del_timer_core makes of the lists: the next node takes over the    *)
(* link back of the one that goes.                                         *)
IsDeleted(w, h, c, X, On, at, behind, e) ==
  /\ Lists(DelTimerCore(w, e), h, {c}, X, On, at, behind)
  /\ h[c] # NULL => DelTimerCore(w, e).pre[h[c]] = w.pre[e]
  /\ h[c] = NULL => \A x \in X : DelTimerCore(w, e).next[x] = NULL

(* del_timer_core on the first node of the list that proc_node walks.      *)
LEMMA NodeDeleted ==
  ASSUME NEW w, NEW h, NEW c \in Slot, NEW X, NEW On, NEW at, NEW behind,
         Lists(w, h, {c}, X, On, at, behind),
         NEW e \in Timer, e \notin On, h[c] = w.next[e], w.pre[e] = NULL => X = {},
         w.pre[e] # NULL => X = {w.pre[e]}
  PROVE  IsDeleted(w, h, c, X, On, at, behind, e)
<1> SUFFICES /\ Lists(DelTimerCore(w, e), h, {c}, X, On, at, behind)
             /\ h[c] # NULL => DelTimerCore(w, e).pre[h[c]] = w.pre[e]
             /\ h[c] = NULL => \A x \in X : DelTimerCore(w, e).next[x] = NULL
  BY DEF IsDeleted
<1>0. NULL \notin Timer
  BY WheelAssumption
<1>1. IsWheel(w) /\ h \in [Slot -> MaybeTimer] /\ On \subseteq Timer /\ at \in [Timer -> Slot] /\ behind \in [Timer -> Nat]
      /\ X \subseteq On /\ \A x \in X : behind[x] = 0 /\ at[x] # c
  BY DEF Lists
<1>2. HeadsAreIn(w, h, {c}, On, at, behind)
  BY DEF Lists
<1>3. \A t \in On : IF t = h[at[t]] THEN at[t] = c \/ w.pre[t] = NULL
                ELSE w.pre[t] \in On \ X /\ at[w.pre[t]] = at[t] /\ w.next[w.pre[t]] = t
  BY DEF Lists, BackLinks
<1>4. \A t \in On \ X : IF w.next[t] = NULL THEN behind[t] = 0
                    ELSE /\ w.next[t] \in On /\ at[w.next[t]] = at[t]
                         /\ w.pre[w.next[t]] = t /\ behind[t] = behind[w.next[t]] + 1
  BY DEF Lists, Links
<1>5. h[c] # NULL => h[c] \in On /\ at[h[c]] = c
  BY <1>2 DEF HeadsAreIn
<1> SUFFICES ASSUME NEW v, v = DelTimerCore(w, e), NEW p, NEW n, p = w.pre[e], n = h[c],
                    n = w.next[e]
             PROVE  /\ Lists(v, h, {c}, X, On, at, behind)
                    /\ v.head = w.head
                    /\ n # NULL => v.pre[n] = p
                    /\ n = NULL => \A x \in X : v.next[x] = NULL
  OBVIOUS
<1>6. /\ p \in MaybeTimer /\ n \in MaybeTimer /\ (n # NULL => n \in On)
      /\ (IF p = NULL THEN X = {} ELSE X = {p})
  BY <1>1, <1>5 DEF IsWheel
<1> DEFINE nx == [(IF p = NULL THEN w.next ELSE [w.next EXCEPT ![p] = n]) EXCEPT ![e] = NULL]
           pr == [(IF n = NULL THEN w.pre ELSE [w.pre EXCEPT ![n] = p]) EXCEPT ![e] = NULL]
<1>7. v = [head |-> w.head, next |-> nx, pre |-> pr]
  BY <1>1 DEF DelTimerCore, IsWheel
<1>8. nx \in [Timer -> MaybeTimer] /\ pr \in [Timer -> MaybeTimer]
  BY <1>1, <1>6 DEF IsWheel, MaybeTimer
<1>9. /\ \A t \in On \ X : nx[t] = w.next[t]
      /\ \A x \in X : nx[x] = n
      /\ \A t \in On : t # n => pr[t] = w.pre[t]
      /\ n # NULL => pr[n] = p
  BY <1>1, <1>6 DEF IsWheel, MaybeTimer
<1> HIDE DEF nx, pr
<1>10. IsWheel(v) /\ v.head = w.head /\ v.next = nx /\ v.pre = pr
  BY <1>1, <1>7, <1>8 DEF IsWheel
<1>11. HeadsAreIn(v, h, {c}, On, at, behind)
  BY <1>2, <1>10 DEF HeadsAreIn
<1>12. BackLinks(v, h, {c}, X, On, at)
  <2>1. ASSUME NEW t \in On
        PROVE IF t = h[at[t]] THEN at[t] \in {c} \/ v.pre[t] = NULL
                ELSE v.pre[t] \in On \ X /\ at[v.pre[t]] = at[t] /\ v.next[v.pre[t]] = t
    <3>1. CASE t = n
      BY <1>0, <1>1, <1>5, <3>1
    <3>2. CASE t # n
      BY <1>3, <1>9, <1>10, <3>2
    <3> QED
      BY <3>1, <3>2
  <2> QED
    BY <2>1 DEF BackLinks
<1>13. Links(v, X, On, at, behind)
  <2>1. \A t \in On \ X : w.next[t] # NULL => w.next[t] # n
    <3>1. ASSUME NEW t \in On \ X, w.next[t] # NULL, w.next[t] = n PROVE FALSE
      <4>1. behind[t] = behind[n] + 1 /\ at[t] = c /\ n \in On
        BY <1>4, <1>5, <3>1
      <4>2. behind[t] <= behind[n]
        BY <1>2, <4>1 DEF HeadsAreIn
      <4> QED
        BY <1>1, <4>1, <4>2
    <3> QED
      BY <3>1
  <2> QED
    BY <1>4, <1>9, <1>10, <2>1 DEF Links
<1> QED
  BY <1>1, <1>9, <1>10, <1>11, <1>12, <1>13 DEF Lists

(* A sound list may be taken apart from its first node.                    *)
LEMMA SlotOpened ==
  ASSUME NEW w, NEW h, NEW On, NEW at, NEW behind, Lists(w, h, {}, {}, On, at, behind),
         NEW c \in Slot
  PROVE  h = w.head /\ Lists(w, h, {c}, {}, On, at, behind)
<1>1. w.head \in [Slot -> MaybeTimer] /\ h \in [Slot -> MaybeTimer] /\ \A d \in Slot : w.head[d] = h[d]
  BY DEF Lists, IsWheel, HeadsAreIn
<1>2. h = w.head
  BY <1>1
<1>3. HeadsAreIn(w, h, {c}, On, at, behind)
  BY DEF Lists, HeadsAreIn
<1>4. BackLinks(w, h, {c}, {}, On, at)
  BY DEF Lists, BackLinks
<1> QED
  BY <1>2, <1>3, <1>4 DEF Lists

(* The slot is set to NULL.                                                *)
IsEmptied(w, h, c, X, On, at, behind) == Lists([w EXCEPT !.head[c] = NULL], h, {}, {}, On, at, behind)

(* When all its nodes are gone, the slot that is emptied is an empty list. *)
LEMMA SlotEmptied ==
  ASSUME NEW w, NEW h, NEW c \in Slot, NEW X, NEW On, NEW at, NEW behind,
         Lists(w, h, {c}, X, On, at, behind),
         h[c] = NULL, \A x \in X : w.next[x] = NULL
  PROVE  IsEmptied(w, h, c, X, On, at, behind)
<1>1. IsWheel(w) /\ h \in [Slot -> MaybeTimer] /\ On \subseteq Timer /\ at \in [Timer -> Slot] /\ behind \in [Timer -> Nat]
      /\ X \subseteq On /\ \A x \in X : behind[x] = 0 /\ at[x] # c
  BY DEF Lists
<1>2. \A t \in On : at[t] # c
  BY DEF Lists, HeadsAreIn
<1> SUFFICES ASSUME NEW v, v = [w EXCEPT !.head[c] = NULL]
             PROVE  Lists(v, h, {}, {}, On, at, behind)
  BY DEF IsEmptied
<1>3. v = [head |-> [w.head EXCEPT ![c] = NULL], next |-> w.next, pre |-> w.pre]
  BY <1>1 DEF IsWheel
<1>4. [w.head EXCEPT ![c] = NULL] \in [Slot -> MaybeTimer]
  BY <1>1 DEF IsWheel, MaybeTimer
<1>5. IsWheel(v) /\ v.head = [w.head EXCEPT ![c] = NULL] /\ v.next = w.next /\ v.pre = w.pre
  BY <1>1, <1>3, <1>4 DEF IsWheel
<1>6. HeadsAreIn(v, h, {}, On, at, behind)
  <2>1. \A d \in Slot : v.head[d] = h[d]
    BY <1>1, <1>5 DEF Lists, HeadsAreIn, IsWheel
  <2> QED
    BY <2>1 DEF Lists, HeadsAreIn
<1>7. BackLinks(v, h, {}, {}, On, at)
  BY <1>2, <1>5 DEF Lists, BackLinks
<1>8. Links(v, {}, On, at, behind)
  <2>1. \A t \in On \ X : IF w.next[t] = NULL THEN behind[t] = 0
                    ELSE /\ w.next[t] \in On /\ at[w.next[t]] = at[t]
                         /\ w.pre[w.next[t]] = t /\ behind[t] = behind[w.next[t]] + 1
    BY DEF Lists, Links
  <2> QED
    BY <1>1, <1>5, <2>1 DEF Links
<1> QED
  BY <1>1, <1>5, <1>6, <1>7, <1>8 DEF Lists

(* The last node of a list has no link that the walk could spoil.          *)
LEMMA RepeaterLast ==
  ASSUME NEW w, NEW h, NEW C, NEW On, NEW at, NEW behind, Lists(w, h, C, {}, On, at, behind),
         NEW x \in On, behind[x] = 0, at[x] \notin C
  PROVE  w.next[x] = NULL /\ Lists(w, h, C, {x}, On, at, behind)
<1>1. \A t \in On : behind[t] \in Nat
  BY DEF Lists
<1>2. \A t \in On : IF w.next[t] = NULL THEN behind[t] = 0
                    ELSE /\ w.next[t] \in On /\ at[w.next[t]] = at[t]
                         /\ w.pre[w.next[t]] = t /\ behind[t] = behind[w.next[t]] + 1
  BY DEF Lists, Links
<1>3. w.next[x] = NULL
  BY <1>1, <1>2
<1>4. BackLinks(w, h, C, {x}, On, at)
  <2>1. NULL \notin On
    BY WheelAssumption DEF Lists
  <2> QED
    BY <1>3, <2>1 DEF Lists, BackLinks
<1>5. Links(w, {x}, On, at, behind)
  BY <1>2 DEF Links
<1> QED
  BY <1>3, <1>4, <1>5 DEF Lists

(* What a recursive definition over 0..n makes of one value after the      *)
(* other, there is.                                                        *)
IsTable(f, n, b, g) == f[0] = b /\ \A i \in 1..n : f[i] = g[f[i - 1]]
LEMMA TableExists ==
  ASSUME NEW n \in Nat, NEW S, NEW b \in S, NEW g \in [S -> S]
  PROVE  \E f \in [0..n -> S] : IsTable(f, n, b, g)
<1> DEFINE Has(m) == \E f \in [0..m -> S] : IsTable(f, m, b, g)
           T == {m \in Nat : ~Has(m)}
<1>1. Has(0)
  <2>1. 0..0 = {0} /\ 1..0 = {}
    OBVIOUS
  <2>2. [i \in {0} |-> b] \in [0..0 -> S] /\ IsTable([i \in {0} |-> b], 0, b, g)
    BY <2>1 DEF IsTable
  <2> QED
    BY <2>2
<1>2. ASSUME NEW m \in Nat, m # 0, Has(m - 1) PROVE Has(m)
  <2>1. PICK f \in [0..(m - 1) -> S] : f[0] = b /\ \A i \in 1..(m - 1) : f[i] = g[f[i - 1]]
    BY <1>2 DEF IsTable
  <2> DEFINE e == [i \in 0..m |-> IF i = m THEN g[f[m - 1]] ELSE f[i]]
  <2>2. /\ \A i \in 0..m : i # m => i \in 0..(m - 1)
        /\ \A i \in 1..m : i - 1 \in 0..(m - 1) /\ i - 1 # m /\ i \in 0..m /\ (i # m => i \in 1..(m - 1)) /\ i - 1 \in 0..m
        /\ m - 1 \in 0..(m - 1) /\ 0 \in 0..m /\ 0 # m
    BY <1>2
  <2>3. f[m - 1] \in S /\ \A i \in 0..(m - 1) : f[i] \in S
    BY <2>1, <2>2
  <2>4. e \in [0..m -> S]
    BY <2>2, <2>3
  <2>5. e[0] = b /\ \A i \in 1..m : e[i] = g[e[i - 1]]
    BY <2>1, <2>2
  <2> QED
    BY <2>4, <2>5 DEF IsTable
<1>3. CASE T # {}
  <2>1. PICK m \in T : \A k \in T : m <= k
    BY <1>3, LeastNat
  <2>2. m # 0
    BY <1>1, <2>1
  <2>3. m - 1 \in Nat /\ ~(m <= m - 1)
    BY <2>1, <2>2
  <2>4. Has(m - 1)
    <3>1. m - 1 \notin T
      BY <2>1, <2>3
    <3> QED
      BY <2>3, <3>1
  <2> HIDE DEF Has
  <2> QED
    BY <1>2, <2>1, <2>2, <2>4
<1>4. CASE T = {}
  <2>1. Has(n)
    <3> HIDE DEF Has
    <3> QED
      BY <1>4
  <2> QED
    BY <2>1
<1> QED
  BY <1>3, <1>4

(* Every node can be added to a slot of any wheel.                         *)
LEMMA AddNodeType ==
  ASSUME NEW w, IsWheel(w), NEW s \in Slot, NEW t \in Timer
  PROVE  IsWheel(AddNode(w, s, t))
<1>1. w.head[s] \in MaybeTimer
  BY DEF IsWheel
<1>2. CASE w.head[s] = NULL
  <2>1. AddNode(w, s, t) = [head |-> [w.head EXCEPT ![s] = t], next |-> [w.next EXCEPT ![t] = NULL], pre |-> [w.pre EXCEPT ![t] = NULL]]
    BY <1>2 DEF IsWheel, AddNode
  <2>2. [w.head EXCEPT ![s] = t] \in [Slot -> MaybeTimer] /\ [w.next EXCEPT ![t] = NULL] \in [Timer -> MaybeTimer]
        /\ [w.pre EXCEPT ![t] = NULL] \in [Timer -> MaybeTimer]
    BY DEF IsWheel, MaybeTimer
  <2> QED
    BY <2>1, <2>2 DEF IsWheel
<1>3. CASE w.head[s] # NULL
  <2> SUFFICES ASSUME NEW f \in Timer, NEW g \in MaybeTimer, f = w.head[s], g = w.next[f]
               PROVE  IsWheel(AddNode(w, s, t))
    BY <1>1, <1>3 DEF IsWheel, MaybeTimer
  <2> DEFINE p == IF g = NULL THEN [w.pre EXCEPT ![t] = f] ELSE [w.pre EXCEPT ![t] = f, ![g] = t]
  <2>1. AddNode(w, s, t) = [head |-> w.head, next |-> [w.next EXCEPT ![t] = g, ![f] = t], pre |-> p]
    BY <1>3 DEF IsWheel, AddNode
  <2>2. w.head \in [Slot -> MaybeTimer] /\ [w.next EXCEPT ![t] = g, ![f] = t] \in [Timer -> MaybeTimer]
        /\ p \in [Timer -> MaybeTimer]
    BY DEF IsWheel, MaybeTimer
  <2> HIDE DEF p
  <2> QED
    BY <2>1, <2>2 DEF IsWheel
<1> QED
  BY <1>2, <1>3

(* The turns of the loop that moves the nodes of slot s.                   *)
LEMMA MovesSteps ==
  ASSUME NEW w, IsWheel(w), NEW s \in Slot, NEW down \in Layer,
         \A t \in Timer : <<down, node[t].slot[down]>> \in Slot
  PROVE  /\ Moves(w, s, down)[0] = [wheel |-> w, at |-> w.head[s]]
         /\ \A k \in 1..Cardinality(Timer) :
              Moves(w, s, down)[k] = LET m == Moves(w, s, down)[k - 1]
                                     IN IF m.at = NULL THEN m
                                        ELSE [wheel |-> AddNode(m.wheel, <<down, node[m.at].slot[down]>>, m.at),
                                              at |-> m.wheel.next[m.at]]
<1>0. Cardinality(Timer) \in Nat
  BY WheelAssumption, FS_CardinalityType
<1> DEFINE S == [wheel : [head : [Slot -> MaybeTimer], next : [Timer -> MaybeTimer], pre : [Timer -> MaybeTimer]],
                 at : MaybeTimer]
           Turn(m) == IF m.at = NULL THEN m
                      ELSE [wheel |-> AddNode(m.wheel, <<down, node[m.at].slot[down]>>, m.at),
                            at |-> m.wheel.next[m.at]]
           b == [wheel |-> w, at |-> w.head[s]]
           g == [m \in S |-> Turn(m)]
           Is(f) == f = [k \in 0..Cardinality(Timer) |-> IF k = 0 THEN b ELSE Turn(f[k - 1])]
<1>1. b \in S
  BY DEF IsWheel
<1>2. ASSUME NEW m \in S PROVE Turn(m) \in S
  <2>1. CASE m.at = NULL
    BY <2>1
  <2>2. CASE m.at # NULL
    <3>1. m.at \in Timer /\ IsWheel(m.wheel)
      BY <2>2 DEF MaybeTimer, IsWheel
    <3>2. /\ IsWheel(AddNode(m.wheel, <<down, node[m.at].slot[down]>>, m.at))
          /\ m.wheel.next[m.at] \in MaybeTimer
      <4>1. m.wheel.next[m.at] \in MaybeTimer
        BY <3>1 DEF IsWheel
      <4>2. <<down, node[m.at].slot[down]>> \in Slot
        BY <3>1
      <4> QED
        BY <3>1, <4>1, <4>2, AddNodeType
    <3> QED
      BY <2>2, <3>2 DEF IsWheel
  <2> QED
    BY <2>1, <2>2
<1>3. g \in [S -> S] /\ \A m \in S : g[m] = Turn(m)
  <2> HIDE DEF S, Turn
  <2> QED
    BY <1>2
<1> HIDE DEF S, g, b
<1>4. PICK f \in [0..Cardinality(Timer) -> S] : f[0] = b /\ \A i \in 1..Cardinality(Timer) : f[i] = g[f[i - 1]]
  <2>1. \E f \in [0..Cardinality(Timer) -> S] : IsTable(f, Cardinality(Timer), b, g)
    BY <1>0, <1>1, <1>3, TableExists
  <2> QED
    BY <2>1 DEF IsTable
<1>5. \A i \in 0..Cardinality(Timer) : f[i] \in S /\ (i # 0 => i \in 1..Cardinality(Timer) /\ i - 1 \in 0..Cardinality(Timer))
                                       /\ (i \in 1..Cardinality(Timer) => i # 0)
  BY <1>0, <1>4
<1>6. \A i \in 0..Cardinality(Timer) : f[i] = IF i = 0 THEN b ELSE Turn(f[i - 1])
  <2> HIDE DEF Turn
  <2> QED
    BY <1>3, <1>4, <1>5
<1>7. Is(f)
  <2>1. f = [i \in 0..Cardinality(Timer) |-> f[i]]
    BY <1>4
  <2> HIDE DEF Turn
  <2> QED
    BY <1>6, <2>1
<1>8. Moves(w, s, down) = CHOOSE e : Is(e)
  BY DEF Moves, b
<1>9. Is(Moves(w, s, down))
  <2> HIDE DEF Is
  <2> QED
    BY <1>7, <1>8
<1> HIDE DEF Turn
<1>10. \A k \in 0..Cardinality(Timer) : Moves(w, s, down)[k] = IF k = 0 THEN b ELSE Turn(Moves(w, s, down)[k - 1])
  <2> DEFINE e == Moves(w, s, down)
  <2>1. Is(e)
    BY <1>9
  <2> HIDE DEF e
  <2>2. \A k \in 0..Cardinality(Timer) : e[k] = IF k = 0 THEN b ELSE Turn(e[k - 1])
    BY <2>1
  <2> QED
    BY <2>2 DEF e
<1>11. 0 \in 0..Cardinality(Timer) /\ \A k \in 1..Cardinality(Timer) : k \in 0..Cardinality(Timer) /\ k # 0
  BY <1>0
<1> QED
  BY <1>10, <1>11 DEF b, Turn

(* The lists when the first node e of slot s was added to slot d.          *)
HasMoved(v, s, d, e, On, a) ==
  \E k, b, q : /\ Lists(AddNode(v, d, e), k, {s}, {}, On, b, q)
               /\ k[s] = v.next[e] /\ b = [a EXCEPT ![e] = d]

(* A turn of the loop of proc_up_layer_node.                               *)
LEMMA FirstMoved ==
  ASSUME NEW v, NEW h, NEW s \in Slot, NEW On, NEW a, NEW r, Lists(v, h, {s}, {}, On, a, r),
         NEW e, e = h[s], e # NULL, NEW d \in Slot, d # s
  PROVE  e \in On /\ a[e] = s /\ HasMoved(v, s, d, e, On, a)
<1>1. e \in On /\ a[e] = s /\ On \subseteq Timer /\ h \in [Slot -> MaybeTimer]
  BY DEF Lists, HeadsAreIn
<1>2. HasTaken(v, h, s, {}, On, a, r, e)
  BY FirstTaken
<1>3. PICK k : Lists(v, k, {s}, {}, On \ {e}, a, r) /\ k[s] = v.next[e]
  BY <1>2 DEF HasTaken
<1>4. e \in Timer /\ e \notin On \ {e} /\ (On \ {e}) \cup {e} = On /\ d \notin {s}
  BY <1>1
<1>5. HasAdded(v, k, {s}, On \ {e}, a, r, e, d)
  BY <1>3, <1>4, NodeIsAdded
<1>6. PICK j, b, q : /\ Lists(AddNode(v, d, e), j, {s}, {}, (On \ {e}) \cup {e}, b, q)
                     /\ j = [k EXCEPT ![d] = IF @ = NULL THEN e ELSE @] /\ b = [a EXCEPT ![e] = d]
  BY ONLY <1>5 DEF HasAdded
<1>7. j[s] = k[s]
  BY <1>3, <1>6 DEF Lists
<1>8. Lists(AddNode(v, d, e), j, {s}, {}, On, b, q) /\ j[s] = v.next[e]
  BY ONLY <1>3, <1>4, <1>6, <1>7
<1>9. HasMoved(v, s, d, e, On, a)
  BY ONLY <1>6, <1>8 DEF HasMoved
<1> QED
  BY <1>1, <1>9

(* The lists when the nodes of slot s are in those of the layer below.     *)
IsMovedDown(v, s, down, On, at) ==
  \E k, a, r : /\ Lists(v, k, {}, {}, On, a, r)
               /\ \A t \in On : a[t] = IF at[t] = s THEN <<down, node[t].slot[down]>> ELSE at[t]

(* proc_up_layer_node moves all nodes of its slot, and no other.           *)
LEMMA MovedDown ==
  ASSUME NEW w, NEW h, NEW On, NEW at, NEW behind, Lists(w, h, {}, {}, On, at, behind),
         NEW s \in Slot, NEW down \in Layer, s[1] # down,
         \A t \in Timer : <<down, node[t].slot[down]>> \in Slot
  PROVE  IsMovedDown(MoveDown(w, s, down), s, down, On, at)
<1> DEFINE Target(t) == <<down, node[t].slot[down]>>
           N == Cardinality(Timer)
           Left(a) == {t \in On : a[t] = s}
           Got(m, k, h1, a, r) ==
             /\ Lists(m.wheel, h1, {s}, {}, On, a, r) /\ h1[s] = m.at
             /\ \A t \in On : a[t] = at[t] \/ (at[t] = s /\ a[t] = Target(t))
             /\ m.at = NULL \/ Cardinality(Left(a)) <= N - k
           P(m, k) == \E h1, a, r : Got(m, k, h1, a, r)
<1>1. N \in Nat /\ On \subseteq Timer /\ IsFiniteSet(On) /\ Cardinality(On) <= N /\ IsWheel(w)
  BY WheelAssumption, FS_CardinalityType, FS_Subset DEF Lists
<1>2. \A t \in Timer : Target(t) \in Slot /\ Target(t) # s
  OBVIOUS
<1>3. \A a : IsFiniteSet(Left(a)) /\ Cardinality(Left(a)) \in Nat /\ Cardinality(Left(a)) <= N
  <2> SUFFICES ASSUME NEW a PROVE IsFiniteSet(Left(a)) /\ Cardinality(Left(a)) \in Nat /\ Cardinality(Left(a)) <= N
    OBVIOUS
  <2>1. Left(a) \subseteq Timer
    BY <1>1
  <2> HIDE DEF Left
  <2>2. IsFiniteSet(Left(a)) /\ Cardinality(Left(a)) <= N
    BY <2>1, WheelAssumption, FS_Subset
  <2> QED
    BY <2>2, FS_CardinalityType
<1> SUFFICES ASSUME NEW M, M = Moves(w, s, down)
             PROVE  \E k, a, r : /\ Lists([M[N].wheel EXCEPT !.head[s] = NULL], k, {}, {}, On, a, r)
                                 /\ \A t \in On : a[t] = IF at[t] = s THEN Target(t) ELSE at[t]
  BY DEF MoveDown, IsMovedDown
<1>4. /\ M[0] = [wheel |-> w, at |-> w.head[s]]
      /\ \A k \in 1..N : M[k] = IF M[k - 1].at = NULL THEN M[k - 1]
                                ELSE [wheel |-> AddNode(M[k - 1].wheel, Target(M[k - 1].at), M[k - 1].at),
                                      at |-> M[k - 1].wheel.next[M[k - 1].at]]
  BY <1>1, MovesSteps
<1>5. P(M[0], 0)
  <2>1. h = w.head /\ Lists(w, h, {s}, {}, On, at, behind)
    BY SlotOpened
  <2>2. M[0].wheel = w /\ M[0].at = w.head[s]
    BY <1>4
  <2>3. Cardinality(Left(at)) <= N - 0
    <3> HIDE DEF Left, N
    <3> QED
      BY <1>1, <1>3
  <2>4. Got(M[0], 0, h, at, behind)
    <3> HIDE DEF Left, N, Target
    <3> QED
      BY <2>1, <2>2, <2>3
  <2> HIDE DEF Got
  <2> QED
    BY <2>4
<1>6. ASSUME NEW k \in 1..N, P(M[k - 1], k - 1) PROVE P(M[k], k)
  <2>1. PICK h1, a, r : Got(M[k - 1], k - 1, h1, a, r)
    <3> HIDE DEF Got
    <3> QED
      BY <1>6
  <2> SUFFICES ASSUME NEW m, m = M[k - 1], NEW e, e = m.at PROVE P(M[k], k)
    OBVIOUS
  <2>2. Lists(m.wheel, h1, {s}, {}, On, a, r) /\ h1[s] = e
        /\ (\A t \in On : a[t] = at[t] \/ (at[t] = s /\ a[t] = Target(t)))
        /\ (e = NULL \/ Cardinality(Left(a)) <= N - (k - 1))
    <3> HIDE DEF Left, N, Target
    <3> QED
      BY <2>1
  <2>3. CASE e = NULL
    <3>1. M[k] = m
      BY <1>4, <2>3
    <3>2. Got(m, k, h1, a, r)
      <4> HIDE DEF Left, N, Target
      <4> QED
        BY <2>2, <2>3
    <3> HIDE DEF Got
    <3> QED
      BY <3>1, <3>2
  <2>4. CASE e # NULL
    <3>1. M[k] = [wheel |-> AddNode(m.wheel, Target(e), e), at |-> m.wheel.next[e]]
      BY <1>4, <2>4
    <3>2. e \in On /\ a[e] = s
      <4>1. On \subseteq Timer /\ h1[s] \in On /\ a[h1[s]] = s
        BY <2>2, <2>4 DEF Lists, HeadsAreIn
      <4> QED
        BY <2>2, <4>1
    <3>3. Target(e) \in Slot /\ Target(e) # s /\ e \in Timer
      BY <1>1, <1>2, <3>2
    <3>4. PICK h2, b, q : /\ Lists(AddNode(m.wheel, Target(e), e), h2, {s}, {}, On, b, q)
                          /\ h2[s] = m.wheel.next[e] /\ b = [a EXCEPT ![e] = Target(e)]
      <4> HIDE DEF Target
      <4> QED
        <5>1. HasMoved(m.wheel, s, Target(e), e, On, a)
          <6> SUFFICES ASSUME NEW v, NEW d, v = m.wheel, d = Target(e) PROVE HasMoved(v, s, d, e, On, a)
            OBVIOUS
          <6>1. Lists(v, h1, {s}, {}, On, a, r)
            BY <2>2
          <6>2. e = h1[s] /\ e # NULL /\ d \in Slot /\ d # s
            BY <2>2, <2>4, <3>3
          <6>3. s \in Slot
            OBVIOUS
          <6> QED
            BY ONLY <6>1, <6>2, <6>3, FirstMoved
        <5> QED
          BY <5>1 DEF HasMoved
    <3>5. a \in [Timer -> Slot]
      BY <2>2 DEF Lists
    <3>6. \A t \in On : b[t] = at[t] \/ (at[t] = s /\ b[t] = Target(t))
      <4>1. at[e] = s
        BY <1>2, <2>2, <3>2, <3>3
      <4> HIDE DEF Target
      <4> QED
        BY <1>1, <2>2, <3>4, <3>5, <4>1
    <3>7. Left(b) = Left(a) \ {e}
      <4> HIDE DEF Target
      <4> QED
        BY <1>1, <3>2, <3>3, <3>4, <3>5
    <3>8. Cardinality(Left(b)) <= N - k
      <4>1. e \in Left(a)
        BY <3>2
      <4> HIDE DEF Left, N, Target
      <4>2. Cardinality(Left(b)) = Cardinality(Left(a)) - 1
        BY <1>3, <3>7, <4>1, FS_RemoveElement
      <4> QED
        BY <1>1, <1>3, <2>2, <2>4, <4>2
    <3>9. Got(M[k], k, h2, b, q)
      <4> HIDE DEF Left, N, Target
      <4> QED
        BY <3>1, <3>4, <3>6, <3>8
    <3> HIDE DEF Got
    <3> QED
      BY <3>9
  <2> QED
    BY <2>3, <2>4
<1> HIDE DEF P, N
<1>7. P(M[N], N)
  <2> DEFINE T == {k \in 0..N : ~P(M[k], k)}
  <2>1. CASE T = {}
    <3>1. N \in 0..N
      BY <1>1
    <3> QED
      BY <2>1, <3>1
  <2>2. CASE T # {}
    <3>1. PICK k \in T : \A j \in T : k <= j
      <4>1. T \subseteq Nat
        OBVIOUS
      <4> HIDE DEF T
      <4> QED
        BY <2>2, <4>1, LeastNat
    <3>2. k \in 0..N /\ ~P(M[k], k) /\ k # 0
      BY <1>5, <3>1
    <3>3. k \in 1..N /\ k - 1 \in 0..N /\ ~(k <= k - 1)
      BY <1>1, <3>2
    <3>4. P(M[k - 1], k - 1)
      BY <3>1, <3>3
    <3> QED
      BY <1>6, <3>2, <3>3, <3>4
  <2> QED
    BY <2>1, <2>2
<1>8. PICK h1, a, r : Got(M[N], N, h1, a, r)
  <2> HIDE DEF Got
  <2> QED
    BY <1>7 DEF P
<1>9. Lists(M[N].wheel, h1, {s}, {}, On, a, r) /\ h1[s] = M[N].at
      /\ (\A t \in On : a[t] = at[t] \/ (at[t] = s /\ a[t] = Target(t)))
      /\ (M[N].at = NULL \/ Cardinality(Left(a)) <= N - N)
  <2> HIDE DEF Left, Target
  <2> QED
    BY <1>8
<1>10. h1[s] = NULL
  <2>1. ASSUME h1[s] # NULL PROVE FALSE
    <3>1. Cardinality(Left(a)) <= 0
      BY <1>1, <1>9, <2>1
    <3>2. Left(a) = {}
      <4> HIDE DEF Left
      <4>1. Cardinality(Left(a)) = 0
        BY <1>3, <3>1
      <4> QED
        BY <1>3, <4>1, FS_EmptySet
    <3>3. h1[s] \in On /\ a[h1[s]] = s
      BY <1>9, <2>1 DEF Lists, HeadsAreIn
    <3> QED
      BY <3>2, <3>3
  <2> QED
    BY <2>1
<1>11. Lists([M[N].wheel EXCEPT !.head[s] = NULL], h1, {}, {}, On, a, r)
  <2>1. IsEmptied(M[N].wheel, h1, s, {}, On, a, r)
    BY <1>9, <1>10, SlotEmptied
  <2> QED
    BY <2>1 DEF IsEmptied
<1>12. \A t \in On : a[t] # s
  <2>1. \A t \in On : h1[a[t]] # NULL
    BY <1>9 DEF Lists, HeadsAreIn
  <2> QED
    BY <1>10, <2>1
<1>13. \A t \in On : a[t] = IF at[t] = s THEN Target(t) ELSE at[t]
  BY <1>9, <1>12
<1> HIDE DEF Target
<1> QED
  BY <1>11, <1>13

(* What the lists of a wheel say, slot by slot and node by node.           *)
LEMMA Ranks ==
  ASSUME NEW w, NEW h, NEW On, NEW at, NEW behind, Lists(w, h, {}, {}, On, at, behind)
  PROVE  /\ On \subseteq Timer /\ h = w.head
         /\ \A s \in Slot : h[s] # NULL => h[s] \in On /\ at[h[s]] = s
         /\ \A t \in On : /\ at[t] \in Slot /\ behind[t] \in Nat /\ t # NULL
                          /\ h[at[t]] \in On /\ h[at[t]] # NULL /\ at[h[at[t]]] = at[t] /\ behind[t] <= behind[h[at[t]]]
                          /\ IF t = h[at[t]] THEN w.pre[t] = NULL
                             ELSE /\ w.pre[t] \in On /\ at[w.pre[t]] = at[t] /\ w.next[w.pre[t]] = t
                                  /\ behind[w.pre[t]] = behind[t] + 1
                          /\ IF w.next[t] = NULL THEN behind[t] = 0
                             ELSE /\ w.next[t] \in On /\ at[w.next[t]] = at[t]
                                  /\ w.pre[w.next[t]] = t /\ behind[t] = behind[w.next[t]] + 1
<1>1. On \subseteq Timer /\ at \in [Timer -> Slot] /\ behind \in [Timer -> Nat]
  BY DEF Lists
<1>2. /\ \A s \in Slot : h[s] # NULL => h[s] \in On /\ at[h[s]] = s
      /\ \A t \in On : h[at[t]] # NULL /\ behind[t] <= behind[h[at[t]]]
  BY DEF Lists, HeadsAreIn
<1>3. \A t \in On : /\ at[t] \in Slot /\ behind[t] \in Nat /\ t # NULL
                    /\ h[at[t]] \in On /\ h[at[t]] # NULL /\ at[h[at[t]]] = at[t] /\ behind[t] <= behind[h[at[t]]]
  BY <1>1, <1>2, WheelAssumption
<1>4. \A t \in On : IF w.next[t] = NULL THEN behind[t] = 0
                    ELSE /\ w.next[t] \in On /\ at[w.next[t]] = at[t]
                         /\ w.pre[w.next[t]] = t /\ behind[t] = behind[w.next[t]] + 1
  BY DEF Lists, Links
<1>5. \A t \in On : IF t = h[at[t]] THEN w.pre[t] = NULL
                    ELSE w.pre[t] \in On /\ at[w.pre[t]] = at[t] /\ w.next[w.pre[t]] = t
  BY DEF Lists, BackLinks
<1>6. h = w.head
  <2>1. w.head \in [Slot -> MaybeTimer] /\ h \in [Slot -> MaybeTimer] /\ \A d \in Slot : w.head[d] = h[d]
    BY DEF Lists, IsWheel, HeadsAreIn
  <2> QED
    BY <2>1
<1>7. \A t \in On : t # h[at[t]] => behind[w.pre[t]] = behind[t] + 1
  BY <1>3, <1>4, <1>5
<1> QED
  BY <1>1, <1>2, <1>3, <1>4, <1>5, <1>6, <1>7

(* Two nodes of a slot are not followed by equally many.                   *)
LEMMA RanksDiffer ==
  ASSUME NEW w, NEW h, NEW On, NEW at, NEW behind, Lists(w, h, {}, {}, On, at, behind),
         NEW t \in On, NEW u \in On, at[t] = at[u], behind[t] = behind[u]
  PROVE  t = u
<1> DEFINE Twins(j) == \E x, y \in On : /\ at[x] = at[y] /\ behind[x] = behind[y] /\ x # y
                                        /\ behind[h[at[x]]] - behind[x] = j
           T == {j \in Nat : Twins(j)}
<1>1. ASSUME t # u PROVE FALSE
  <2>1. behind[h[at[t]]] - behind[t] \in Nat
    BY Ranks
  <2>2. Twins(behind[h[at[t]]] - behind[t])
    BY <1>1
  <2>3. PICK j \in T : \A i \in T : j <= i
    <3> HIDE DEF Twins
    <3>1. T # {} /\ T \subseteq Nat
      BY <2>1, <2>2
    <3> QED
      BY <3>1, LeastNat
  <2>4. PICK x \in On, y \in On : /\ at[x] = at[y] /\ behind[x] = behind[y] /\ x # y
                                  /\ behind[h[at[x]]] - behind[x] = j
    BY <2>3
  <2>5. behind[x] \in Nat /\ behind[h[at[x]]] \in Nat /\ h[at[x]] \in On
    BY Ranks
  <2>6. x # h[at[x]] /\ y # h[at[x]]
    <3>1. ASSUME x = h[at[x]] PROVE FALSE
      <4>1. behind[w.pre[y]] = behind[y] + 1 /\ at[w.pre[y]] = at[y] /\ w.pre[y] \in On
        BY <2>4, <3>1, Ranks
      <4>2. behind[w.pre[y]] <= behind[h[at[x]]]
        BY <2>4, <4>1, Ranks
      <4> QED
        BY <2>4, <2>5, <3>1, <4>1, <4>2
    <3>2. ASSUME y = h[at[x]] PROVE FALSE
      <4>1. behind[w.pre[x]] = behind[x] + 1 /\ at[w.pre[x]] = at[x] /\ w.pre[x] \in On
        BY <2>4, <3>2, Ranks
      <4>2. behind[w.pre[x]] <= behind[h[at[x]]]
        BY <4>1, Ranks
      <4>3. behind[x] + 1 <= behind[x]
        BY <2>4, <3>2, <4>1, <4>2
      <4> QED
        BY <2>5, <4>3
    <3> QED
      BY <3>1, <3>2
  <2>7. /\ w.pre[x] \in On /\ at[w.pre[x]] = at[x] /\ w.next[w.pre[x]] = x /\ behind[w.pre[x]] = behind[x] + 1
        /\ w.pre[y] \in On /\ at[w.pre[y]] = at[y] /\ w.next[w.pre[y]] = y /\ behind[w.pre[y]] = behind[y] + 1
    BY <2>4, <2>6, Ranks
  <2>8. behind[w.pre[x]] <= behind[h[at[x]]]
    BY <2>7, Ranks
  <2>9. j - 1 \in Nat /\ Twins(j - 1)
    <3>1. w.pre[x] # w.pre[y]
      BY <2>4, <2>7
    <3>2. j - 1 \in Nat /\ behind[h[at[w.pre[x]]]] - behind[w.pre[x]] = j - 1
      <4>1. \A a, b \in Nat : b + 1 <= a /\ a - b = j => j - 1 \in Nat /\ a - (b + 1) = j - 1
        OBVIOUS
      <4>2. h[at[w.pre[x]]] = h[at[x]]
        BY <2>7
      <4>3. behind[x] + 1 <= behind[h[at[x]]] /\ behind[h[at[x]]] - behind[x] = j
        BY <2>4, <2>7, <2>8
      <4>4. j - 1 \in Nat /\ behind[h[at[x]]] - (behind[x] + 1) = j - 1
        BY <2>5, <4>1, <4>3
      <4> QED
        BY <2>7, <4>2, <4>4
    <3>3. at[w.pre[x]] = at[w.pre[y]] /\ behind[w.pre[x]] = behind[w.pre[y]]
      BY <2>4, <2>7
    <3> QED
      BY <2>7, <3>1, <3>2, <3>3
  <2>10. j - 1 \in T /\ j \in Nat
    <3> HIDE DEF Twins
    <3> QED
      BY <2>3, <2>9
  <2> QED
    BY <2>3, <2>10
<1> QED
  BY <1>1

(* No list is longer than there are nodes.                                 *)
LEMMA ListsAreShort ==
  ASSUME NEW w, NEW h, NEW On, NEW at, NEW behind, Lists(w, h, {}, {}, On, at, behind),
         NEW s \in Slot, h[s] # NULL
  PROVE  behind[h[s]] + 1 <= Cardinality(Timer)
<1> SUFFICES ASSUME NEW r \in Nat, r = behind[h[s]]
             PROVE  r + 1 <= Cardinality(Timer)
  BY Ranks
<1> DEFINE Has(i) == \E t \in On : at[t] = s /\ behind[t] = i
           T == {j \in 0..r : ~Has(r - j)}
<1>1. T = {}
  <2>1. ASSUME T # {} PROVE FALSE
    <3>1. PICK j \in T : \A i \in T : j <= i
      <4>1. T \subseteq Nat
        OBVIOUS
      <4> HIDE DEF T
      <4> QED
        BY <2>1, <4>1, LeastNat
    <3>2. j \in 0..r /\ ~Has(r - j)
      BY <3>1
    <3>3. Has(r)
      BY Ranks
    <3>4. j # 0
      <4> HIDE DEF Has
      <4>1. j = 0 => r - j = r
        OBVIOUS
      <4> QED
        BY <3>2, <3>3, <4>1
    <3>5. /\ j - 1 \in 0..r /\ ~(j <= j - 1) /\ r - (j - 1) # 0 /\ r - (j - 1) \in Nat
          /\ r - (j - 1) = (r - j) + 1 /\ r - j \in Nat
      BY <3>2, <3>4
    <3>6. Has(r - (j - 1))
      <4> HIDE DEF Has
      <4> QED
        BY <3>1, <3>5
    <3>7. PICK t \in On : at[t] = s /\ behind[t] = r - (j - 1)
      BY <3>6
    <3>8. /\ w.next[t] \in On /\ at[w.next[t]] = s /\ behind[t] = behind[w.next[t]] + 1
          /\ behind[w.next[t]] \in Nat
      BY <3>5, <3>7, Ranks
    <3>9. behind[w.next[t]] = r - j
      BY <3>5, <3>7, <3>8
    <3> QED
      BY <3>2, <3>8, <3>9
  <2> QED
    BY <2>1
<1>2. \A i \in 0..r : Has(i)
  <2> SUFFICES ASSUME NEW i \in 0..r PROVE Has(i)
    OBVIOUS
  <2>1. r - i \in 0..r /\ r - (r - i) = i
    OBVIOUS
  <2> HIDE DEF Has
  <2> QED
    BY <1>1, <2>1
<1> DEFINE f == [i \in 0..r |-> CHOOSE t \in On : at[t] = s /\ behind[t] = i]
<1>3. \A i \in 0..r : f[i] \in On /\ behind[f[i]] = i
  BY <1>2
<1> HIDE DEF Has
<1>4. f \in Injection(0..r, Timer)
  <2>1. On \subseteq Timer
    BY DEF Lists
  <2>2. f = [i \in 0..r |-> f[i]]
    OBVIOUS
  <2> HIDE DEF f
  <2>3. f \in [0..r -> Timer] /\ \A i, j \in 0..r : f[i] = f[j] => i = j
    BY <1>3, <2>1, <2>2
  <2> QED
    BY <2>3 DEF Injection, IsInjective
<1> HIDE DEF f
<1>5. Cardinality(0..r) <= Cardinality(Timer) /\ Cardinality(0..r) = r + 1
  <2>1. Cardinality(0..r) <= Cardinality(Timer)
    BY <1>4, WheelAssumption, FS_Injection
  <2>2. Cardinality(0..r) = IF 0 > r THEN 0 ELSE r-0+1
    BY FS_Interval
  <2> QED
    BY <2>1, <2>2
<1> QED
  BY <1>5

(* The walk along a slot, step by step.                                    *)
LEMMA NodesOfSteps ==
  ASSUME IsWheel(wheel), NEW s \in Slot, Cardinality(Timer) # 0
  PROVE  /\ NodesOf(s)[1] = wheel.head[s]
         /\ \A k \in 2..Cardinality(Timer) :
              NodesOf(s)[k] = IF NodesOf(s)[k - 1] = NULL THEN NULL ELSE wheel.next[NodesOf(s)[k - 1]]
<1> SUFFICES ASSUME NEW b \in MaybeTimer, NEW nx \in [Timer -> MaybeTimer], b = wheel.head[s],
                    nx = wheel.next
             PROVE  /\ NodesOf(s)[1] = b
                    /\ \A k \in 2..Cardinality(Timer) :
                         NodesOf(s)[k] = IF NodesOf(s)[k - 1] = NULL THEN NULL ELSE nx[NodesOf(s)[k - 1]]
  BY DEF IsWheel
<1> SUFFICES ASSUME NEW N \in Nat, N = Cardinality(Timer)
             PROVE  /\ NodesOf(s)[1] = b
                    /\ \A k \in 2..N :
                         NodesOf(s)[k] = IF NodesOf(s)[k - 1] = NULL THEN NULL ELSE nx[NodesOf(s)[k - 1]]
  BY WheelAssumption, FS_CardinalityType
<1> DEFINE g == [x \in MaybeTimer |-> IF x = NULL THEN NULL ELSE nx[x]]
           Is(f) == f = [k \in 1..N |-> IF k = 1 THEN b ELSE IF f[k - 1] = NULL THEN NULL ELSE nx[f[k - 1]]]
<1>1. g \in [MaybeTimer -> MaybeTimer]
  BY DEF MaybeTimer
<1>2. \A x \in MaybeTimer : g[x] = IF x = NULL THEN NULL ELSE nx[x]
  OBVIOUS
<1> HIDE DEF g
<1>3. PICK e \in [0..N -> MaybeTimer] : e[0] = b /\ \A i \in 1..N : e[i] = g[e[i - 1]]
  <2>1. \E e \in [0..N -> MaybeTimer] : IsTable(e, N, b, g)
    BY <1>1, TableExists
  <2> QED
    BY <2>1 DEF IsTable
<1>4. Is([k \in 1..N |-> e[k - 1]])
  <2>1. PICK f : f = [k \in 1..N |-> e[k - 1]]
    OBVIOUS
  <2>2. \A k \in 1..N : f[k] = IF k = 1 THEN b ELSE IF f[k - 1] = NULL THEN NULL ELSE nx[f[k - 1]]
    <3> SUFFICES ASSUME NEW k \in 1..N PROVE f[k] = IF k = 1 THEN b ELSE IF f[k - 1] = NULL THEN NULL ELSE nx[f[k - 1]]
      OBVIOUS
    <3>1. CASE k = 1
      BY <1>3, <2>1, <3>1
    <3>2. CASE k # 1
      <4>1. k - 1 \in 1..N /\ k - 1 - 1 \in 0..N /\ k - 1 \in 0..N
        BY <3>2
      <4>2. /\ f[k] = e[k - 1] /\ f[k - 1] = e[k - 1 - 1] /\ e[k - 1] = g[e[k - 1 - 1]]
            /\ e[k - 1 - 1] \in MaybeTimer
        BY <1>3, <2>1, <4>1
      <4> QED
        BY <1>2, <3>2, <4>2
    <3> QED
      BY <3>1, <3>2
  <2>3. f = [k \in 1..N |-> f[k]]
    BY <2>1
  <2>4. Is(f)
    BY <2>2, <2>3
  <2> QED
    BY <2>1, <2>4
<1>5. NodesOf(s) = CHOOSE f : Is(f)
  BY DEF NodesOf
<1>6. Is(NodesOf(s))
  <2> HIDE DEF Is
  <2> QED
    BY <1>4, <1>5
<1> SUFFICES ASSUME NEW f, f = NodesOf(s)
             PROVE  f[1] = b /\ \A k \in 2..N : f[k] = IF f[k - 1] = NULL THEN NULL ELSE nx[f[k - 1]]
  OBVIOUS
<1>7. \A k \in 1..N : f[k] = IF k = 1 THEN b ELSE IF f[k - 1] = NULL THEN NULL ELSE nx[f[k - 1]]
  BY <1>6
<1>8. 1 \in 1..N /\ \A k \in 2..N : k \in 1..N /\ k # 1
  OBVIOUS
<1> QED
  BY <1>7, <1>8

(* The k-th node of slot s, for every k.                                   *)
LEMMA NodesWalked ==
  ASSUME NEW h, NEW at, NEW behind, Lists(wheel, h, {}, {}, Armed, at, behind), NEW s \in Slot,
         NEW k \in 1..Cardinality(Timer)
  PROVE  IF h[s] # NULL /\ k <= behind[h[s]] + 1
         THEN NodeAt(<<s, k>>) \in Armed /\ at[NodeAt(<<s, k>>)] = s /\ behind[NodeAt(<<s, k>>)] = behind[h[s]] + 1 - k
         ELSE NodeAt(<<s, k>>) = NULL
<1> SUFFICES ASSUME NEW f, f = NodesOf(s), NEW N, N = Cardinality(Timer), NEW w, w = wheel,
                    NEW On, On = Armed
             PROVE  IF h[s] # NULL /\ k <= behind[h[s]] + 1
                    THEN f[k] \in On /\ at[f[k]] = s /\ behind[f[k]] = behind[h[s]] + 1 - k
                    ELSE f[k] = NULL
  BY DEF NodeAt
<1>0. Lists(w, h, {}, {}, On, at, behind)
  OBVIOUS
<1>1. N \in Nat /\ N # 0
  <2>1. N \in Nat
    BY WheelAssumption, FS_CardinalityType
  <2> QED
    BY <2>1
<1>2. f[1] = h[s] /\ \A i \in 2..N : f[i] = IF f[i - 1] = NULL THEN NULL ELSE w.next[f[i - 1]]
  <2>1. IsWheel(wheel) /\ h = wheel.head
    BY <1>0, Ranks DEF Lists
  <2> QED
    BY <1>1, <2>1, NodesOfSteps
<1>3. /\ h[s] # NULL => h[s] \in On /\ at[h[s]] = s
      /\ \A t \in On : /\ behind[t] \in Nat /\ t # NULL
                       /\ IF w.next[t] = NULL THEN behind[t] = 0
                          ELSE w.next[t] \in On /\ at[w.next[t]] = at[t] /\ behind[t] = behind[w.next[t]] + 1
  BY <1>0, Ranks
<1> SUFFICES ASSUME NEW r, r = behind[h[s]]
             PROVE  IF h[s] # NULL /\ k <= r + 1
                    THEN f[k] \in On /\ at[f[k]] = s /\ behind[f[k]] = r + 1 - k
                    ELSE f[k] = NULL
  OBVIOUS
<1> DEFINE Good(i) == IF h[s] # NULL /\ i <= r + 1
                      THEN f[i] \in On /\ at[f[i]] = s /\ behind[f[i]] = r + 1 - i
                      ELSE f[i] = NULL
           T == {i \in 1..N : ~Good(i)}
<1>4. h[s] # NULL => r \in Nat
  BY <1>3
<1>5. Good(1)
  BY <1>2, <1>3, <1>4
<1>6. ASSUME NEW i \in 2..N, Good(i - 1) PROVE Good(i)
  <2>1. f[i] = IF f[i - 1] = NULL THEN NULL ELSE w.next[f[i - 1]]
    BY <1>2
  <2>2. CASE h[s] = NULL
    BY <1>6, <2>1, <2>2
  <2>3. CASE h[s] # NULL /\ i - 1 <= r + 1
    <3>1. /\ f[i - 1] \in On /\ at[f[i - 1]] = s /\ behind[f[i - 1]] = r + 1 - (i - 1) /\ r \in Nat
          /\ i \in Nat
      BY <1>4, <1>6, <2>3
    <3>2. f[i] = w.next[f[i - 1]] /\ behind[f[i - 1]] \in Nat
      BY <1>3, <2>1, <3>1
    <3>3. CASE i <= r + 1
      <4>1. behind[f[i - 1]] # 0
        BY <3>1, <3>3
      <4>2. /\ f[i] \in On /\ at[f[i]] = s /\ behind[f[i - 1]] = behind[f[i]] + 1
            /\ behind[f[i]] \in Nat
        BY <1>3, <3>1, <3>2, <4>1
      <4>3. behind[f[i]] = r + 1 - i
        BY <3>1, <4>2
      <4> QED
        BY <2>3, <3>3, <4>2, <4>3
    <3>4. CASE ~(i <= r + 1)
      <4>1. behind[f[i - 1]] = 0
        BY <2>3, <3>1, <3>4
      <4>2. f[i] = NULL
        <5>1. w.next[f[i - 1]] # NULL => behind[w.next[f[i - 1]]] \in Nat /\ behind[f[i - 1]] = behind[w.next[f[i - 1]]] + 1
          BY <1>3, <3>1
        <5> QED
          BY <3>2, <4>1, <5>1
      <4> QED
        BY <3>4, <4>2
    <3> QED
      BY <3>3, <3>4
  <2>4. CASE h[s] # NULL /\ ~(i - 1 <= r + 1)
    <3>1. ~(i <= r + 1)
      BY <1>4, <2>4
    <3> QED
      BY <1>6, <2>1, <2>4, <3>1
  <2> QED
    BY <2>2, <2>3, <2>4
<1> HIDE DEF Good
<1>7. T = {}
  <2>1. ASSUME T # {} PROVE FALSE
    <3>1. PICK i \in T : \A j \in T : i <= j
      <4>1. T \subseteq Nat
        OBVIOUS
      <4> HIDE DEF T
      <4> QED
        BY <2>1, <4>1, LeastNat
    <3>2. i \in 2..N /\ i - 1 \in 1..N /\ ~(i <= i - 1)
      BY <1>1, <1>5, <3>1
    <3>3. Good(i - 1)
      BY <3>1, <3>2
    <3> QED
      BY <1>6, <3>1, <3>2, <3>3
  <2> QED
    BY <2>1
<1>8. Good(k)
  BY <1>7
<1> QED
  BY <1>8 DEF Good

(* Lists that the nodes lie in are what ListsAreSound asks for.            *)
LEMMA ListsOfNodes ==
  ASSUME NEW h, NEW at, NEW behind, Lists(wheel, h, {}, {}, Armed, at, behind)
  PROVE  /\ Armed = {NodeAt(p) : p \in Places}
         /\ \A p \in Places, q \in Places : NodeAt(p) = NodeAt(q) => p = q
         /\ \A p \in Places :
              wheel.pre[NodeAt(p)] = IF p[2] = 1 THEN NULL ELSE NodeAt(<<p[1], p[2] - 1>>)
<1>1. Cardinality(Timer) \in Nat
  BY WheelAssumption, FS_CardinalityType
<1> DEFINE r(p) == behind[h[p[1]]]
<1>2. ASSUME NEW p \in Places
      PROVE  /\ p = <<p[1], p[2]>> /\ p[1] \in Slot /\ p[2] \in 1..Cardinality(Timer) /\ p[2] \in Nat
             /\ h[p[1]] # NULL /\ r(p) \in Nat /\ p[2] <= r(p) + 1
             /\ NodeAt(p) \in Armed /\ at[NodeAt(p)] = p[1] /\ behind[NodeAt(p)] = r(p) + 1 - p[2]
  <2>1. p = <<p[1], p[2]>> /\ p[1] \in Slot /\ p[2] \in 1..Cardinality(Timer) /\ NodeAt(p) # NULL
    BY DEF Places
  <2>2. h[p[1]] # NULL /\ p[2] <= r(p) + 1
        /\ NodeAt(p) \in Armed /\ at[NodeAt(p)] = p[1] /\ behind[NodeAt(p)] = r(p) + 1 - p[2]
    <3>1. IF h[p[1]] # NULL /\ p[2] <= behind[h[p[1]]] + 1
         THEN NodeAt(<<p[1], p[2]>>) \in Armed /\ at[NodeAt(<<p[1], p[2]>>)] = p[1] /\ behind[NodeAt(<<p[1], p[2]>>)] = behind[h[p[1]]] + 1 - p[2]
         ELSE NodeAt(<<p[1], p[2]>>) = NULL
      BY <2>1, NodesWalked
    <3>2. NodeAt(<<p[1], p[2]>>) = NodeAt(p)
      BY <2>1, Zenon
    <3> QED
      BY <2>1, <3>1, <3>2
  <2>3. r(p) \in Nat
    BY <2>1, <2>2, Ranks
  <2> QED
    BY <2>1, <2>2, <2>3
<1>3. ASSUME NEW t \in Armed PROVE \E p \in Places : NodeAt(p) = t
  <2>1. /\ at[t] \in Slot /\ behind[t] \in Nat /\ h[at[t]] # NULL /\ behind[h[at[t]]] \in Nat
        /\ behind[t] <= behind[h[at[t]]]
    BY Ranks
  <2>2. behind[h[at[t]]] + 1 <= Cardinality(Timer)
    BY <2>1, ListsAreShort
  <2>3. PICK k \in Nat : k = behind[h[at[t]]] + 1 - behind[t]
    BY <2>1
  <2>4. /\ k \in 1..Cardinality(Timer) /\ k <= behind[h[at[t]]] + 1
        /\ behind[h[at[t]]] + 1 - k = behind[t]
    BY <1>1, <2>1, <2>2, <2>3
  <2>5. /\ NodeAt(<<at[t], k>>) \in Armed /\ at[NodeAt(<<at[t], k>>)] = at[t]
        /\ behind[NodeAt(<<at[t], k>>)] = behind[t]
    BY <2>1, <2>4, NodesWalked
  <2>6. NodeAt(<<at[t], k>>) = t
    BY <2>5, RanksDiffer
  <2>7. t # NULL
    BY WheelAssumption DEF Armed
  <2> QED
    <3>1. <<at[t], k>> \in Slot \X (1..Cardinality(Timer)) /\ NodeAt(<<at[t], k>>) # NULL
      BY <2>1, <2>4, <2>6, <2>7
    <3>2. <<at[t], k>> \in Places
      BY <3>1 DEF Places
    <3> QED
      BY <2>6, <3>2
<1>4. Armed = {NodeAt(p) : p \in Places}
  BY <1>2, <1>3
<1>5. ASSUME NEW p \in Places, NEW q \in Places, NodeAt(p) = NodeAt(q) PROVE p = q
  <2>1. p[1] = q[1] /\ r(p) + 1 - p[2] = r(q) + 1 - q[2] /\ r(p) = r(q)
    BY <1>2, <1>5
  <2>2. p[2] = q[2]
    <3>1. \A a, b, c \in Nat : a + 1 - b = a + 1 - c => b = c
      OBVIOUS
    <3>2. r(p) \in Nat /\ p[2] \in Nat /\ q[2] \in Nat
      BY <1>2
    <3> HIDE DEF r
    <3> QED
      BY <2>1, <3>1, <3>2
  <2>3. p = <<p[1], p[2]>> /\ q = <<q[1], q[2]>>
    BY <1>2
  <2> QED
    BY <2>1, <2>2, <2>3
<1>6. ASSUME NEW p \in Places PROVE wheel.pre[NodeAt(p)] = IF p[2] = 1 THEN NULL ELSE NodeAt(<<p[1], p[2] - 1>>)
  <2> SUFFICES ASSUME NEW t \in Armed, t = NodeAt(p), NEW s \in Slot, s = p[1], NEW k \in 1..Cardinality(Timer), k = p[2]
               PROVE  wheel.pre[t] = IF k = 1 THEN NULL ELSE NodeAt(<<s, k - 1>>)
    BY <1>2
  <2>1. /\ at[t] = s /\ behind[t] = behind[h[s]] + 1 - k /\ h[s] # NULL /\ behind[h[s]] \in Nat
        /\ k <= behind[h[s]] + 1
    BY <1>2
  <2>2. h[s] \in Armed /\ at[h[s]] = s
    BY <2>1, Ranks
  <2>3. CASE k = 1
    <3>1. behind[t] = behind[h[s]]
      BY <2>1, <2>3
    <3>2. t = h[s]
      BY <2>1, <2>2, <3>1, RanksDiffer
    <3> QED
      BY <2>1, <2>3, <3>2, Ranks
  <2>4. CASE k # 1
    <3>1. k - 1 \in 1..Cardinality(Timer) /\ k - 1 <= behind[h[s]] + 1
      BY <1>1, <2>1, <2>4
    <3>2. NodeAt(<<s, k - 1>>) \in Armed /\ at[NodeAt(<<s, k - 1>>)] = s
          /\ behind[NodeAt(<<s, k - 1>>)] = behind[h[s]] + 1 - (k - 1)
      BY <2>1, <3>1, NodesWalked
    <3>3. t # h[s]
      BY <2>1, <2>4
    <3>4. wheel.pre[t] \in Armed /\ at[wheel.pre[t]] = s /\ behind[wheel.pre[t]] = behind[t] + 1
      BY <2>1, <3>3, Ranks
    <3>5. behind[wheel.pre[t]] = behind[NodeAt(<<s, k - 1>>)]
      <4>1. \A a, c \in Nat : (a + 1 - c) + 1 = a + 1 - (c - 1)
        OBVIOUS
      <4>2. k \in Nat
        OBVIOUS
      <4> QED
        BY <2>1, <3>2, <3>4, <4>1, <4>2
    <3>6. wheel.pre[t] = NodeAt(<<s, k - 1>>)
      BY <3>2, <3>4, <3>5, RanksDiffer
    <3> QED
      BY <2>4, <3>6
  <2> QED
    BY <2>3, <2>4
<1> QED
  BY <1>4, <1>5, <1>6

-----------------------------------------------------------------------------
(* 3. When a node runs: the second that its slots stand for.               *)

(* The whole units of each layer in x seconds, and the indices after them. *)
Turns(x) ==
  [second |-> x, minute |-> x \div SECOND_IN_MINUTE,
   hour |-> (x \div SECOND_IN_MINUTE) \div MINUTE_IN_HOUR,
   day |-> ((x \div SECOND_IN_MINUTE) \div MINUTE_IN_HOUR) \div HOUR_IN_DAY]

(* The indices of the layers after x seconds.                              *)
IndexAt(x) ==
  [second |-> x % SECOND_IN_MINUTE, minute |-> Turns(x).minute % MINUTE_IN_HOUR,
   hour |-> Turns(x).hour % HOUR_IN_DAY, day |-> Turns(x).day % DayNum]

(* The sizes of the units are numbers, none of them 0.                     *)
LEMMA UnitFacts ==
  /\ SECOND_IN_MINUTE \in Nat /\ SECOND_IN_MINUTE > 0 /\ MINUTE_IN_HOUR \in Nat /\ MINUTE_IN_HOUR > 0
  /\ HOUR_IN_DAY \in Nat /\ HOUR_IN_DAY > 0 /\ DayNum \in Nat /\ DayNum > 0
  /\ MINUTE_IN_HOUR = SECOND_IN_MINUTE
  /\ SECOND_IN_HOUR \in Nat /\ SECOND_IN_HOUR > 0 /\ SECOND_IN_DAY \in Nat /\ SECOND_IN_DAY > 0
<1>1. /\ SECOND_IN_MINUTE \in Nat /\ SECOND_IN_MINUTE > 0 /\ MINUTE_IN_HOUR \in Nat /\ MINUTE_IN_HOUR > 0
      /\ HOUR_IN_DAY \in Nat /\ HOUR_IN_DAY > 0 /\ DayNum \in Nat /\ DayNum > 0
      /\ MINUTE_IN_HOUR = SECOND_IN_MINUTE
  BY WheelAssumption
<1>2. SECOND_IN_HOUR \in Nat /\ SECOND_IN_HOUR > 0
  BY <1>1, DivDiv DEF SECOND_IN_HOUR
<1>3. SECOND_IN_DAY \in Nat /\ SECOND_IN_DAY > 0
  BY <1>1, <1>2, DivDiv DEF SECOND_IN_DAY
<1> QED
  BY <1>1, <1>2, <1>3

(* The indices are those of slots.                                         *)
LEMMA TurnsType ==
  ASSUME NEW x \in Nat
  PROVE  /\ \A l \in Layer : Turns(x)[l] \in Nat
         /\ \A l \in Layer : IndexAt(x)[l] = Turns(x)[l] % Size[l] /\ IndexAt(x)[l] \in 0..(Size[l] - 1)
         /\ Turns(x).minute \in Nat /\ Turns(x).hour \in Nat /\ Turns(x).day \in Nat
         /\ \A l \in Layer : <<l, Turns(x)[l] % Size[l]>> \in Slot
<1>1. Turns(x).second = x /\ Turns(x).minute \in Nat
  BY UnitFacts, DivFacts DEF Turns
<1>2. Turns(x).hour \in Nat
  BY <1>1, UnitFacts, DivFacts DEF Turns
<1>3. Turns(x).day \in Nat
  BY <1>2, UnitFacts, DivFacts DEF Turns
<1>4. \A l \in Layer : Turns(x)[l] \in Nat
  BY <1>1, <1>2, <1>3 DEF Layer
<1>5. ASSUME NEW l \in Layer PROVE Turns(x)[l] % Size[l] \in 0..(Size[l] - 1)
  <2>1. Size[l] \in Nat /\ Size[l] > 0
    BY UnitFacts DEF Size, Layer
  <2> QED
    BY <1>4, <2>1, DivFacts
<1>6. \A l \in Layer : IndexAt(x)[l] = Turns(x)[l] % Size[l]
  BY <1>1 DEF IndexAt, Size, Layer
<1>7. \A l \in Layer : <<l, Turns(x)[l] % Size[l]>> \in Slot
  BY <1>5 DEF Slot
<1> QED
  BY <1>1, <1>2, <1>3, <1>4, <1>5, <1>6, <1>7

(* Another second.                                                         *)
LEMMA NextTurn ==
  ASSUME NEW x \in Nat
  PROVE  /\ Turns(x + 1).second = Turns(x).second + 1
         /\ IF IndexAt(x + 1).second = 0 THEN Turns(x + 1).minute = Turns(x).minute + 1
            ELSE Turns(x + 1).minute = Turns(x).minute
         /\ IF IndexAt(x + 1).second = 0 /\ IndexAt(x + 1).minute = 0 THEN Turns(x + 1).hour = Turns(x).hour + 1
            ELSE Turns(x + 1).hour = Turns(x).hour
         /\ IF IndexAt(x + 1).second = 0 /\ IndexAt(x + 1).minute = 0 /\ IndexAt(x + 1).hour = 0
            THEN Turns(x + 1).day = Turns(x).day + 1
            ELSE Turns(x + 1).day = Turns(x).day
         /\ NextIndex(IndexAt(x)) = IndexAt(x + 1)
<1> SUFFICES ASSUME NEW S, NEW M, NEW H, NEW D, S = SECOND_IN_MINUTE, M = MINUTE_IN_HOUR,
                    H = HOUR_IN_DAY, D = DayNum,
                    NEW a, NEW b, NEW u, NEW v, NEW i, NEW j,
                    u = Turns(x), v = Turns(x + 1), i = IndexAt(x), j = IndexAt(x + 1)
             PROVE  /\ v.second = u.second + 1
                    /\ IF j.second = 0 THEN v.minute = u.minute + 1 ELSE v.minute = u.minute
                    /\ IF j.second = 0 /\ j.minute = 0 THEN v.hour = u.hour + 1 ELSE v.hour = u.hour
                    /\ IF j.second = 0 /\ j.minute = 0 /\ j.hour = 0 THEN v.day = u.day + 1 ELSE v.day = u.day
                    /\ NextIndex(i) = j
  OBVIOUS
<1>1. S \in Nat /\ S > 0 /\ M \in Nat /\ M > 0 /\ H \in Nat /\ H > 0 /\ D \in Nat /\ D > 0
  BY UnitFacts
<1>2. /\ u.second = x /\ u.minute = x \div S /\ u.hour = u.minute \div M /\ u.day = u.hour \div H
      /\ v.second = x + 1 /\ v.minute = (x + 1) \div S /\ v.hour = v.minute \div M /\ v.day = v.hour \div H
      /\ i = [second |-> x % S, minute |-> u.minute % M, hour |-> u.hour % H, day |-> u.day % D]
      /\ j = [second |-> (x + 1) % S, minute |-> v.minute % M, hour |-> v.hour % H, day |-> v.day % D]
      /\ u.minute \in Nat /\ u.hour \in Nat /\ u.day \in Nat
  BY TurnsType DEF Turns, IndexAt
<1> DEFINE c == (i.second + 1) \div S
           e == (i.minute + c) \div M
           g == (i.hour + e) \div H
<1>a. S \in Nat /\ S > 0 /\ M \in Nat /\ M > 0 /\ H \in Nat /\ H > 0 /\ D \in Nat /\ D > 0
      /\ x \in Nat /\ u.minute \in Nat /\ u.hour \in Nat /\ u.day \in Nat
  BY <1>1, <1>2
<1>3. v.minute = u.minute + c /\ j.second = (i.second + 1) % S /\ c = IF j.second = 0 THEN 1 ELSE 0
  <2>1. 1 \in {0, 1}
    OBVIOUS
  <2>2. Carried(S, x, 1)
    BY ONLY <1>a, <2>1, Carry
  <2> QED
    BY <1>2, <2>2 DEF Carried
<1> HIDE DEF c
<1>4. v.hour = u.hour + e /\ j.minute = (i.minute + c) % M /\ e = IF c = 1 /\ j.minute = 0 THEN 1 ELSE 0
  <2>1. c \in {0, 1}
    BY <1>3
  <2>2. Carried(M, u.minute, c)
    BY ONLY <1>a, <2>1, Carry
  <2>3. /\ i.minute = u.minute % M /\ v.hour = (u.minute + c) \div M /\ j.minute = (u.minute + c) % M /\ u.hour = u.minute \div M
        /\ e = (i.minute + c) \div M
    <3>1. v.minute = u.minute + c
      BY <1>3
    <3>2. /\ i.minute = u.minute % M /\ v.hour = v.minute \div M /\ j.minute = v.minute % M
          /\ u.hour = u.minute \div M
      BY <1>2
    <3> QED
      BY <3>1, <3>2, Zenon
  <2> QED
    BY ONLY <2>2, <2>3 DEF Carried
<1> HIDE DEF e
<1>5. v.day = u.day + g /\ j.hour = (i.hour + e) % H /\ g = IF e = 1 /\ j.hour = 0 THEN 1 ELSE 0
  <2>1. e \in {0, 1}
    BY <1>4
  <2>2. Carried(H, u.hour, e)
    BY ONLY <1>a, <2>1, Carry
  <2>3. /\ i.hour = u.hour % H /\ v.day = (u.hour + e) \div H /\ j.hour = (u.hour + e) % H /\ u.day = u.hour \div H
        /\ g = (i.hour + e) \div H
    <3>1. v.hour = u.hour + e
      BY <1>4
    <3>2. /\ i.hour = u.hour % H /\ v.day = v.hour \div H /\ j.hour = v.hour % H
          /\ u.day = u.hour \div H
      BY <1>2
    <3> QED
      BY <3>1, <3>2, Zenon
  <2> QED
    BY ONLY <2>2, <2>3 DEF Carried
<1> HIDE DEF g
<1>6. j.day = (i.day + g) % D
  <2>1. g \in {0, 1}
    BY <1>5
  <2>2. Carried(D, u.day, g)
    BY ONLY <1>a, <2>1, Carry
  <2>3. i.day = u.day % D /\ j.day = (u.day + g) % D
    <3>1. v.day = u.day + g
      BY <1>5
    <3>2. i.day = u.day % D /\ j.day = v.day % D
      BY <1>2
    <3> QED
      BY <3>1, <3>2, Zenon
  <2> QED
    BY ONLY <2>2, <2>3 DEF Carried
<1>7. NextIndex(i) = [second |-> (i.second + 1) % S, minute |-> (i.minute + c) % M,
                      hour |-> (i.hour + e) % H, day |-> (i.day + g) % D]
  BY DEF NextIndex, c, e, g
<1>8. NextIndex(i) = j
  BY <1>2, <1>3, <1>4, <1>5, <1>6, <1>7
<1>9. /\ v.second = u.second + 1
      /\ IF j.second = 0 THEN v.minute = u.minute + 1 ELSE v.minute = u.minute
  <2>1. u.minute \in Nat
    BY <1>2
  <2> QED
    BY <1>2, <1>3, <2>1
<1>10. IF j.second = 0 /\ j.minute = 0 THEN v.hour = u.hour + 1 ELSE v.hour = u.hour
  <2>1. u.hour \in Nat
    BY <1>2
  <2> QED
    BY <1>3, <1>4, <2>1
<1>11. IF j.second = 0 /\ j.minute = 0 /\ j.hour = 0 THEN v.day = u.day + 1 ELSE v.day = u.day
  <2>1. u.day \in Nat
    BY <1>2
  <2> QED
    BY <1>3, <1>4, <1>5, <2>1
<1> QED
  BY <1>8, <1>9, <1>10, <1>11

(* The layers below a layer, through which its nodes go.                   *)
Lower == [second |-> {}, minute |-> {"second"}, hour |-> {"second", "minute"}, day |-> {"second", "minute", "hour"}]

(* A node with these slots that lies in slot s runs at second r: each      *)
(* layer from that of s down takes it when its index comes to the slot of  *)
(* the node.                                                               *)
RunsAt(s, slots, r) ==
  /\ r \in Nat /\ s[1] \in Layer /\ s = <<s[1], Turns(r)[s[1]] % Size[s[1]]>>
  /\ \A m \in Lower[s[1]] : slots[m] = Turns(r)[m] % Size[m]

(* At second x, r comes up before layer l has gone round.                  *)
Near(l, x, r) == Turns(x)[l] <= Turns(r)[l] /\ Turns(r)[l] < Turns(x)[l] + Size[l]

(* A callback e seconds early is one a delay of d may lose to carries.     *)
Lost(e, d) == (WholeDelay(d) => e = 0) /\ e \in Carries(d)

(* x and y added with what they leave of whole units.                      *)
DropsUnits(b, x, y) == (y + (x % b)) % b = (x + y) % b

(* A slot counted from the index is one counted from the time.             *)
LEMMA AddMod ==
  ASSUME NEW b \in Nat, b > 0, NEW x \in Nat, NEW y \in Nat
  PROVE  DropsUnits(b, x, y)
<1>1. PICK q \in Nat, r \in 0..b-1 : q = x \div b /\ r = x % b /\ x = b * q + r
  BY DivFacts
<1>2. y + r \in Nat
  OBVIOUS
<1>3. PICK p \in Nat, s \in 0..b-1 : p = (y + r) \div b /\ s = (y + r) % b /\ y + r = b * p + s
  BY <1>2, DivFacts
<1>4. x + y = b * (q + p) + s /\ q + p \in Nat
  BY <1>1, <1>3
<1>5. (x + y) % b = s
  <2> SUFFICES ASSUME NEW z, z = x + y PROVE z % b = s
    OBVIOUS
  <2> SUFFICES ASSUME NEW a \in Nat, a = q + p PROVE z % b = s
    BY <1>4
  <2>1. z = b * a + s /\ a \in Nat /\ b \in Nat /\ b > 0 /\ s \in 0..b-1
    BY <1>4
  <2> QED
    BY ONLY <2>1, DivMod
<1> QED
  BY <1>1, <1>3, <1>5 DEF DropsUnits

(* The slot one layer down: p and q are the turns of the time and of the   *)
(* delay, u is the turn above; the carry is dropped.                       *)
IsDown(b, p, q, u, e, r) ==
  /\ r \div b = u /\ r % b = (q + (p % b)) % b /\ r % b = ((q % b) + (p % b)) % b
  /\ p + q - r = b * e \/ p + q - r = b * e + b
  /\ q % b = 0 => p + q - r = b * e

(* There is a second for the slot.                                         *)
HasDown(b, p, q, u, e) == \E r \in Nat : IsDown(b, p, q, u, e, r)

(* What the dropped carry of one layer costs.                              *)
LEMMA OneLayerDown ==
  ASSUME NEW b \in Nat, b > 0, NEW p \in Nat, NEW q \in Nat, NEW u \in Nat, NEW e \in Nat,
         (p \div b) + (q \div b) - u = e
  PROVE  HasDown(b, p, q, u, e)
<1>1. PICK i \in Nat, j \in 0..b-1 : i = p \div b /\ j = p % b /\ p = b * i + j
  BY DivFacts
<1>2. PICK k \in Nat, l \in 0..b-1 : k = q \div b /\ l = q % b /\ q = b * k + l
  BY DivFacts
<1>3. l + j \in Nat
  OBVIOUS
<1>4. PICK c \in Nat, d \in 0..b-1 : d = (l + j) % b /\ l + j = b * c + d
  <2>1. l + j \in Nat /\ b \in Nat /\ b > 0
    BY <1>3
  <2>2. /\ (l + j) \div b \in Nat /\ (l + j) % b \in 0..b-1
        /\ l + j = b * ((l + j) \div b) + ((l + j) % b)
    BY ONLY <2>1, DivFacts
  <2> QED
    BY <2>2
<1>5. c = 0 \/ c = 1
  <2>1. 1 < c => b * 1 + b <= b * c
    BY Products
  <2>2. l + j < b * 1 + b
    OBVIOUS
  <2>3. b * c \in Nat /\ b * 1 + b \in Nat
    OBVIOUS
  <2>4. ~(1 < c)
    BY <1>4, <2>1, <2>2, <2>3
  <2> QED
    BY <2>4
<1>6. PICK r \in Nat : r = b * u + d
  OBVIOUS
<1>7. r \div b = u /\ r % b = d
  BY <1>6, DivMod
<1>8. (q + j) % b = d
  <2> SUFFICES ASSUME NEW z, z = q + j PROVE z % b = d
    OBVIOUS
  <2> SUFFICES ASSUME NEW a \in Nat, a = k + c PROVE z % b = d
    OBVIOUS
  <2>1. z = b * a + d /\ a \in Nat /\ b \in Nat /\ b > 0 /\ d \in 0..b-1
    BY <1>2, <1>4
  <2> QED
    BY ONLY <2>1, DivMod
<1>9. p + q - r = b * e + b * c
  <2>1. u = i + k - e
    BY <1>1, <1>2
  <2>2. b * u = b * i + b * k - b * e
    BY <2>1
  <2> QED
    BY <1>1, <1>2, <1>4, <1>6, <2>2
<1>10. l = 0 => c = 0
  <2>1. c = 1 => b * c = b
    OBVIOUS
  <2> QED
    BY <1>4, <1>5, <2>1
<1>11. b * 0 = 0 /\ b * 1 = b
  OBVIOUS
<1> QED
  <2>1. IsDown(b, p, q, u, e, r)
    BY <1>1, <1>2, <1>4, <1>5, <1>7, <1>8, <1>9, <1>10, <1>11 DEF IsDown
  <2> QED
    BY <2>1 DEF HasDown

(* A sum is 0 when both of it are.                                         *)
LEMMA BothZero ==
  ASSUME NEW b \in Nat, b > 0, NEW i \in Nat, NEW j \in Nat, b * i + j = 0
  PROVE  i = 0 /\ j = 0
<1>1. i > 0 => b * 0 + b <= b * i
  BY Products
<1> QED
  BY <1>1

(* A delay in the units of the layers.                                     *)
LEMMA DelayFacts ==
  ASSUME NEW d \in Nat, d > 0
  PROVE  /\ d \div SECOND_IN_MINUTE = Turns(d).minute /\ d \div SECOND_IN_HOUR = Turns(d).hour
         /\ d \div SECOND_IN_DAY = Turns(d).day
         /\ d >= SECOND_IN_MINUTE <=> Turns(d).minute > 0
         /\ d >= SECOND_IN_HOUR <=> Turns(d).hour > 0
         /\ d >= SECOND_IN_DAY <=> Turns(d).day > 0
         /\ Turns(d).minute = 0 => Turns(d).hour = 0
         /\ Turns(d).hour = 0 => Turns(d).day = 0 /\ Turns(d).minute < MINUTE_IN_HOUR
         /\ Turns(d).day = 0 => Turns(d).hour < HOUR_IN_DAY
         /\ d < SECOND_IN_DAY * DayNum => Turns(d).day < DayNum
         /\ d % SECOND_IN_DAY = 0 => d % SECOND_IN_HOUR = 0 /\ Turns(d).hour % HOUR_IN_DAY = 0
         /\ d % SECOND_IN_HOUR = 0 => d % SECOND_IN_MINUTE = 0 /\ Turns(d).minute % MINUTE_IN_HOUR = 0
<1> SUFFICES ASSUME NEW S \in Nat, NEW M \in Nat, NEW H \in Nat, NEW D \in Nat, S > 0, M > 0,
                    H > 0, D > 0,
                    S = SECOND_IN_MINUTE, M = MINUTE_IN_HOUR, H = HOUR_IN_DAY, D = DayNum,
                    NEW m \in Nat, NEW h \in Nat, NEW y \in Nat, m = Turns(d).minute,
                    h = Turns(d).hour, y = Turns(d).day,
                    NEW SH \in Nat, NEW SD \in Nat, SH = S * M, SD = SH * H,
                    SH = SECOND_IN_HOUR, SD = SECOND_IN_DAY,
                    SH > 0, SD > 0
             PROVE  /\ d \div S = m /\ d \div SH = h /\ d \div SD = y
                    /\ d >= S <=> m > 0
                    /\ d >= SH <=> h > 0
                    /\ d >= SD <=> y > 0
                    /\ m = 0 => h = 0
                    /\ h = 0 => y = 0 /\ m < M
                    /\ y = 0 => h < H
                    /\ d < SD * D => y < D
                    /\ d % SD = 0 => d % SH = 0 /\ h % H = 0
                    /\ d % SH = 0 => d % S = 0 /\ m % M = 0
  BY UnitFacts, TurnsType DEF SECOND_IN_HOUR, SECOND_IN_DAY
<1>1. m = d \div S /\ h = m \div M /\ y = h \div H
  BY DEF Turns
<1>2. d \div SH = h /\ d % SH = S * (m % M) + (d % S)
  BY <1>1, DivDiv
<1>3. d \div SD = y /\ d % SD = SH * (h % H) + (d % SH)
  BY <1>1, <1>2, DivDiv
<1>4. ASSUME NEW b \in Nat, b > 0, NEW x \in Nat
      PROVE  /\ x >= b <=> x \div b > 0
             /\ x = 0 => x \div b = 0
             /\ x \div b = 0 => x < b
             /\ \A n \in Nat : x < b * n => x \div b < n
  <2>1. PICK q \in Nat, r \in 0..b-1 : q = x \div b /\ r = x % b /\ x = b * q + r
    <3>1. x \in Nat /\ b \in Nat /\ b > 0
      BY <1>4
    <3>2. x \div b \in Nat /\ x % b \in 0..b-1 /\ x = b * (x \div b) + (x % b)
      BY ONLY <3>1, DivFacts
    <3> QED
      BY <3>2
  <2>2. q > 0 => b * 0 + b <= b * q
    BY Products
  <2>3. q = 0 => x = r
    BY <2>1
  <2>4. ASSUME NEW n \in Nat, x < b * n PROVE q < n
    <3>1. n < q => b * n + b <= b * q
      BY Products
    <3>2. n = q => b * n = b * q
      OBVIOUS
    <3>3. b * n \in Nat /\ b * q \in Nat
      OBVIOUS
    <3> QED
      BY <2>1, <2>4, <3>1, <3>2, <3>3
  <2> QED
    BY <2>1, <2>2, <2>3, <2>4
<1>5. /\ d >= S <=> m > 0
      /\ d >= SH <=> h > 0
      /\ d >= SD <=> y > 0
  BY <1>1, <1>2, <1>3, <1>4
<1>6. /\ m = 0 => h = 0
      /\ h = 0 => y = 0 /\ m < M
      /\ y = 0 => h < H
  BY <1>1, <1>4
<1>7. d < SD * D => y < D
  <2>1. \A n \in Nat : d < SD * n => d \div SD < n
    BY <1>4
  <2> QED
    BY <1>3, <2>1
<1>9. d % SD = 0 => d % SH = 0 /\ h % H = 0
  <2>1. h % H \in Nat /\ d % SH \in Nat
    <3>1. h % H \in 0..H-1 /\ d % SH \in 0..SH-1
      BY DivFacts
    <3> QED
      BY <3>1
  <2>2. SH \in Nat /\ SH > 0 /\ d % SD = SH * (h % H) + (d % SH)
    BY <1>3
  <2> QED
    BY ONLY <2>1, <2>2, BothZero
<1>10. d % SH = 0 => d % S = 0 /\ m % M = 0
  <2>1. m % M \in Nat /\ d % S \in Nat
    <3>1. m % M \in 0..M-1 /\ d % S \in 0..S-1
      BY DivFacts
    <3> QED
      BY <3>1
  <2>2. S \in Nat /\ S > 0 /\ d % SH = S * (m % M) + (d % S)
    BY <1>2
  <2> QED
    BY ONLY <2>1, <2>2, BothZero
<1> QED
  BY <1>1, <1>2, <1>3, <1>5, <1>6, <1>7, <1>9, <1>10

(* The carries a delay may lose.                                           *)
LEMMA CarrySums ==
  ASSUME NEW d \in Nat,
         NEW a \in {0, SECOND_IN_MINUTE}, NEW b \in {0, SECOND_IN_HOUR},
         NEW c \in {0, SECOND_IN_DAY},
         a = 0 \/ d >= SECOND_IN_MINUTE, b = 0 \/ d >= SECOND_IN_HOUR, c = 0 \/ d >= SECOND_IN_DAY
  PROVE  a + b + c \in Carries(d)
<1> DEFINE A == {0} \cup IF d < SECOND_IN_MINUTE THEN {} ELSE {SECOND_IN_MINUTE}
           B == {0} \cup IF d < SECOND_IN_HOUR THEN {} ELSE {SECOND_IN_HOUR}
           C == {0} \cup IF d < SECOND_IN_DAY THEN {} ELSE {SECOND_IN_DAY}
<1>1. a \in A /\ b \in B /\ c \in C
  BY UnitFacts
<1>2. Carries(d) = {i + j + k : i \in A, j \in B, k \in C}
  BY DEF Carries
<1> HIDE DEF A, B, C
<1> QED
  BY <1>1, <1>2

(* Where add_timer_core puts a node, it runs when it is due but for the    *)
(* carries that were dropped, and before the layer has gone round.         *)
LEMMA TimerPlaced ==
  ASSUME NEW x \in Nat, NEW d \in 1..(SECOND_IN_DAY * DayNum - 1), NEW l, l = LayerOf(d),
         NEW slots, slots = SlotOf(d, IndexAt(x))
  PROVE  \E r \in Nat : /\ RunsAt(<<l, slots[l]>>, slots, r)
                        /\ Near(l, x, r) /\ Turns(x)[l] < Turns(r)[l]
                        /\ Lost(x + d - r, d)
<1> SUFFICES ASSUME NEW S \in Nat, NEW M \in Nat, NEW H \in Nat, NEW D \in Nat, S > 0, M > 0,
                    H > 0, D > 0,
                    S = SECOND_IN_MINUTE, M = MINUTE_IN_HOUR, H = HOUR_IN_DAY, D = DayNum,
                    NEW v, v = Turns(d), NEW u, u = Turns(x)
             PROVE  \E r \in Nat : /\ RunsAt(<<l, slots[l]>>, slots, r)
                                   /\ Near(l, x, r) /\ u[l] < Turns(r)[l]
                                   /\ Lost(x + d - r, d)
  BY UnitFacts
<1>1. d \in Nat /\ d > 0 /\ SECOND_IN_DAY * DayNum \in Nat
  <2>1. SECOND_IN_DAY * DayNum \in Nat
    BY UnitFacts
  <2> QED
    BY <2>1
<1>2. /\ d \div S = v.minute /\ d \div SECOND_IN_HOUR = v.hour
      /\ d \div SECOND_IN_DAY = v.day
      /\ d >= S <=> v.minute > 0
      /\ d >= SECOND_IN_HOUR <=> v.hour > 0
      /\ d >= SECOND_IN_DAY <=> v.day > 0
      /\ v.minute = 0 => v.hour = 0
      /\ v.hour = 0 => v.day = 0 /\ v.minute < M
      /\ v.day = 0 => v.hour < H
      /\ d < SECOND_IN_DAY * DayNum => v.day < D
      /\ d % SECOND_IN_DAY = 0 => d % SECOND_IN_HOUR = 0 /\ v.hour % H = 0
      /\ d % SECOND_IN_HOUR = 0 => d % S = 0 /\ v.minute % M = 0
  BY <1>1, DelayFacts
<1>3. /\ v.minute \in Nat /\ v.hour \in Nat /\ v.day \in Nat
      /\ u.minute \in Nat /\ u.hour \in Nat /\ u.day \in Nat
      /\ v.second = d /\ u.second = x
      /\ v.hour = v.minute \div M /\ v.day = v.hour \div H /\ u.minute = x \div S /\ u.hour = u.minute \div M /\ u.day = u.hour \div H
  BY <1>1, TurnsType DEF Turns
<1>4. /\ slots.second = ((d % S) + (x % S)) % S
      /\ slots.minute = (v.minute + (u.minute % M)) % M
      /\ slots.hour = (v.hour + (u.hour % H)) % H
      /\ slots.day = (v.day + (u.day % D)) % D
  BY <1>2 DEF SlotOf, SlotSum, Size, Layer, IndexAt
<1>5. \A r : Turns(r) = [second |-> r, minute |-> r \div S, hour |-> (r \div S) \div M, day |-> ((r \div S) \div M) \div H]
  BY DEF Turns
<1>6. l = IF v.day > 0 THEN "day" ELSE IF v.hour > 0 THEN "hour" ELSE IF v.minute > 0 THEN "minute" ELSE "second"
  <2>1. v.day = 0 \/ v.day > 0
    BY <1>3
  <2>2. v.hour = 0 \/ v.hour > 0
    BY <1>3
  <2>3. v.minute = 0 \/ v.minute > 0
    BY <1>3
  <2>4. l = CASE v.day > 0 -> "day"
              [] v.day = 0 /\ v.hour > 0 -> "hour"
              [] v.hour = 0 /\ v.minute > 0 -> "minute"
              [] OTHER -> "second"
    BY <1>2 DEF LayerOf
  <2>5. v.hour = 0 => v.day = 0
    BY <1>2
  <2> QED
    BY <2>1, <2>2, <2>3, <2>4, <2>5
<1>7. /\ WholeDelay(d) /\ v.day > 0 => d % SECOND_IN_DAY = 0
      /\ WholeDelay(d) /\ v.hour > 0 => d % SECOND_IN_HOUR = 0
      /\ WholeDelay(d) /\ v.minute > 0 => d % S = 0
  BY <1>1, <1>2, UnitFacts DEF WholeDelay
<1>8. Size.second = S /\ Size.minute = M /\ Size.hour = H /\ Size.day = D
  BY DEF Size
<1>a. /\ x \in Nat /\ d \in Nat /\ S \in Nat /\ S > 0 /\ M \in Nat /\ M > 0 /\ H \in Nat /\ H > 0
      /\ D \in Nat /\ D > 0 /\ 0 \in Nat
  BY <1>1
<1>9. CASE v.minute = 0
  <2>1. l = "second" /\ d < S
    BY <1>1, <1>2, <1>3, <1>6, <1>9
  <2>2. d % S = d
    <3>1. d \in 0..S-1
      BY <1>1, <2>1
    <3> QED
      BY ONLY <1>a, <3>1, DivSmall
  <2>3. slots.second = (x + d) % S
    <3>1. DropsUnits(S, x, d)
      BY ONLY <1>a, AddMod
    <3> QED
      BY <1>4, <2>2, <3>1 DEF DropsUnits
  <2>4. x + d \in Nat /\ x + d - (x + d) = 0
    BY <1>1
  <2>5. RunsAt(<<l, slots[l]>>, slots, x + d)
    BY <1>5, <1>8, <2>1, <2>3, <2>4 DEF RunsAt, Lower, Layer
  <2>6. Turns(x + d).second = x + d
    BY <1>5
  <2>7. Near(l, x, x + d) /\ u[l] < Turns(x + d)[l]
    BY <1>1, <1>3, <1>8, <2>1, <2>6 DEF Near
  <2>8. Lost(0, d)
    BY DEF Lost, Carries
  <2> QED
    BY <2>4, <2>5, <2>7, <2>8
<1> HIDE DEF Turns
<1>10. CASE v.minute > 0 /\ v.hour = 0
  <2>1. l = "minute" /\ d >= SECOND_IN_MINUTE
    BY <1>1, <1>2, <1>3, <1>6, <1>10
  <2>2. u.minute + v.minute \in Nat /\ (x \div S) + (d \div S) - (u.minute + v.minute) = 0
    BY <1>2, <1>3
  <2>3. PICK r \in Nat : /\ r \div S = u.minute + v.minute /\ r % S = ((d % S) + (x % S)) % S
                         /\ x + d - r = S * 0 \/ x + d - r = S * 0 + S
                         /\ d % S = 0 => x + d - r = S * 0
    <3>1. HasDown(S, x, d, u.minute + v.minute, 0)
      BY ONLY <1>a, <2>2, OneLayerDown
    <3> QED
      BY <3>1 DEF HasDown, IsDown
  <2>4. slots.minute = (r \div S) % M
    <3>1. DropsUnits(M, u.minute, v.minute)
      BY ONLY <1>3, <1>a, AddMod
    <3> QED
      BY <1>4, <2>3, <3>1 DEF DropsUnits
  <2>5. Turns(r).second = r /\ Turns(r).minute = r \div S
    BY <1>5
  <2>6. RunsAt(<<l, slots[l]>>, slots, r)
    BY <1>4, <1>8, <2>1, <2>3, <2>4, <2>5 DEF RunsAt, Lower, Layer
  <2>7. Near(l, x, r) /\ u[l] < Turns(r)[l]
    BY <1>2, <1>3, <1>8, <1>10, <2>1, <2>3, <2>5 DEF Near
  <2>8. Lost(x + d - r, d)
    <3>1. S * 0 = 0 /\ S * 0 + S = S
      OBVIOUS
    <3>2. x + d - r = 0 \/ x + d - r = S
      BY <2>3, <3>1
    <3>3. WholeDelay(d) => x + d - r = 0
      BY <1>7, <1>10, <2>3, <3>1
    <3>4. 0 \in Carries(d)
      BY DEF Carries
    <3>5. S \in Carries(d)
      BY <2>1, UnitFacts DEF Carries
    <3> QED
      BY <3>2, <3>3, <3>4, <3>5 DEF Lost
  <2> QED
    BY <2>6, <2>7, <2>8
<1>11. CASE v.hour > 0 /\ v.day = 0
  <2>1. l = "hour" /\ d >= SECOND_IN_HOUR /\ v.minute > 0
    BY <1>2, <1>3, <1>6, <1>11
  <2>2. u.hour + v.hour \in Nat /\ (u.minute \div M) + (v.minute \div M) - (u.hour + v.hour) = 0
    BY <1>3
  <2>3. PICK m \in Nat : IsDown(M, u.minute, v.minute, u.hour + v.hour, 0, m)
    <3>1. HasDown(M, u.minute, v.minute, u.hour + v.hour, 0)
      BY ONLY <1>3, <1>a, <2>2, OneLayerDown
    <3> QED
      BY <3>1 DEF HasDown
  <2>4. PICK e \in Nat : /\ e = u.minute + v.minute - m
                         /\ e = 0 \/ e = M
                         /\ v.minute % M = 0 => e = 0
    <3>1. M * 0 = 0 /\ M * 0 + M = M
      OBVIOUS
    <3>2. u.minute + v.minute - m = 0 \/ u.minute + v.minute - m = M
      BY <2>3, <3>1 DEF IsDown
    <3> QED
      BY <2>3, <3>1, <3>2 DEF IsDown
  <2>5. PICK r \in Nat : IsDown(S, x, d, m, e, r)
    <3>1. (x \div S) + (d \div S) - m = e
      BY <1>2, <1>3, <2>4
    <3>2. m \in Nat /\ e \in Nat
      OBVIOUS
    <3>3. HasDown(S, x, d, m, e)
      BY ONLY <1>a, <3>1, <3>2, OneLayerDown
    <3> QED
      BY <3>3 DEF HasDown
  <2>6. slots.hour = (u.hour + v.hour) % H
    <3>1. DropsUnits(H, u.hour, v.hour)
      BY ONLY <1>3, <1>a, AddMod
    <3> QED
      BY <1>4, <3>1 DEF DropsUnits
  <2>7. Turns(r).second = r /\ Turns(r).minute = m /\ Turns(r).hour = u.hour + v.hour
    BY <1>5, <2>3, <2>5 DEF IsDown
  <2>8. r % S = slots.second /\ m % M = slots.minute
    BY <1>4, <2>3, <2>5 DEF IsDown
  <2>9. RunsAt(<<l, slots[l]>>, slots, r)
    BY <1>8, <2>1, <2>6, <2>7, <2>8 DEF RunsAt, Lower, Layer
  <2>10. Near(l, x, r) /\ u[l] < Turns(r)[l]
    BY <1>2, <1>3, <1>8, <1>11, <2>1, <2>7 DEF Near
  <2>11. Lost(x + d - r, d)
    <3>1. S * 0 = 0 /\ S * M = SECOND_IN_HOUR
      BY DEF SECOND_IN_HOUR
    <3>2. x + d - r \in {0, S, SECOND_IN_HOUR, SECOND_IN_HOUR + S}
      <4>1. x + d - r = S * e \/ x + d - r = S * e + S
        BY <2>5 DEF IsDown
      <4>2. S * e = 0 \/ S * e = SECOND_IN_HOUR
        BY <2>4, <3>1
      <4> QED
        BY <4>1, <4>2
    <3>3. WholeDelay(d) => x + d - r = 0
      <4>1. WholeDelay(d) => d % S = 0 /\ e = 0
        BY <1>2, <1>7, <1>11, <2>4
      <4> QED
        BY <2>5, <3>1, <4>1 DEF IsDown
    <3>4. d >= SECOND_IN_MINUTE
      BY <1>2, <2>1
    <3>5. 0 + 0 + 0 \in Carries(d) /\ S + 0 + 0 \in Carries(d) /\ 0 + SECOND_IN_HOUR + 0 \in Carries(d)
          /\ S + SECOND_IN_HOUR + 0 \in Carries(d)
      BY <1>a, <2>1, <3>4, CarrySums
    <3>6. SECOND_IN_HOUR \in Nat
      BY UnitFacts
    <3>7. x + d - r \in Carries(d)
      BY <3>2, <3>5, <3>6
    <3> QED
      BY <3>3, <3>7 DEF Lost
  <2> QED
    BY <2>9, <2>10, <2>11
<1>12. CASE v.day > 0
  <2>1. /\ l = "day" /\ d >= SECOND_IN_DAY /\ v.hour > 0 /\ v.minute > 0 /\ d >= SECOND_IN_HOUR
        /\ d >= SECOND_IN_MINUTE
    BY <1>2, <1>3, <1>6, <1>12
  <2>2. u.day + v.day \in Nat /\ (u.hour \div H) + (v.hour \div H) - (u.day + v.day) = 0
    BY <1>3
  <2>3. PICK h \in Nat : IsDown(H, u.hour, v.hour, u.day + v.day, 0, h)
    <3>1. HasDown(H, u.hour, v.hour, u.day + v.day, 0)
      BY ONLY <1>3, <1>a, <2>2, OneLayerDown
    <3> QED
      BY <3>1 DEF HasDown
  <2>4. PICK f \in Nat : /\ f = u.hour + v.hour - h
                         /\ f = 0 \/ f = H
                         /\ v.hour % H = 0 => f = 0
    <3>1. H * 0 = 0 /\ H * 0 + H = H
      OBVIOUS
    <3>2. u.hour + v.hour - h = 0 \/ u.hour + v.hour - h = H
      BY <2>3, <3>1 DEF IsDown
    <3> QED
      BY <2>3, <3>1, <3>2 DEF IsDown
  <2>5. PICK m \in Nat : IsDown(M, u.minute, v.minute, h, f, m)
    <3>1. (u.minute \div M) + (v.minute \div M) - h = f
      BY <1>3, <2>4
    <3>2. h \in Nat /\ f \in Nat
      OBVIOUS
    <3>3. HasDown(M, u.minute, v.minute, h, f)
      BY ONLY <1>3, <1>a, <3>1, <3>2, OneLayerDown
    <3> QED
      BY <3>3 DEF HasDown
  <2>6. PICK e \in Nat : /\ e = u.minute + v.minute - m
                         /\ e = M * f \/ e = M * f + M
                         /\ v.minute % M = 0 => e = M * f
    <3>1. M * f \in Nat
      OBVIOUS
    <3>2. u.minute + v.minute - m = M * f \/ u.minute + v.minute - m = M * f + M
      BY <2>5 DEF IsDown
    <3> QED
      BY <2>5, <3>1, <3>2 DEF IsDown
  <2>7. PICK r \in Nat : IsDown(S, x, d, m, e, r)
    <3>1. (x \div S) + (d \div S) - m = e
      BY <1>2, <1>3, <2>6
    <3>2. m \in Nat /\ e \in Nat
      OBVIOUS
    <3>3. HasDown(S, x, d, m, e)
      BY ONLY <1>a, <3>1, <3>2, OneLayerDown
    <3> QED
      BY <3>3 DEF HasDown
  <2>8. slots.day = (u.day + v.day) % D
    <3>1. DropsUnits(D, u.day, v.day)
      BY ONLY <1>3, <1>a, AddMod
    <3> QED
      BY <1>4, <3>1 DEF DropsUnits
  <2>9. /\ Turns(r).second = r /\ Turns(r).minute = m /\ Turns(r).hour = h
        /\ Turns(r).day = u.day + v.day
    BY <1>5, <2>3, <2>5, <2>7 DEF IsDown
  <2>10. r % S = slots.second /\ m % M = slots.minute /\ h % H = slots.hour
    BY <1>4, <2>3, <2>5, <2>7 DEF IsDown
  <2>11. RunsAt(<<l, slots[l]>>, slots, r)
    BY <1>8, <2>1, <2>8, <2>9, <2>10 DEF RunsAt, Lower, Layer
  <2>12. Near(l, x, r) /\ u[l] < Turns(r)[l]
    <3>1. v.day < D
      <4>1. d < SECOND_IN_DAY * DayNum
        BY <1>1
      <4> QED
        BY <1>2, <4>1
    <3> QED
      BY <1>3, <1>8, <1>12, <2>1, <2>9, <3>1 DEF Near
  <2>13. Lost(x + d - r, d)
    <3>1. /\ SECOND_IN_HOUR \in Nat /\ SECOND_IN_DAY \in Nat /\ SECOND_IN_HOUR = S * M
          /\ SECOND_IN_DAY = (S * M) * H
      BY UnitFacts DEF SECOND_IN_HOUR, SECOND_IN_DAY
    <3>2. \E a \in {0, S}, b \in {0, SECOND_IN_HOUR}, c \in {0, SECOND_IN_DAY} : x + d - r = a + b + c
      <4>1. PICK c \in {0, SECOND_IN_DAY} : c = S * (M * f)
        <5>1. CASE f = 0
          BY <3>1, <5>1
        <5>2. CASE f = H
          <6>1. S * (M * H) = (S * M) * H
            OBVIOUS
          <6> QED
            BY <3>1, <5>2, <6>1
        <5> QED
          BY <2>4, <5>1, <5>2
      <4>2. PICK b \in {0, SECOND_IN_HOUR} : S * e = b + c
        <5>1. CASE e = M * f
          BY <3>1, <4>1, <5>1
        <5>2. CASE e = M * f + M
          <6>1. S * (M * f + M) = S * (M * f) + S * M
            OBVIOUS
          <6> QED
            BY <3>1, <4>1, <5>2, <6>1
        <5> QED
          BY <2>6, <5>1, <5>2
      <4>3. PICK a \in {0, S} : x + d - r = a + b + c
        <5>1. x + d - r = S * e \/ x + d - r = S * e + S
          BY <2>7 DEF IsDown
        <5>2. b \in Nat /\ c \in Nat
          BY <3>1
        <5>3. x + d - r = b + c \/ x + d - r = (b + c) + S
          BY <4>2, <5>1
        <5>4. b + c = 0 + b + c /\ (b + c) + S = S + b + c
          BY <5>2
        <5> QED
          BY <5>3, <5>4
      <4> QED
        BY <4>3
    <3>3. WholeDelay(d) => x + d - r = 0
      <4>1. WholeDelay(d) => d % S = 0 /\ v.minute % M = 0 /\ v.hour % H = 0
        BY <1>2, <1>7, <1>12
      <4>2. M * 0 = 0 /\ S * 0 = 0
        OBVIOUS
      <4>3. WholeDelay(d) => e = 0
        BY <2>4, <2>6, <4>1, <4>2
      <4> QED
        BY <2>7, <4>1, <4>2, <4>3 DEF IsDown
    <3>4. x + d - r \in Carries(d)
      BY <1>a, <2>1, <3>2, CarrySums
    <3> QED
      BY <3>3, <3>4 DEF Lost
  <2> QED
    BY <2>11, <2>12, <2>13
<1> QED
  <2>1. v.minute = 0 \/ (v.minute > 0 /\ v.hour = 0) \/ (v.hour > 0 /\ v.day = 0) \/ v.day > 0
    BY <1>3
  <2> QED
    BY <1>9, <1>10, <1>11, <1>12, <2>1

-----------------------------------------------------------------------------
(* 4. The cascades hand down in time what runs in the second to come.      *)

(* The timers that wait, and the slots kept in their nodes.                *)
ArmedIn(nd) == {t \in Timer : nd[t].delay > 0}

(* The slots kept in the nodes exist.                                      *)
HasSlots(nd) == \A t \in Timer : \A l \in Layer : <<l, nd[t].slot[l]>> \in Slot
(* Timer t, which lies in slot s, runs at r.                               *)
WaitsFor(nd, du, t, s, r) == RunsAt(s, nd[t].slot, r) /\ Lost(du[t] - r, nd[t].delay)
(* Between the cascades of second x, those of the layers in done are over. *)
HandedTo(nd, du, t, s, x, done) ==
  \E r : /\ WaitsFor(nd, du, t, s, r) /\ Near(s[1], x, r)
         /\ s[1] \in done => Turns(x)[s[1]] < Turns(r)[s[1]]

(* All of them wait for the second they run at, in sound lists.            *)
Handed(w, x, nd, du, done) ==
  \E h, a, q : /\ Lists(w, h, {}, {}, ArmedIn(nd), a, q)
               /\ \A t \in ArmedIn(nd) : HandedTo(nd, du, t, a[t], x, done)

(* The layer a cascade hands down to, and the layers it hands down from.   *)
Down == [minute |-> "second", hour |-> "minute", day |-> "hour"]
Upper == {"minute", "hour", "day"}

(* The layers, their sizes and their units.                                *)
LEMMA LayerFacts ==
  /\ \A l \in Layer : Size[l] \in Nat /\ Size[l] > 0
  /\ \A l \in Upper : /\ l \in Layer /\ Down[l] \in Layer /\ Down[l] # l /\ Down[l] \in Lower[l]
                      /\ Lower[Down[l]] \subseteq Lower[l]
                      /\ \A x \in Nat : Turns(x)[l] = Turns(x)[Down[l]] \div Size[Down[l]]
<1>1. \A l \in Layer : Size[l] \in Nat /\ Size[l] > 0
  BY UnitFacts DEF Size, Layer
<1>2. \A l \in Upper : /\ l \in Layer /\ Down[l] \in Layer /\ Down[l] # l /\ Down[l] \in Lower[l]
                       /\ Lower[Down[l]] \subseteq Lower[l]
  BY DEF Upper, Layer, Down, Lower
<1>3. \A x \in Nat : \A l \in Upper : Turns(x)[l] = Turns(x)[Down[l]] \div Size[Down[l]]
  BY DEF Upper, Down, Turns, Size
<1> QED
  BY <1>1, <1>2, <1>3

(* In the first second of a unit all of the unit is still to come.         *)
LEMMA NextHigher ==
  ASSUME NEW b \in Nat, b > 0, NEW x \in Nat, NEW y \in Nat, x \div b = y \div b, x % b = 0
  PROVE  x <= y /\ y < x + b
<1>1. PICK p \in Nat, r \in 0..b-1 : p = x \div b /\ r = x % b /\ x = b * p + r
  BY DivFacts
<1>2. PICK q \in Nat, s \in 0..b-1 : q = y \div b /\ s = y % b /\ y = b * q + s
  BY DivFacts
<1>3. r = 0 /\ p = q /\ b * p \in Nat
  BY <1>1, <1>2
<1> QED
  BY <1>1, <1>2, <1>3

(* A cascade leaves a layer only nodes of later turns.                     *)
LEMMA HandsDown ==
  ASSUME NEW w, NEW x \in Nat, NEW du, NEW done, NEW l \in Upper, Handed(w, x, node, du, done),
         HasSlots(node),
         IndexAt(x)[Down[l]] = 0, Down[l] \notin done
  PROVE  Handed(MoveDown(w, <<l, IndexAt(x)[l]>>, Down[l]), x, node, du, done \cup {l})
<1> SUFFICES ASSUME NEW d \in Layer, d = Down[l], NEW On, On = ArmedIn(node), NEW i,
                    i = IndexAt(x)[l], l \in Layer,
                    d # l, d \in Lower[l], Lower[d] \subseteq Lower[l],
                    IndexAt(x)[d] = 0, d \notin done
             PROVE  Handed(MoveDown(w, <<l, i>>, d), x, node, du, done \cup {l})
  BY LayerFacts
<1>1. PICK h, a, q : /\ Lists(w, h, {}, {}, On, a, q)
                     /\ \A t \in On : HandedTo(node, du, t, a[t], x, done)
  BY DEF Handed
<1>2. i = Turns(x)[l] % Size[l] /\ <<l, i>> \in Slot
  BY TurnsType
<1>3. \A t \in Timer : <<d, node[t].slot[d]>> \in Slot
  BY DEF HasSlots
<1>4. PICK k, b, p : /\ Lists(MoveDown(w, <<l, i>>, d), k, {}, {}, On, b, p)
                     /\ \A t \in On : b[t] = IF a[t] = <<l, i>> THEN <<d, node[t].slot[d]>> ELSE a[t]
  <2>1. <<l, i>>[1] # d
    OBVIOUS
  <2>2. IsMovedDown(MoveDown(w, <<l, i>>, d), <<l, i>>, d, On, a)
    BY <1>1, <1>2, <1>3, <2>1, MovedDown
  <2> QED
    BY <2>2 DEF IsMovedDown
<1>5. ASSUME NEW t \in On
      PROVE  HandedTo(node, du, t, b[t], x, done \cup {l})
  <2>1. PICK r : /\ WaitsFor(node, du, t, a[t], r) /\ Near(a[t][1], x, r)
                 /\ a[t][1] \in done => Turns(x)[a[t][1]] < Turns(r)[a[t][1]]
    BY <1>1 DEF HandedTo
  <2>2. r \in Nat /\ a[t][1] \in Layer /\ a[t] = <<a[t][1], Turns(r)[a[t][1]] % Size[a[t][1]]>>
        /\ \A m \in Lower[a[t][1]] : node[t].slot[m] = Turns(r)[m] % Size[m]
    BY <2>1 DEF WaitsFor, RunsAt
  <2>3. CASE a[t] = <<l, i>>
    <3>1. a[t][1] = l /\ Turns(r)[l] % Size[l] = i
      BY <2>2, <2>3
    <3>2. Turns(r)[l] = Turns(x)[l]
      <4>1. Turns(r)[l] \in Nat /\ Turns(x)[l] \in Nat /\ Size[l] \in Nat /\ Size[l] > 0
        BY <2>2, TurnsType, LayerFacts
      <4>2. Turns(x)[l] <= Turns(r)[l] /\ Turns(r)[l] < Turns(x)[l] + Size[l]
        BY <2>1, <3>1 DEF Near
      <4>3. Turns(x)[l] % Size[l] = Turns(r)[l] % Size[l]
        BY <1>2, <3>1
      <4> QED
        BY ONLY <4>1, <4>2, <4>3, SameDigit
    <3>3. Near(d, x, r)
      <4>1. Turns(r)[d] \in Nat /\ Turns(x)[d] \in Nat /\ Size[d] \in Nat /\ Size[d] > 0
        BY <2>2, TurnsType, LayerFacts
      <4>2. Turns(x)[d] \div Size[d] = Turns(r)[d] \div Size[d]
        <5>1. Turns(x)[l] = Turns(x)[d] \div Size[d] /\ Turns(r)[l] = Turns(r)[d] \div Size[d]
          BY <2>2, LayerFacts
        <5> QED
          BY <3>2, <5>1
      <4>3. Turns(x)[d] % Size[d] = 0
        BY TurnsType
      <4>4. Turns(x)[d] <= Turns(r)[d] /\ Turns(r)[d] < Turns(x)[d] + Size[d]
        BY ONLY <4>1, <4>2, <4>3, NextHigher
      <4> QED
        BY <4>4 DEF Near
    <3>4. b[t] = <<d, node[t].slot[d]>> /\ node[t].slot[d] = Turns(r)[d] % Size[d]
      BY <1>4, <2>2, <2>3, <3>1
    <3>5. WaitsFor(node, du, t, b[t], r)
      BY <2>1, <2>2, <3>1, <3>4 DEF WaitsFor, RunsAt
    <3>6. b[t][1] = d /\ d \notin done \cup {l}
      BY <3>4
    <3> QED
      BY <3>3, <3>5, <3>6 DEF HandedTo
  <2>4. CASE a[t] # <<l, i>>
    <3>1. b[t] = a[t]
      BY <1>4, <2>4
    <3>2. a[t][1] = l => Turns(x)[l] < Turns(r)[l]
      <4>1. a[t][1] = l => Turns(x)[l] # Turns(r)[l] /\ Turns(x)[l] <= Turns(r)[l]
        BY <1>2, <2>1, <2>2, <2>4 DEF Near
      <4>2. Turns(r)[l] \in Nat /\ Turns(x)[l] \in Nat
        BY <2>2, TurnsType
      <4> QED
        BY <4>1, <4>2
    <3> QED
      BY <2>1, <3>1, <3>2 DEF HandedTo
  <2> QED
    BY <2>3, <2>4
<1> QED
  BY <1>4, <1>5 DEF Handed

(* When a second passes, the layers whose index stays are still over.      *)
LEMMA SecondPasses ==
  ASSUME NEW w, NEW x \in Nat, NEW nd, NEW du, Handed(w, x, nd, du, Layer)
  PROVE  Handed(w, x + 1, nd, du, {l \in Layer : Turns(x + 1)[l] = Turns(x)[l]})
<1> SUFFICES ASSUME NEW y \in Nat, y = x + 1, NEW same,
                    same = {l \in Layer : Turns(y)[l] = Turns(x)[l]}
             PROVE  Handed(w, y, nd, du, same)
  OBVIOUS
<1>1. PICK h, a, q : /\ Lists(w, h, {}, {}, ArmedIn(nd), a, q)
                     /\ \A t \in ArmedIn(nd) : HandedTo(nd, du, t, a[t], x, Layer)
  BY DEF Handed
<1>2. ASSUME NEW t \in ArmedIn(nd) PROVE HandedTo(nd, du, t, a[t], y, same)
  <2>1. PICK r : /\ WaitsFor(nd, du, t, a[t], r) /\ Near(a[t][1], x, r)
                 /\ a[t][1] \in Layer => Turns(x)[a[t][1]] < Turns(r)[a[t][1]]
    BY <1>1 DEF HandedTo
  <2>2. PICK l \in Layer : l = a[t][1] /\ r \in Nat
    BY <2>1 DEF WaitsFor, RunsAt
  <2>3. PICK u \in Nat, v \in Nat, z \in Nat, b \in Nat : /\ u = Turns(x)[l] /\ v = Turns(y)[l]
                                                          /\ z = Turns(r)[l] /\ b = Size[l]
    BY <2>2, TurnsType, LayerFacts
  <2>4. v = u + 1 \/ v = u
    <3>1. IF IndexAt(y).second = 0 THEN Turns(y).minute = Turns(x).minute + 1 ELSE Turns(y).minute = Turns(x).minute
      BY NextTurn
    <3>2. \/ Turns(y).hour = Turns(x).hour + 1 \/ Turns(y).hour = Turns(x).hour
      BY NextTurn
    <3>3. \/ Turns(y).day = Turns(x).day + 1 \/ Turns(y).day = Turns(x).day
      BY NextTurn
    <3>4. Turns(y).second = Turns(x).second + 1
      BY NextTurn
    <3> QED
      BY <2>3, <3>1, <3>2, <3>3, <3>4 DEF Layer
  <2>5. u < z /\ z < u + b
    BY <2>1, <2>2, <2>3 DEF Near
  <2>6. v <= z /\ z < v + b /\ (v = u => v < z)
    BY <2>4, <2>5
  <2>7. Near(l, y, r) /\ (l \in same => v < z)
    BY <2>3, <2>6 DEF Near
  <2> QED
    BY <2>1, <2>2, <2>3, <2>7 DEF HandedTo
<1> QED
  BY <1>1, <1>2 DEF Handed

(* What holds of more layers holds of fewer.                               *)
LEMMA FewerHanded ==
  ASSUME NEW w, NEW x, NEW nd, NEW du, NEW done, NEW less, less \subseteq done,
         Handed(w, x, nd, du, done)
  PROVE  Handed(w, x, nd, du, less)
BY DEF Handed, HandedTo

(* The cascades of a second hand down all that is due: those from above    *)
(* come first.                                                             *)
LEMMA CascadeHands ==
  ASSUME NEW x \in Nat, NEW du, HasSlots(node), Handed(wheel, x, node, du, Layer)
  PROVE  Handed(Cascade(wheel, IndexAt(x + 1)), x + 1, node, du, Upper)
<1> SUFFICES ASSUME NEW y \in Nat, y = x + 1, NEW ix, ix = IndexAt(y)
             PROVE  Handed(Cascade(wheel, ix), y, node, du, Upper)
  OBVIOUS
<1> DEFINE same == {l \in Layer : Turns(y)[l] = Turns(x)[l]}
           fromDay == IF ix.second = 0 /\ ix.minute = 0 /\ ix.hour = 0 THEN MoveDown(wheel, <<"day", ix.day>>, "hour") ELSE wheel
           fromHour == IF ix.second = 0 /\ ix.minute = 0 THEN MoveDown(fromDay, <<"hour", ix.hour>>, "minute") ELSE fromDay
           fromMinute == IF ix.second = 0 THEN MoveDown(fromHour, <<"minute", ix.minute>>, "second") ELSE fromHour
<1>1. Cascade(wheel, ix) = fromMinute
  BY DEF Cascade
<1>2. Handed(wheel, y, node, du, same)
  BY SecondPasses
<1>3. /\ "second" \notin same
      /\ IF ix.second = 0 THEN "minute" \notin same ELSE "minute" \in same
      /\ IF ix.second = 0 /\ ix.minute = 0 THEN "hour" \notin same ELSE "hour" \in same
      /\ IF ix.second = 0 /\ ix.minute = 0 /\ ix.hour = 0 THEN "day" \notin same ELSE "day" \in same
  <2>1. PICK u, v : u = Turns(x) /\ v = Turns(y)
    OBVIOUS
  <2>2. u.second \in Nat /\ u.minute \in Nat /\ u.hour \in Nat /\ u.day \in Nat
    BY <2>1, TurnsType DEF Layer
  <2>3. /\ v.second = u.second + 1
        /\ IF ix.second = 0 THEN v.minute = u.minute + 1 ELSE v.minute = u.minute
        /\ IF ix.second = 0 /\ ix.minute = 0 THEN v.hour = u.hour + 1 ELSE v.hour = u.hour
        /\ IF ix.second = 0 /\ ix.minute = 0 /\ ix.hour = 0 THEN v.day = u.day + 1 ELSE v.day = u.day
    BY <2>1, NextTurn
  <2>4. same = {l \in Layer : v[l] = u[l]}
    BY <2>1
  <2> HIDE DEF same
  <2>5. "second" \in Layer /\ "minute" \in Layer /\ "hour" \in Layer /\ "day" \in Layer
    BY DEF Layer
  <2>6. /\ u.second + 1 # u.second /\ u.minute + 1 # u.minute /\ u.hour + 1 # u.hour
        /\ u.day + 1 # u.day
    BY <2>2
  <2> QED
    BY <2>3, <2>4, <2>5, <2>6
<1> HIDE DEF same
<1>4. /\ Down["day"] = "hour" /\ Down["hour"] = "minute" /\ Down["minute"] = "second"
      /\ "day" \in Upper /\ "hour" \in Upper /\ "minute" \in Upper
  BY DEF Down, Upper
<1>5. Handed(fromDay, y, node, du, same \cup {"day"})
  <2>1. CASE ix.second = 0 /\ ix.minute = 0 /\ ix.hour = 0
    <3>1. IndexAt(y)[Down["day"]] = 0 /\ Down["day"] \notin same
      BY <1>3, <1>4, <2>1
    <3>2. Handed(MoveDown(wheel, <<"day", IndexAt(y)["day"]>>, Down["day"]), y, node, du, same \cup {"day"})
      BY <1>2, <1>4, <3>1, HandsDown
    <3> QED
      BY <1>4, <2>1, <3>2
  <2>2. CASE ~(ix.second = 0 /\ ix.minute = 0 /\ ix.hour = 0)
    <3>1. same \cup {"day"} = same
      BY <1>3, <2>2
    <3> QED
      BY <1>2, <2>2, <3>1
  <2> QED
    BY <2>1, <2>2
<1> HIDE DEF fromDay
<1>6. Handed(fromHour, y, node, du, same \cup {"day", "hour"})
  <2>0. same \cup {"day", "hour"} = (same \cup {"day"}) \cup {"hour"}
    OBVIOUS
  <2>1. CASE ix.second = 0 /\ ix.minute = 0
    <3>1. IndexAt(y)[Down["hour"]] = 0 /\ Down["hour"] \notin same \cup {"day"}
      BY <1>3, <1>4, <2>1
    <3>2. Handed(MoveDown(fromDay, <<"hour", IndexAt(y)["hour"]>>, Down["hour"]), y, node, du, (same \cup {"day"}) \cup {"hour"})
      BY <1>4, <1>5, <3>1, HandsDown
    <3> QED
      BY <1>4, <2>0, <2>1, <3>2
  <2>2. CASE ~(ix.second = 0 /\ ix.minute = 0)
    <3>1. same \cup {"day", "hour"} = same \cup {"day"}
      BY <1>3, <2>2
    <3> QED
      BY <1>5, <2>2, <3>1
  <2> QED
    BY <2>1, <2>2
<1> HIDE DEF fromHour
<1>7. Handed(fromMinute, y, node, du, same \cup {"day", "hour", "minute"})
  <2>0. same \cup {"day", "hour", "minute"} = (same \cup {"day", "hour"}) \cup {"minute"}
    OBVIOUS
  <2>1. CASE ix.second = 0
    <3>1. IndexAt(y)[Down["minute"]] = 0 /\ Down["minute"] \notin same \cup {"day", "hour"}
      BY <1>3, <1>4, <2>1
    <3>2. Handed(MoveDown(fromHour, <<"minute", IndexAt(y)["minute"]>>, Down["minute"]), y, node, du, (same \cup {"day", "hour"}) \cup {"minute"})
      BY <1>4, <1>6, <3>1, HandsDown
    <3> QED
      BY <1>4, <2>0, <2>1, <3>2
  <2>2. CASE ix.second # 0
    <3>1. same \cup {"day", "hour", "minute"} = same \cup {"day", "hour"}
      BY <1>3, <2>2
    <3> QED
      BY <1>6, <2>2, <3>1
  <2> QED
    BY <2>1, <2>2
<1>8. Upper \subseteq same \cup {"day", "hour", "minute"}
  BY DEF Upper
<1> QED
  BY <1>1, <1>7, <1>8, FewerHanded

-----------------------------------------------------------------------------
(* 5. The walk of proc_node along the slot whose turn it is.               *)

(* What the nodes keep.                                                    *)
NodeType == [delay : Nat, repeat : BOOLEAN, slot : [Layer -> Nat]]

(* The slot proc_node walks, the lists' heads with the node whose turn it  *)
(* is, and the repeating node that is still linked to it.                  *)
Turn(cur, ix) == IF cur = NULL THEN {} ELSE {<<"second", ix.second>>}
Heads(w, cur, ix) == IF cur = NULL THEN w.head ELSE [w.head EXCEPT ![<<"second", ix.second>>] = cur]
Again(w, cur) == IF cur = NULL \/ w.pre[cur] = NULL THEN {} ELSE {w.pre[cur]}

(* Timer t runs later than x, or now if its slot is being walked.          *)
RunsTo(nd, du, t, s, x, turn) ==
  \E r : /\ WaitsFor(nd, du, t, s, r) /\ Near(s[1], x, r)
         /\ s \in turn \/ Turns(x)[s[1]] < Turns(r)[s[1]]

(* The lists at second x: sound but for the walk, and each timer in the    *)
(* slot from which it will run.                                            *)
Linked(w, cur, ix, nd, du, x) ==
  \E at, behind : /\ Lists(w, Heads(w, cur, ix), Turn(cur, ix), Again(w, cur), ArmedIn(nd), at, behind)
                  /\ \A t \in ArmedIn(nd) : RunsTo(nd, du, t, at[t], x, Turn(cur, ix))
                  /\ \A t \in Again(w, cur) : nd[t].repeat

(* The indices are those of second x.                                      *)
IndexIs(ix, x) == \A l \in Layer : ix[l] = IndexAt(x)[l]

(* Indices that are those of x are used as those of x.                     *)
LEMMA IndexUsed ==
  ASSUME NEW x \in Nat, NEW ix, IndexIs(ix, x)
  PROVE  /\ NextIndex(ix) = IndexAt(x + 1)
         /\ \A d : SlotOf(d, ix) = SlotOf(d, IndexAt(x))
         /\ ix.second = x % SECOND_IN_MINUTE /\ <<"second", ix.second>> \in Slot
<1>1. /\ ix.second = IndexAt(x).second /\ ix.minute = IndexAt(x).minute /\ ix.hour = IndexAt(x).hour
      /\ ix.day = IndexAt(x).day
  BY DEF IndexIs, Layer
<1>2. NextIndex(ix) = NextIndex(IndexAt(x))
  BY <1>1 DEF NextIndex
<1>3. \A d : SlotOf(d, ix) = SlotOf(d, IndexAt(x))
  BY <1>1 DEF SlotOf, SlotSum
<1>4. IndexAt(x).second = x % SECOND_IN_MINUTE
  BY DEF IndexAt
<1>5. <<"second", ix.second>> \in Slot
  <2>1. "second" \in Layer /\ ix.second = Turns(x)["second"] % Size["second"]
    BY <1>1, TurnsType DEF Layer
  <2> QED
    BY <2>1, TurnsType
<1> QED
  BY <1>1, <1>2, <1>3, <1>4, <1>5, NextTurn

(* The second a node in the slot whose turn it is runs at.                 *)
LEMMA RunsNow ==
  ASSUME NEW x \in Nat, NEW r \in Nat, Near("second", x, r),
         r % SECOND_IN_MINUTE = x % SECOND_IN_MINUTE
  PROVE  r = x
<1>1. Turns(x)["second"] = x /\ Turns(r)["second"] = r /\ Size["second"] = SECOND_IN_MINUTE
  BY DEF Turns, Size
<1>2. x <= r /\ r < x + SECOND_IN_MINUTE /\ x % SECOND_IN_MINUTE = r % SECOND_IN_MINUTE
  BY <1>1 DEF Near
<1>3. SECOND_IN_MINUTE \in Nat /\ SECOND_IN_MINUTE > 0 /\ x \in Nat /\ r \in Nat
  BY UnitFacts
<1> QED
  BY ONLY <1>2, <1>3, SameDigit

(* The wheel at the end of a turn of proc_node.                            *)
AfterTurn(v, rest, ix) == IF rest = NULL THEN [v EXCEPT !.head[<<"second", ix.second>>] = NULL] ELSE v

(* The last turn of a slot leaves sound lists, ...                         *)
LEMMA TurnEnds ==
  ASSUME NEW v, NEW k, NEW ix, NEW c \in Slot, c = <<"second", ix.second>>, NEW X, NEW nd,
         NEW du, NEW x,
         NEW a, NEW q, Lists(v, k, {c}, X, ArmedIn(nd), a, q),
         \A t \in ArmedIn(nd) : RunsTo(nd, du, t, a[t], x, {c}),
         k[c] = NULL, \A z \in X : v.next[z] = NULL
  PROVE  Linked(AfterTurn(v, NULL, ix), NULL, ix, nd, du, x)
<1> SUFFICES ASSUME NEW w, w = [v EXCEPT !.head[c] = NULL]
             PROVE  Linked(w, NULL, ix, nd, du, x)
  BY DEF AfterTurn
<1>0. IsEmptied(v, k, c, X, ArmedIn(nd), a, q)
  BY SlotEmptied
<1>1. Lists(w, k, {}, {}, ArmedIn(nd), a, q)
  BY <1>0, Zenon DEF IsEmptied
<1>2. k = w.head
  BY ONLY <1>1, Ranks
<1>3. \A t \in ArmedIn(nd) : a[t] # c
  BY DEF Lists, HeadsAreIn
<1>4. \A t \in ArmedIn(nd) : RunsTo(nd, du, t, a[t], x, {})
  BY <1>3 DEF RunsTo
<1>5. Heads(w, NULL, ix) = w.head /\ Turn(NULL, ix) = {} /\ Again(w, NULL) = {}
  BY DEF Heads, Turn, Again
<1>6. Lists(w, Heads(w, NULL, ix), Turn(NULL, ix), Again(w, NULL), ArmedIn(nd), a, q)
  BY ONLY <1>1, <1>2, <1>5
<1>7. (\A t \in ArmedIn(nd) : RunsTo(nd, du, t, a[t], x, Turn(NULL, ix))) /\ \A t \in Again(w, NULL) : nd[t].repeat
  BY ONLY <1>4, <1>5
<1> QED
  BY ONLY <1>6, <1>7 DEF Linked

(* ... and any other the lists for the next.                               *)
LEMMA TurnGoesOn ==
  ASSUME NEW v, NEW k, NEW ix, NEW c \in Slot, c = <<"second", ix.second>>, NEW nd, NEW du,
         NEW x, NEW n, n = k[c], n # NULL,
         NEW a, NEW q, Lists(v, k, {c}, Again(v, n), ArmedIn(nd), a, q),
         \A t \in ArmedIn(nd) : RunsTo(nd, du, t, a[t], x, {c}),
         \A z \in Again(v, n) : nd[z].repeat
  PROVE  Linked(AfterTurn(v, n, ix), n, ix, nd, du, x)
<1> SUFFICES Linked(v, n, ix, nd, du, x)
  BY DEF AfterTurn
<1>1. k \in [Slot -> MaybeTimer] /\ v.head \in [Slot -> MaybeTimer] /\ \A d \in Slot \ {c} : v.head[d] = k[d]
  BY DEF Lists, IsWheel, HeadsAreIn
<1>2. k = [v.head EXCEPT ![c] = n]
  BY <1>1
<1>3. Heads(v, n, ix) = k /\ Turn(n, ix) = {c}
  BY <1>2 DEF Heads, Turn
<1> QED
  BY <1>3 DEF Linked

(* add_timer between two updates.                                          *)
LEMMA LinkedAdd ==
  ASSUME NEW x \in Nat, NEW ix, IndexIs(ix, x), NEW w, NEW nd \in [Timer -> NodeType],
         NEW du \in [Timer -> Nat],
         Linked(w, NULL, ix, nd, du, x), NEW t \in Timer, t \notin ArmedIn(nd),
         NEW d \in 1..(SECOND_IN_DAY * DayNum - 1), NEW again \in BOOLEAN
  PROVE  Linked(AddTimerCore(w, t, d, ix), NULL, ix, [nd EXCEPT ![t] = Node(d, again, ix)], [du EXCEPT ![t] = x + d], x)
<1>1. Heads(w, NULL, ix) = w.head /\ Turn(NULL, ix) = {} /\ Again(w, NULL) = {}
  BY DEF Heads, Turn, Again
<1>2. PICK at, behind : /\ Lists(w, w.head, {}, {}, ArmedIn(nd), at, behind)
                        /\ \A u \in ArmedIn(nd) : RunsTo(nd, du, u, at[u], x, {})
  BY <1>1 DEF Linked
<1> SUFFICES ASSUME NEW slots, slots = SlotOf(d, ix), NEW l, l = LayerOf(d), NEW s,
                    s = <<l, slots[l]>>,
                    NEW v, v = AddNode(w, s, t), NEW e,
                    e = [nd EXCEPT ![t] = Node(d, again, ix)], NEW f,
                    f = [du EXCEPT ![t] = x + d]
             PROVE  Linked(v, NULL, ix, e, f, x)
  BY DEF AddTimerCore
<1>3. slots = SlotOf(d, IndexAt(x))
  BY IndexUsed
<1>4. PICK r \in Nat : /\ RunsAt(s, slots, r) /\ Near(l, x, r) /\ Turns(x)[l] < Turns(r)[l] /\ Lost(x + d - r, d)
  BY <1>3, TimerPlaced
<1>5. s \in Slot /\ s[1] = l
  BY <1>4, TurnsType DEF RunsAt
<1>6. SECOND_IN_DAY * DayNum \in Nat /\ d \in Nat /\ d > 0
  BY UnitFacts
<1>7. e[t] = Node(d, again, ix) /\ f[t] = x + d /\ e[t].delay = d /\ e[t].slot = slots
      /\ \A u \in Timer : u # t => e[u] = nd[u] /\ f[u] = du[u]
  BY DEF Node
<1>8. ArmedIn(e) = ArmedIn(nd) \cup {t}
  BY <1>6, <1>7 DEF ArmedIn
<1>9. PICK k, a, q : Lists(v, k, {}, {}, ArmedIn(e), a, q) /\ a = [at EXCEPT ![t] = s]
  <2>1. HasAdded(w, w.head, {}, ArmedIn(nd), at, behind, t, s)
    BY <1>2, <1>5, NodeIsAdded
  <2>2. v = AddNode(w, s, t)
    OBVIOUS
  <2>3. PICK k, a, q : /\ Lists(AddNode(w, s, t), k, {}, {}, ArmedIn(nd) \cup {t}, a, q)
                       /\ a = [at EXCEPT ![t] = s]
    BY ONLY <2>1 DEF HasAdded
  <2>4. Lists(v, k, {}, {}, ArmedIn(e), a, q)
    BY ONLY <1>8, <2>2, <2>3
  <2> QED
    BY ONLY <2>3, <2>4
<1>10. ASSUME NEW u \in ArmedIn(e) PROVE RunsTo(e, f, u, a[u], x, {})
  <2>0. at \in [Timer -> Slot]
    BY <1>2 DEF Lists
  <2>1. CASE u = t
    <3>1. a[t] = s
      BY <1>9, <2>0
    <3>2. WaitsFor(e, f, t, s, r)
      BY <1>4, <1>7 DEF WaitsFor
    <3> QED
      BY <1>4, <1>5, <2>1, <3>1, <3>2 DEF RunsTo
  <2>2. CASE u # t
    <3>1. u \in ArmedIn(nd) /\ u \in Timer /\ e[u] = nd[u] /\ f[u] = du[u] /\ a[u] = at[u]
      BY <1>7, <1>8, <1>9, <2>0, <2>2 DEF ArmedIn
    <3>2. RunsTo(nd, du, u, a[u], x, {})
      BY <1>2, <3>1
    <3> QED
      BY <3>1, <3>2 DEF RunsTo, WaitsFor
  <2> QED
    BY <2>1, <2>2
<1>11. k = v.head
  BY <1>9, Ranks
<1>12. Heads(v, NULL, ix) = v.head /\ Again(v, NULL) = {}
  BY DEF Heads, Again
<1>13. \A u \in ArmedIn(e) : RunsTo(e, f, u, a[u], x, {})
  BY <1>10
<1>14. Lists(v, Heads(v, NULL, ix), Turn(NULL, ix), Again(v, NULL), ArmedIn(e), a, q)
  BY ONLY <1>1, <1>9, <1>11, <1>12
<1>15. (\A u \in ArmedIn(e) : RunsTo(e, f, u, a[u], x, Turn(NULL, ix))) /\ \A u \in Again(v, NULL) : e[u].repeat
  BY ONLY <1>1, <1>12, <1>13
<1> QED
  BY <1>14, <1>15 DEF Linked

(* A second of a later turn is a later second.                             *)
LEMMA LaterSecond ==
  ASSUME NEW x \in Nat, NEW r \in Nat, NEW l \in Layer, Turns(x)[l] < Turns(r)[l]
  PROVE  x < r
<1>1. \A b \in Nat, p \in Nat, q \in Nat : b > 0 /\ p \div b < q \div b => p < q
  BY DivGrows
<1>2. \A p \in Nat : p \div SECOND_IN_MINUTE \in Nat /\ p \div MINUTE_IN_HOUR \in Nat
  <2>1. \A b \in Nat, p \in Nat : b > 0 => p \div b \in Nat
    BY DivFacts
  <2> QED
    BY <2>1, UnitFacts
<1>3. PICK p \in Nat, q \in Nat, u \in Nat, v \in Nat :
        /\ p = x \div SECOND_IN_MINUTE /\ q = r \div SECOND_IN_MINUTE
        /\ u = p \div MINUTE_IN_HOUR /\ v = q \div MINUTE_IN_HOUR
  BY <1>2
<1>4. p < q => x < r
  BY <1>1, <1>3, UnitFacts
<1>5. u < v => p < q
  BY <1>1, <1>3, UnitFacts
<1>6. u \div HOUR_IN_DAY < v \div HOUR_IN_DAY => u < v
  BY <1>1, UnitFacts
<1>7. \/ x < r \/ p < q \/ u < v \/ u \div HOUR_IN_DAY < v \div HOUR_IN_DAY
  BY <1>3 DEF Turns, Layer
<1> QED
  BY <1>4, <1>5, <1>6, <1>7

(* proc_second_nodes up to its call of proc_node.                          *)
LEMMA TurnStarts ==
  ASSUME NEW x \in Nat, IndexIs(index, x), HasSlots(node),
         Linked(wheel, NULL, index, node, due, x),
         NEW ix, ix = NextIndex(index), NEW w, w = Cascade(wheel, ix)
  PROVE  Linked(w, w.head[<<"second", ix.second>>], ix, node, due, x + 1)
<1>1. ix = IndexAt(x + 1) /\ x + 1 \in Nat
  <2>1. x \in Nat /\ IndexIs(index, x) /\ ix = NextIndex(index)
    OBVIOUS
  <2>2. NextIndex(index) = IndexAt(x + 1)
    BY ONLY <2>1, IndexUsed
  <2> QED
    BY ONLY <2>1, <2>2
<1> DEFINE c == <<"second", ix.second>>
           n == w.head[c]
           A == ArmedIn(node)
<1>2. c \in Slot /\ c = <<"second", (x + 1) % SECOND_IN_MINUTE>>
  <2>1. IndexIs(ix, x + 1)
    BY <1>1 DEF IndexIs
  <2> QED
    BY <1>1, <2>1, IndexUsed
<1>3. Handed(wheel, x, node, due, Layer)
  <2>1. Heads(wheel, NULL, index) = wheel.head /\ Turn(NULL, index) = {} /\ Again(wheel, NULL) = {}
    BY DEF Heads, Turn, Again
  <2>2. PICK at, behind : /\ Lists(wheel, wheel.head, {}, {}, A, at, behind)
                          /\ \A u \in A : RunsTo(node, due, u, at[u], x, {})
    BY <2>1 DEF Linked
  <2>3. \A u \in A : HandedTo(node, due, u, at[u], x, Layer)
    BY <2>2 DEF RunsTo, HandedTo
  <2> QED
    BY <2>2, <2>3 DEF Handed
<1>4. Handed(w, x + 1, node, due, Upper)
  <2>1. x \in Nat /\ HasSlots(node)
    OBVIOUS
  <2>2. Handed(Cascade(wheel, IndexAt(x + 1)), x + 1, node, due, Upper)
    BY ONLY <1>3, <2>1, CascadeHands
  <2> HIDE DEF A, c, n
  <2>3. w = Cascade(wheel, IndexAt(x + 1))
    BY <1>1
  <2> QED
    BY ONLY <2>2, <2>3
<1>5. PICK h, a, q : /\ Lists(w, h, {}, {}, A, a, q)
                     /\ \A u \in A : HandedTo(node, due, u, a[u], x + 1, Upper)
  BY <1>4 DEF Handed
<1>6. ASSUME NEW t \in A PROVE RunsTo(node, due, t, a[t], x + 1, {c})
  <2>1. PICK r : /\ WaitsFor(node, due, t, a[t], r) /\ Near(a[t][1], x + 1, r)
                 /\ a[t][1] \in Upper => Turns(x + 1)[a[t][1]] < Turns(r)[a[t][1]]
    BY <1>5 DEF HandedTo
  <2>2. CASE a[t][1] \in Upper
    BY <2>1, <2>2 DEF RunsTo
  <2>3. CASE a[t][1] \notin Upper
    <3>1. /\ r \in Nat /\ a[t][1] = "second"
          /\ a[t] = <<"second", Turns(r)["second"] % Size["second"]>>
      BY <2>1, <2>3 DEF WaitsFor, RunsAt, Layer, Upper
    <3>2. /\ Turns(x + 1)["second"] = x + 1 /\ Turns(r)["second"] = r
          /\ Size["second"] = SECOND_IN_MINUTE
      BY DEF Turns, Size
    <3>3. x + 1 <= r
      BY <2>1, <3>1, <3>2 DEF Near
    <3>4. x + 1 < r \/ r = x + 1
      BY ONLY <1>1, <3>1, <3>3
    <3>5. r = x + 1 => a[t] = c
      BY <1>2, <3>1, <3>2
    <3> QED
      BY <2>1, <3>1, <3>2, <3>4, <3>5 DEF RunsTo
  <2> QED
    BY <2>2, <2>3
<1>7. h = w.head /\ \A s \in Slot : h[s] # NULL => h[s] \in A /\ a[h[s]] = s
  BY ONLY <1>5, Ranks
<1>8. \A t \in A : a[t] \in Slot /\ h[a[t]] # NULL /\ (t = h[a[t]] => w.pre[t] = NULL)
  BY ONLY <1>5, Ranks
<1>9. CASE n = NULL
  <2>1. \A t \in A : a[t] # c
    BY <1>7, <1>8, <1>9
  <2>2. \A t \in A : RunsTo(node, due, t, a[t], x + 1, {})
    BY <1>6, <2>1 DEF RunsTo
  <2>3. Heads(w, NULL, ix) = w.head /\ Turn(NULL, ix) = {} /\ Again(w, NULL) = {}
    BY DEF Heads, Turn, Again
  <2> HIDE DEF n, c, A
  <2>4. Linked(w, NULL, ix, node, due, x + 1)
    BY <1>5, <1>7, <2>2, <2>3 DEF Linked, A
  <2> QED
    BY <1>9, <2>4 DEF n, c
<1>10. CASE n # NULL
  <2>1. n \in A /\ a[n] = c /\ n = h[c]
    BY <1>2, <1>7, <1>10
  <2>2. Again(w, n) = {}
    BY <1>8, <2>1 DEF Again
  <2>3. Lists(w, h, {c}, {}, A, a, q)
    <3> HIDE DEF c
    <3> QED
      BY <1>2, <1>5, SlotOpened
  <2>4. \A z \in Again(w, n) : node[z].repeat
    BY <2>2
  <2>5. Lists(w, h, {c}, Again(w, n), A, a, q)
    BY <2>2, <2>3
  <2>6. c = <<"second", ix.second>>
    OBVIOUS
  <2>7. \A t \in A : RunsTo(node, due, t, a[t], x + 1, {c})
    BY <1>6
  <2> HIDE DEF n, c
  <2>8. Linked(AfterTurn(w, n, ix), n, ix, node, due, x + 1)
    BY <1>2, <1>10, <2>1, <2>4, <2>5, <2>6, <2>7, TurnGoesOn DEF A
  <2> QED
    BY <1>10, <2>8 DEF AfterTurn, n, c
<1> QED
  BY <1>9, <1>10

(* The turn of node n, the first of slot c.                                *)
InTurn(w, n, ix, nd, du, x, c, h, at, behind) ==
  /\ c \in Slot /\ c = <<"second", ix.second>> /\ h[c] = n /\ at[n] = c
  /\ Lists(w, h, {c}, Again(w, n), ArmedIn(nd), at, behind)
  /\ \A t \in ArmedIn(nd) : RunsTo(nd, du, t, at[t], x, {c})
  /\ \A t \in Again(w, n) : nd[t].repeat

(* The node whose turn it is waits, and runs now.                          *)
LEMMA TurnNow ==
  ASSUME NEW x \in Nat, NEW ix, IndexIs(ix, x), NEW w, NEW n \in Timer, NEW nd, NEW du,
         Linked(w, n, ix, nd, du, x)
  PROVE  /\ n \in ArmedIn(nd) /\ Lost(du[n] - x, nd[n].delay)
         /\ \E c, h, at, behind : InTurn(w, n, ix, nd, du, x, c, h, at, behind)
<1>0. n # NULL
  BY WheelAssumption
<1>1. PICK c \in Slot : c = <<"second", ix.second>> /\ ix.second = x % SECOND_IN_MINUTE
  BY IndexUsed
<1>2. PICK h, at, behind : /\ h = Heads(w, n, ix)
                           /\ Lists(w, h, {c}, Again(w, n), ArmedIn(nd), at, behind)
                           /\ \A t \in ArmedIn(nd) : RunsTo(nd, du, t, at[t], x, {c})
                           /\ \A t \in Again(w, n) : nd[t].repeat
  BY <1>0, <1>1 DEF Linked, Turn
<1>3. h[c] = n
  <2>1. w.head \in [Slot -> MaybeTimer]
    BY <1>2 DEF Lists, IsWheel
  <2> QED
    BY <1>0, <1>1, <1>2, <2>1 DEF Heads
<1>4. n \in ArmedIn(nd) /\ at[n] = c
  BY <1>0, <1>2, <1>3 DEF Lists, HeadsAreIn
<1>5. PICK r : WaitsFor(nd, du, n, c, r) /\ Near(c[1], x, r)
  BY <1>2, <1>4 DEF RunsTo
<1>6. r \in Nat /\ c[1] = "second" /\ c = <<"second", Turns(r)["second"] % Size["second"]>>
  BY <1>1, <1>5 DEF WaitsFor, RunsAt
<1>7. r % SECOND_IN_MINUTE = x % SECOND_IN_MINUTE
  BY <1>1, <1>6 DEF Turns, Size
<1>8. r = x
  BY <1>5, <1>6, <1>7, RunsNow
<1>9. Lost(du[n] - x, nd[n].delay)
  BY <1>5, <1>8 DEF WaitsFor
<1>10. InTurn(w, n, ix, nd, du, x, c, h, at, behind)
  BY <1>1, <1>2, <1>3, <1>4 DEF InTurn
<1> QED
  BY <1>4, <1>9, <1>10

(* A turn of proc_node on a node that does not repeat.                     *)
LEMMA TurnReleases ==
  ASSUME NEW x \in Nat, NEW ix, IndexIs(ix, x), NEW w, NEW n \in Timer,
         NEW nd \in [Timer -> NodeType], NEW du \in [Timer -> Nat],
         Linked(w, n, ix, nd, du, x), ~ nd[n].repeat
  PROVE  Linked(AfterTurn(DelTimerCore(w, n), w.next[n], ix), w.next[n], ix,
                [nd EXCEPT ![n] = Free], [du EXCEPT ![n] = 0], x)
<1>0. n # NULL
  BY WheelAssumption
<1>1. n \in ArmedIn(nd)
  BY TurnNow
<1>a. PICK c, h, at, behind : InTurn(w, n, ix, nd, du, x, c, h, at, behind)
  BY TurnNow
<1>2. /\ c \in Slot /\ c = <<"second", ix.second>> /\ h[c] = n /\ at[n] = c
      /\ Lists(w, h, {c}, Again(w, n), ArmedIn(nd), at, behind)
      /\ \A t \in ArmedIn(nd) : RunsTo(nd, du, t, at[t], x, {c})
      /\ \A t \in Again(w, n) : nd[t].repeat
  BY <1>a DEF InTurn
<1> SUFFICES ASSUME NEW rest, rest = w.next[n], NEW v, v = DelTimerCore(w, n),
                    NEW e, e = [nd EXCEPT ![n] = Free], NEW f, f = [du EXCEPT ![n] = 0],
                    NEW X, X = Again(w, n), NEW On, On = ArmedIn(nd) \ {n}
             PROVE  Linked(AfterTurn(v, rest, ix), rest, ix, e, f, x)
  OBVIOUS
<1>3. ArmedIn(e) = On
  BY DEF ArmedIn, Free
<1>4. HasTaken(w, h, c, X, ArmedIn(nd), at, behind, n)
  <2>1. Lists(w, h, {c}, X, ArmedIn(nd), at, behind) /\ n = h[c] /\ c \in Slot
    BY <1>2
  <2> QED
    BY ONLY <1>0, <2>1, FirstTaken
<1>5. PICK k : Lists(w, k, {c}, X, On, at, behind) /\ k[c] = rest
  BY <1>4 DEF HasTaken
<1>6. k[c] = rest /\ n \notin On
  BY <1>5
<1>7. (w.pre[n] = NULL => X = {}) /\ (w.pre[n] # NULL => X = {w.pre[n]})
  BY <1>0 DEF Again
<1>8. /\ Lists(v, k, {c}, X, On, at, behind)
      /\ k[c] # NULL => v.pre[k[c]] = w.pre[n]
      /\ k[c] = NULL => \A z \in X : v.next[z] = NULL
  <2>1. k[c] = w.next[n] /\ v = DelTimerCore(w, n) /\ n \in Timer /\ c \in Slot
    BY <1>2, <1>6
  <2>2. IsDeleted(w, k, c, X, On, at, behind, n)
    BY ONLY <1>5, <1>6, <1>7, <2>1, NodeDeleted
  <2> QED
    BY ONLY <2>1, <2>2 DEF IsDeleted
<1>9. \A t \in On : t # n /\ t \in ArmedIn(nd) /\ t \in Timer /\ e[t] = nd[t] /\ f[t] = du[t]
  BY DEF ArmedIn
<1>10. \A t \in On : RunsTo(e, f, t, at[t], x, {c})
  BY <1>2, <1>9 DEF RunsTo, WaitsFor
<1>11. CASE rest = NULL
  <2>1. \A z \in X : v.next[z] = NULL
    BY <1>6, <1>8, <1>11
  <2>2. k[c] = NULL
    BY <1>6, <1>11
  <2>3. Lists(v, k, {c}, X, ArmedIn(e), at, behind) /\ \A t \in ArmedIn(e) : RunsTo(e, f, t, at[t], x, {c})
    BY <1>3, <1>8, <1>10
  <2>4. c = <<"second", ix.second>>
    BY <1>2
  <2>5. Linked(AfterTurn(v, NULL, ix), NULL, ix, e, f, x)
    BY ONLY <1>2, <2>1, <2>2, <2>3, <2>4, TurnEnds
  <2> QED
    BY <1>11, <2>5
<1>12. CASE rest # NULL
  <2>1. Again(v, rest) = X
    BY <1>6, <1>7, <1>8, <1>12 DEF Again
  <2>2. X \subseteq On
    BY <1>8 DEF Lists
  <2>3. \A z \in Again(v, rest) : e[z].repeat
    BY <1>2, <1>9, <2>1, <2>2
  <2>4. Lists(v, k, {c}, Again(v, rest), ArmedIn(e), at, behind)
    BY <1>3, <1>8, <2>1
  <2>5. \A t \in ArmedIn(e) : RunsTo(e, f, t, at[t], x, {c})
    BY <1>3, <1>10
  <2>6. c = <<"second", ix.second>> /\ rest = k[c] /\ c \in Slot
    BY <1>2, <1>6
  <2> QED
    BY ONLY <1>12, <2>3, <2>4, <2>5, <2>6, TurnGoesOn
<1> QED
  BY <1>11, <1>12

(* What the servers' use of their timers, and that of the robots, keeps.   *)
Servers(nd, du, et, b) ==
  /\ et # "running" => \A t \in ArmedIn(nd) : ~ nd[t].repeat
  /\ et # "none" => \A t \in ArmedIn(nd) : nd[t].delay < SECOND_IN_MINUTE
  /\ et = "waiting" => \A t \in ArmedIn(nd) : nd[t].delay <= RefreshDelay
  /\ \A t \in ArmedIn(nd) : IF nd[t].repeat THEN nd[t].delay = RefreshDelay ELSE du[t] - nd[t].delay <= b
  /\ \A t \in ArmedIn(nd), u \in ArmedIn(nd) : nd[t].repeat /\ nd[u].repeat => t = u
  /\ et = "running" => \A t \in ArmedIn(nd), u \in ArmedIn(nd) :
       /\ ~ nd[t].repeat /\ nd[t].delay > RefreshDelay
       /\ ~ nd[u].repeat /\ nd[u].delay > RefreshDelay
       => t = u

(* The delays of a server's timers.                                        *)
LEMMA DelaysOfServers ==
  /\ RefreshDelay \in Nat /\ RefreshDelay > 0 /\ RefreshDelay < SECOND_IN_MINUTE
  /\ InitDelay \in Nat /\ InitDelay > 0 /\ InitDelay < SECOND_IN_MINUTE
  /\ {RefreshDelay, InitDelay} \cup ServerDelays \cup RobotDelays \subseteq 1..(SECOND_IN_DAY * DayNum - 1)
  /\ \A d \in ServerDelays : d \in Nat /\ d > 0 /\ d <= RefreshDelay
<1>1. SECOND_IN_MINUTE \in Nat /\ SECOND_IN_DAY * DayNum \in Nat
  BY UnitFacts
<1> QED
  BY <1>1, WheelAssumption, ServerAssumption

(* A delay under a minute loses nothing.                                   *)
LEMMA ShortDelay ==
  ASSUME NEW d \in Nat, d < SECOND_IN_MINUTE, NEW e, Lost(e, d)
  PROVE  e = 0
BY DEF Lost, WholeDelay

(* The timer takes longer than the refresh.                                *)
IsLonger(nd, du, t, s, c, x) == nd[t].delay > RefreshDelay
(* A timer that waits where the refresh goes is longer than the refresh.   *)
LEMMA LongerThanRefresh ==
  ASSUME NEW x \in Nat, NEW nd \in [Timer -> NodeType], NEW du \in [Timer -> Nat],
         Servers(nd, du, "running", x - 1),
         NEW t \in ArmedIn(nd), ~ nd[t].repeat, NEW s, NEW c, s # c, s[1] = "second",
         RunsTo(nd, du, t, s, x, {c}),
         s = <<"second", (x + RefreshDelay) % SECOND_IN_MINUTE>>
  PROVE  IsLonger(nd, du, t, s, c, x)
<1>0. PICK r \in Nat : r = x + RefreshDelay /\ x < r
  BY DelaysOfServers
<1>1. PICK v : /\ WaitsFor(nd, du, t, s, v) /\ Near("second", x, v)
               /\ s \in {c} \/ Turns(x)["second"] < Turns(v)["second"]
  BY DEF RunsTo
<1>2. v \in Nat /\ s = <<"second", v % SECOND_IN_MINUTE>> /\ Lost(du[t] - v, nd[t].delay)
  BY <1>1 DEF WaitsFor, RunsAt, Turns, Size
<1>3. x < v /\ v < x + SECOND_IN_MINUTE
  BY <1>1 DEF Near, Turns, Size
<1>4. v % SECOND_IN_MINUTE = r % SECOND_IN_MINUTE
  BY <1>0, <1>2
<1>5. /\ RefreshDelay \in Nat /\ RefreshDelay < SECOND_IN_MINUTE /\ SECOND_IN_MINUTE \in Nat
      /\ SECOND_IN_MINUTE > 0
  BY DelaysOfServers, UnitFacts
<1>6. r = v
  <2>1. \A y \in Nat, z \in Nat : y % SECOND_IN_MINUTE = z % SECOND_IN_MINUTE /\ y <= z /\ z < y + SECOND_IN_MINUTE => y = z
    BY <1>5, SameDigit
  <2>2. r < v + SECOND_IN_MINUTE /\ v < r + SECOND_IN_MINUTE
    BY <1>0, <1>2, <1>3, <1>5
  <2>3. r <= v \/ v <= r
    BY <1>2
  <2> QED
    BY <1>2, <1>4, <2>1, <2>2, <2>3
<1>7. t \in Timer /\ nd[t].delay \in Nat /\ du[t] \in Nat
  BY DEF ArmedIn, NodeType
<1>8. nd[t].delay < SECOND_IN_MINUTE /\ du[t] - nd[t].delay <= x - 1
  BY DEF Servers
<1>9. du[t] - v = 0
  BY <1>2, <1>7, <1>8, ShortDelay
<1> QED
  BY ONLY <1>0, <1>2, <1>5, <1>6, <1>7, <1>8, <1>9, x \in Nat DEF IsLonger

(* A turn of proc_node on the node that repeats.                           *)
LEMMA TurnRepeats ==
  ASSUME NEW x \in Nat, NEW ix, IndexIs(ix, x), NEW w, NEW n \in Timer,
         NEW nd \in [Timer -> NodeType], NEW du \in [Timer -> Nat],
         Linked(w, n, ix, nd, du, x), nd[n].repeat, NEW et, Servers(nd, du, et, x - 1)
  PROVE  Linked(AfterTurn(AddTimerCore(w, n, nd[n].delay, ix), w.next[n], ix), w.next[n], ix,
                [nd EXCEPT ![n] = Node(nd[n].delay, TRUE, ix)], [du EXCEPT ![n] = x + nd[n].delay], x)
<1>0. n # NULL
  BY WheelAssumption
<1>1. n \in ArmedIn(nd)
  BY TurnNow
<1>2. PICK c, h, at, behind : InTurn(w, n, ix, nd, du, x, c, h, at, behind)
  BY TurnNow
<1>3. /\ c \in Slot /\ c = <<"second", ix.second>> /\ h[c] = n /\ at[n] = c
      /\ Lists(w, h, {c}, Again(w, n), ArmedIn(nd), at, behind)
      /\ \A t \in ArmedIn(nd) : RunsTo(nd, du, t, at[t], x, {c})
      /\ \A t \in Again(w, n) : nd[t].repeat
  BY <1>2 DEF InTurn
<1> DEFINE d == nd[n].delay
<1>4. et = "running" /\ d = RefreshDelay
  BY <1>1 DEF Servers
<1>5. \A t \in ArmedIn(nd) : nd[t].repeat => t = n
  BY <1>1 DEF Servers
<1>6. Again(w, n) = {}
  <2>1. \A z \in Again(w, n) : z \in ArmedIn(nd) /\ at[z] # c
    BY <1>3 DEF Lists
  <2> QED
    BY <1>3, <1>5, <2>1
<1> SUFFICES ASSUME NEW rest, rest = w.next[n], NEW slots, slots = SlotOf(RefreshDelay, ix),
                    NEW s, s = <<LayerOf(RefreshDelay), slots[LayerOf(RefreshDelay)]>>, NEW v,
                    v = AddNode(w, s, n),
                    NEW e, e = [nd EXCEPT ![n] = Node(RefreshDelay, TRUE, ix)],
                    NEW f, f = [du EXCEPT ![n] = x + RefreshDelay],
                    NEW On, On = ArmedIn(nd) \ {n}
             PROVE  Linked(AfterTurn(v, rest, ix), rest, ix, e, f, x)
  BY <1>4 DEF AddTimerCore
<1> HIDE DEF d
<1>7. HasTaken(w, h, c, {}, ArmedIn(nd), at, behind, n)
  <2>1. Lists(w, h, {c}, {}, ArmedIn(nd), at, behind) /\ n = h[c] /\ c \in Slot
    BY <1>3, <1>6
  <2> QED
    BY ONLY <1>0, <2>1, FirstTaken
<1>8. PICK k : Lists(w, k, {c}, {}, On, at, behind) /\ k[c] = rest
  BY <1>7 DEF HasTaken
<1>9. k[c] = rest /\ n \notin On
  BY <1>8
<1>10. PICK r \in Nat : /\ r = x + RefreshDelay /\ x < r /\ RunsAt(s, slots, r)
                        /\ Near("second", x, r) /\ s[1] = "second"
  <2>1. RefreshDelay \in Nat /\ RefreshDelay > 0 /\ RefreshDelay < SECOND_IN_MINUTE
        /\ RefreshDelay \in 1..(SECOND_IN_DAY * DayNum - 1)
    BY DelaysOfServers
  <2>2. LayerOf(RefreshDelay) = "second"
    <3>1. /\ (~ RefreshDelay \div SECOND_IN_MINUTE > 0) /\ (~ RefreshDelay \div SECOND_IN_HOUR > 0)
          /\ ~ RefreshDelay \div SECOND_IN_DAY > 0
      <4>1. PICK m \in Nat, hh \in Nat, dd \in Nat : /\ m = Turns(RefreshDelay).minute
                                                     /\ hh = Turns(RefreshDelay).hour
                                                     /\ dd = Turns(RefreshDelay).day
        BY <2>1, TurnsType
      <4>2. SECOND_IN_MINUTE \in Nat
        BY UnitFacts
      <4>3. /\ RefreshDelay \div SECOND_IN_MINUTE = m /\ RefreshDelay \div SECOND_IN_HOUR = hh /\ RefreshDelay \div SECOND_IN_DAY = dd
            /\ (RefreshDelay >= SECOND_IN_MINUTE <=> m > 0) /\ (m = 0 => hh = 0) /\ (hh = 0 => dd = 0)
        BY <2>1, <4>1, DelayFacts
      <4> QED
        BY <2>1, <4>1, <4>2, <4>3
    <3> QED
      BY <3>1 DEF LayerOf
  <2>3. PICK r \in Nat : /\ RunsAt(<<LayerOf(RefreshDelay), slots[LayerOf(RefreshDelay)]>>, slots, r)
                         /\ Near(LayerOf(RefreshDelay), x, r) /\ Turns(x)[LayerOf(RefreshDelay)] < Turns(r)[LayerOf(RefreshDelay)]
                         /\ Lost(x + RefreshDelay - r, RefreshDelay)
    <3>1. slots = SlotOf(RefreshDelay, IndexAt(x))
      BY IndexUsed
    <3> QED
      BY <2>1, <3>1, TimerPlaced
  <2>4. x + RefreshDelay - r = 0
    BY <2>1, <2>3, ShortDelay
  <2>5. r = x + RefreshDelay /\ x < r
    BY <2>1, <2>4
  <2> QED
    BY <2>2, <2>3, <2>5
<1>11. s = <<"second", r % SECOND_IN_MINUTE>> /\ s \in Slot
  <2>1. s = <<"second", Turns(r)["second"] % Size["second"]>> /\ "second" \in Layer
    BY <1>10 DEF RunsAt, Layer
  <2>2. Turns(r)["second"] % Size["second"] = r % SECOND_IN_MINUTE
    BY DEF Turns, Size
  <2> QED
    BY <1>10, <2>1, <2>2, TurnsType
<1>12. s # c
  <2>1. ix.second = x % SECOND_IN_MINUTE
    BY IndexUsed
  <2>2. ASSUME s = c PROVE FALSE
    <3>1. r % SECOND_IN_MINUTE = x % SECOND_IN_MINUTE
      BY <1>3, <1>11, <2>1, <2>2
    <3>2. r = x
      BY <1>10, <3>1, RunsNow
    <3> QED
      BY <1>10, <3>2
  <2> QED
    BY <2>2
<1>13. \A t \in On : /\ t # n /\ t \in ArmedIn(nd) /\ t \in Timer /\ ~ nd[t].repeat /\ e[t] = nd[t]
                     /\ f[t] = du[t]
  BY <1>5 DEF ArmedIn
<1>14. \A t \in On : at[t] = s => nd[t].delay > RefreshDelay
  <2>1. ASSUME NEW t \in On, at[t] = s PROVE nd[t].delay > RefreshDelay
    <3>0. t \in ArmedIn(nd) /\ ~ nd[t].repeat
      BY <1>13
    <3>1. RunsTo(nd, du, t, s, x, {c}) /\ t \in ArmedIn(nd) /\ ~ nd[t].repeat
      BY ONLY <1>3, <2>1, <3>0
    <3>2. Servers(nd, du, "running", x - 1)
      BY <1>4
    <3>3. nd \in [Timer -> NodeType] /\ du \in [Timer -> Nat] /\ x \in Nat /\ r \in Nat
      OBVIOUS
    <3>4. s[1] = "second" /\ s = <<"second", (x + RefreshDelay) % SECOND_IN_MINUTE>> /\ s # c
      BY <1>10, <1>11, <1>12
    <3>5. IsLonger(nd, du, t, s, c, x)
      BY ONLY <3>1, <3>2, <3>3, <3>4, LongerThanRefresh
    <3> QED
      BY <3>5 DEF IsLonger
  <2> QED
    BY <2>1
<1>15. \A t \in On, u \in On : at[t] = s /\ at[u] = s => t = u
  BY <1>4, <1>13, <1>14 DEF Servers
<1>16. k \in [Slot -> MaybeTimer] /\ at \in [Timer -> Slot] /\ behind \in [Timer -> Nat]
       /\ IsWheel(w) /\ HeadsAreIn(w, k, {c}, On, at, behind) /\ Links(w, {}, On, at, behind)
  BY <1>8 DEF Lists
<1>17. \A t \in On : at[t] = s => behind[t] = 0
  <2>1. ASSUME NEW t \in On, at[t] = s, behind[t] # 0 PROVE FALSE
    <3>1. w.next[t] \in On /\ at[w.next[t]] = s /\ behind[t] = behind[w.next[t]] + 1
      BY <1>16, <2>1 DEF Links
    <3>2. w.next[t] = t
      BY <1>15, <2>1, <3>1
    <3>3. behind[t] \in Nat /\ behind[t] = behind[t] + 1
      BY <1>13, <1>16, <3>1, <3>2
    <3> QED
      BY ONLY <3>3
  <2> QED
    BY <2>1
<1>18. PICK kk, a, q : /\ Lists(v, kk, {c}, {}, On \cup {n}, a, q)
                       /\ kk = [k EXCEPT ![s] = IF @ = NULL THEN n ELSE @]
                       /\ a = [at EXCEPT ![n] = s]
                       /\ q[n] = 0
  <2>1. HasAdded(w, k, {c}, On, at, behind, n, s)
    <3>1. s \notin {c} /\ n \in Timer
      BY <1>12
    <3> QED
      BY ONLY <1>8, <1>9, <1>11, <3>1, NodeIsAdded
  <2>2. PICK kk, a, q : /\ Lists(AddNode(w, s, n), kk, {c}, {}, On \cup {n}, a, q)
                        /\ kk = [k EXCEPT ![s] = IF @ = NULL THEN n ELSE @]
                        /\ a = [at EXCEPT ![n] = s]
                        /\ q[n] = IF k[s] = NULL THEN 0 ELSE behind[k[s]]
    BY ONLY <2>1 DEF HasAdded
  <2>3. k[s] # NULL => k[s] \in On /\ at[k[s]] = s
    BY <1>11, <1>16 DEF HeadsAreIn
  <2>4. q[n] = 0
    BY <1>17, <2>2, <2>3
  <2>5. Lists(v, kk, {c}, {}, On \cup {n}, a, q)
    BY <2>2
  <2> QED
    BY ONLY <2>2, <2>4, <2>5
<1>19. /\ ArmedIn(e) = On \cup {n} /\ e[n].repeat /\ e[n].slot = slots /\ e[n].delay = RefreshDelay
       /\ f[n] = x + RefreshDelay
  <2>1. RefreshDelay \in Nat /\ RefreshDelay > 0
    BY DelaysOfServers
  <2>2. e[n] = Node(RefreshDelay, TRUE, ix)
    OBVIOUS
  <2> QED
    BY <1>1, <1>13, <2>1, <2>2 DEF ArmedIn, Node
<1>20. kk[c] = rest /\ a[n] = s /\ \A t \in On : a[t] = at[t]
  BY <1>3, <1>9, <1>11, <1>12, <1>13, <1>16, <1>18
<1>21. v.next[n] = NULL /\ Lists(v, kk, {c}, {n}, ArmedIn(e), a, q)
  <2>1. n \in On \cup {n} /\ a[n] \notin {c}
    BY <1>12, <1>20
  <2>a. PICK B : B = On \cup {n}
    OBVIOUS
  <2>b. Lists(v, kk, {c}, {}, B, a, q) /\ n \in B /\ q[n] = 0 /\ a[n] \notin {c}
    BY ONLY <1>18, <2>1, <2>a
  <2>c. v.next[n] = NULL /\ Lists(v, kk, {c}, {n}, B, a, q)
    BY ONLY <2>b, RepeaterLast
  <2>2. v.next[n] = NULL /\ Lists(v, kk, {c}, {n}, On \cup {n}, a, q)
    BY ONLY <2>a, <2>c
  <2> QED
    BY ONLY <1>19, <2>2
<1>22. \A t \in ArmedIn(e) : RunsTo(e, f, t, a[t], x, {c})
  <2>1. ASSUME NEW t \in On PROVE RunsTo(e, f, t, a[t], x, {c})
    BY <1>3, <1>13, <1>20 DEF RunsTo, WaitsFor
  <2>2. RunsTo(e, f, n, a[n], x, {c})
    <3>1. Lost(f[n] - r, e[n].delay)
      <4>1. RefreshDelay \in Nat /\ RefreshDelay < SECOND_IN_MINUTE
        BY DelaysOfServers
      <4>2. f[n] - r = 0
        BY <1>10, <1>19, <4>1
      <4>3. 0 \in Carries(RefreshDelay)
        <5>1. 0 + 0 + 0 \in Carries(RefreshDelay)
          BY <4>1, CarrySums
        <5> QED
          BY ONLY <5>1
      <4> QED
        BY <1>19, <4>2, <4>3 DEF Lost
    <3>2. WaitsFor(e, f, n, s, r)
      BY <1>10, <1>19, <3>1 DEF WaitsFor
    <3>3. Turns(x)["second"] < Turns(r)["second"]
      BY <1>10 DEF Turns
    <3> QED
      BY <1>10, <1>20, <3>2, <3>3 DEF RunsTo
  <2> QED
    BY <1>19, <2>1, <2>2
<1>23. CASE rest = NULL
  <2>1. (\A z \in {n} : v.next[z] = NULL) /\ kk[c] = NULL
    BY <1>20, <1>21, <1>23
  <2>a. c \in Slot /\ c = <<"second", ix.second>>
    BY <1>3
  <2>b. PICK X : X = {n}
    OBVIOUS
  <2>c. Lists(v, kk, {c}, X, ArmedIn(e), a, q) /\ \A z \in X : v.next[z] = NULL
    BY ONLY <1>21, <2>1, <2>b
  <2>2. Linked(AfterTurn(v, NULL, ix), NULL, ix, e, f, x)
    BY ONLY <1>22, <2>1, <2>a, <2>c, TurnEnds
  <2> QED
    BY <1>23, <2>2
<1>24. CASE rest # NULL
  <2>1. rest \in On /\ at[rest] = c /\ w.pre[rest] = n
    <3>1. rest \in On /\ at[rest] = c
      BY <1>3, <1>9, <1>16, <1>24 DEF HeadsAreIn
    <3>2. Links(w, {}, ArmedIn(nd), at, behind)
      BY <1>3, <1>6 DEF Lists
    <3>3. w.pre[rest] = n
      BY <1>1, <1>24, <3>2 DEF Links
    <3> QED
      BY <3>1, <3>3
  <2>2. v.pre[rest] = n
    <3>1. w.head[s] = k[s]
      BY <1>11, <1>12, <1>16 DEF HeadsAreIn
    <3>2. rest # n /\ rest \in Timer
      BY <1>13, <2>1
    <3>3. w.head[s] # NULL => w.next[w.head[s]] # rest
      <4>1. ASSUME k[s] # NULL, w.next[k[s]] = rest PROVE FALSE
        <5>1. k[s] \in On /\ at[k[s]] = s
          BY <1>11, <1>16, <4>1 DEF HeadsAreIn
        <5>2. at[rest] = s
          BY <1>16, <1>24, <4>1, <5>1 DEF Links
        <5> QED
          BY <1>12, <2>1, <5>2
      <4> QED
        BY <3>1, <4>1
    <3>4. w.pre \in [Timer -> MaybeTimer] /\ IsWheel(w)
      BY <1>16 DEF IsWheel
    <3>5. v.pre[rest] = w.pre[rest]
      <4>1. CASE w.head[s] = NULL
        <5>1. v.pre = [w.pre EXCEPT ![n] = NULL]
          BY <3>4, <4>1 DEF AddNode, IsWheel
        <5> QED
          BY <3>2, <3>4, <5>1
      <4>2. CASE w.head[s] # NULL
        <5>1. PICK m, z : m = w.head[s] /\ z = w.next[m]
          OBVIOUS
        <5>2. v.pre = IF z = NULL THEN [w.pre EXCEPT ![n] = m] ELSE [[w.pre EXCEPT ![n] = m] EXCEPT ![z] = n]
          BY <3>4, <4>2, <5>1 DEF AddNode, IsWheel
        <5> QED
          BY <3>2, <3>3, <3>4, <4>2, <5>1, <5>2
      <4> QED
        BY <4>1, <4>2
    <3> QED
      BY <2>1, <3>5
  <2>3. Again(v, rest) = {n}
    BY <1>0, <1>24, <2>2 DEF Again
  <2>4. Lists(v, kk, {c}, Again(v, rest), ArmedIn(e), a, q)
    BY ONLY <1>21, <2>3
  <2>5. (\A z \in Again(v, rest) : e[z].repeat) /\ rest = kk[c]
    BY <1>19, <1>20, <2>3
  <2>a. c \in Slot /\ c = <<"second", ix.second>>
    BY <1>3
  <2> QED
    BY ONLY <2>a, <1>22, <1>24, <2>4, <2>5, TurnGoesOn
<1> QED
  BY <1>23, <1>24

-----------------------------------------------------------------------------
(* 6. The inductive invariant, and what follows from it.                   *)

(* The second that the indices have reached.                               *)
Clock == now - pending + (IF cursor = NULL THEN 0 ELSE 1)

(* The types of the variables, which TypeOK says with fewer bounds.        *)
TypeInv ==
  /\ now \in 0..MaxTime /\ pending \in 0..MaxStall /\ pending <= now
  /\ cursor \in MaybeTimer /\ (cursor # NULL => pending > 0)
  /\ etcd \in {"none", "waiting", "running"}
  /\ node \in [Timer -> NodeType] /\ due \in [Timer -> Nat]
  /\ HasSlots(node)

(* The inductive invariant: the indices are those of the clock, the timers *)
(* wait in sound lists for the second they run at, and what the process    *)
(* uses its timers for keeps the refresh alone in its slot.                *)
Inv ==
  /\ TypeInv
  /\ IndexIs(index, Clock)
  /\ Linked(wheel, cursor, index, node, due, Clock)
  /\ Servers(node, due, etcd, now - pending)
  /\ Lost(last.early, last.delay)

(* The clock is a number.                                                  *)
LEMMA ClockFacts ==
  ASSUME TypeInv
  PROVE  /\ now \in Nat /\ pending \in Nat /\ Clock \in Nat
         /\ cursor = NULL => Clock = now - pending
         /\ cursor # NULL => Clock = now - pending + 1 /\ cursor \in Timer
<1>1. MaxStall \in Nat /\ MaxTime \in Nat
  BY WheelAssumption
<1> QED
  BY <1>1 DEF TypeInv, Clock, MaybeTimer

(* A node that add_timer_core filled in.                                   *)
LEMMA NodeTyped ==
  ASSUME NEW x \in Nat, NEW ix, IndexIs(ix, x), NEW d \in Nat, NEW b \in BOOLEAN
  PROVE  Node(d, b, ix) \in NodeType /\ \A l \in Layer : <<l, Node(d, b, ix).slot[l]>> \in Slot
<1>1. ASSUME NEW l \in Layer PROVE ix[l] \in Nat /\ SlotSum(d, ix)[l] \in Nat
  <2>1. \A m \in Layer : ix[m] = IndexAt(x)[m] /\ IndexAt(x)[m] \in 0..(Size[m] - 1)
    BY TurnsType DEF IndexIs
  <2>2. \A m \in Layer : ix[m] \in Nat
    BY <2>1, LayerFacts
  <2>3. ix.second \in Nat /\ ix.minute \in Nat /\ ix.hour \in Nat /\ ix.day \in Nat
    BY <2>2 DEF Layer
  <2>4. /\ d % SECOND_IN_MINUTE \in Nat /\ d \div SECOND_IN_MINUTE \in Nat
        /\ d \div SECOND_IN_HOUR \in Nat /\ d \div SECOND_IN_DAY \in Nat
    <3>1. \A c \in Nat : c > 0 => d \div c \in Nat /\ d % c \in 0..c-1
      BY DivFacts
    <3> QED
      BY <3>1, UnitFacts
  <2> QED
    BY <2>2, <2>3, <2>4 DEF SlotSum, Layer
<1>2. ASSUME NEW l \in Layer PROVE SlotOf(d, ix)[l] \in Nat /\ SlotOf(d, ix)[l] \in 0..(Size[l] - 1)
  <2>1. PICK z \in Nat, c \in Nat : z = SlotSum(d, ix)[l] /\ c = Size[l] /\ c > 0
    BY <1>1, LayerFacts
  <2>2. z % c \in 0..c-1
    BY <2>1, DivFacts
  <2>3. SlotOf(d, ix)[l] = z % c
    BY <2>1 DEF SlotOf
  <2> QED
    BY <2>1, <2>2, <2>3
<1>3. SlotOf(d, ix) \in [Layer -> Nat]
  BY <1>2 DEF SlotOf
<1> QED
  BY <1>2, <1>3 DEF Node, NodeType, Slot

(* It holds at first, ...                                                  *)
LEMMA InitInv == Init => Inv
<1> SUFFICES ASSUME Init PROVE Inv
  OBVIOUS
<1>1. TypeInv
  <2>1. MaxStall \in Nat /\ MaxTime \in Nat
    BY WheelAssumption
  <2>2. Free \in NodeType /\ \A l \in Layer : <<l, Free.slot[l]>> \in Slot
    <3>1. \A l \in Layer : 0 \in 0..(Size[l] - 1)
      BY LayerFacts
    <3> QED
      BY <3>1 DEF Free, NodeType, Slot
  <2> QED
    BY <2>1, <2>2 DEF Init, TypeInv, MaybeTimer, HasSlots
<1>2. Clock = 0
  BY DEF Init, Clock
<1>3. IndexIs(index, 0)
  <2>1. 0 \div SECOND_IN_MINUTE = 0 /\ 0 \div MINUTE_IN_HOUR = 0 /\ 0 \div HOUR_IN_DAY = 0
    BY UnitFacts, DivSmall
  <2>2. \A l \in Layer : Turns(0)[l] = 0
    BY <2>1 DEF Turns, Layer
  <2>3. ASSUME NEW l \in Layer PROVE IndexAt(0)[l] = 0
    <3>1. IndexAt(0)[l] = 0 % Size[l]
      BY <2>2, TurnsType
    <3>2. Size[l] \in Nat /\ Size[l] > 0 /\ 0 \in 0..(Size[l] - 1)
      BY LayerFacts
    <3>3. 0 % Size[l] = 0
      BY ONLY <3>2, DivSmall
    <3> QED
      BY <3>1, <3>3
  <2> QED
    BY <2>3 DEF Init, IndexIs
<1>4. ArmedIn(node) = {}
  BY DEF Init, ArmedIn, Free
<1>5. Linked(wheel, NULL, index, node, due, 0)
  <2>1. IsWheel(wheel) /\ wheel.head \in [Slot -> MaybeTimer] /\ \A s \in Slot : wheel.head[s] = NULL
    BY DEF Init, IsWheel, MaybeTimer
  <2>2. PICK o : o \in Slot
    <3>1. <<"second", Turns(0)["second"] % Size["second"]>> \in Slot
      BY TurnsType DEF Layer
    <3> QED
      BY <3>1
  <2>3. PICK at, behind : at = [t \in Timer |-> o] /\ behind = [t \in Timer |-> 0]
    OBVIOUS
  <2>4. Lists(wheel, wheel.head, {}, {}, {}, at, behind)
    BY <2>1, <2>2, <2>3 DEF Lists, HeadsAreIn, BackLinks, Links
  <2>5. Heads(wheel, NULL, index) = wheel.head /\ Turn(NULL, index) = {} /\ Again(wheel, NULL) = {}
    BY DEF Heads, Turn, Again
  <2> QED
    BY <1>4, <2>4, <2>5 DEF Linked
<1>6. Servers(node, due, etcd, now - pending)
  BY <1>4 DEF Servers
<1>7. Lost(last.early, last.delay)
  <2>1. 0 \in Carries(0)
    <3>1. 0 + 0 + 0 \in Carries(0)
      BY CarrySums
    <3> QED
      BY ONLY <3>1
  <2> QED
    BY <2>1 DEF Init, NoCallback, Lost
<1> QED
  BY <1>1, <1>2, <1>3, <1>5, <1>6, <1>7 DEF Init, Inv

(* Fewer timers, or timers armed again, break nothing of the servers' use. *)
LEMMA ServersFewer ==
  ASSUME NEW nd, NEW du, NEW et, NEW b \in Int, Servers(nd, du, et, b),
         NEW e \in [Timer -> NodeType], NEW f \in [Timer -> Nat], NEW b2 \in Int, b <= b2,
         \A t \in ArmedIn(e) : /\ t \in ArmedIn(nd) /\ e[t].delay = nd[t].delay /\ e[t].repeat = nd[t].repeat
                               /\ ~ nd[t].repeat => f[t] = du[t]
  PROVE  Servers(e, f, et, b2)
<1>1. \A t \in ArmedIn(e) : f[t] \in Nat /\ e[t].delay \in Nat
  BY DEF ArmedIn, NodeType
<1>2. \A t \in ArmedIn(e) : IF e[t].repeat THEN e[t].delay = RefreshDelay ELSE f[t] - e[t].delay <= b2
  <2>1. ASSUME NEW t \in ArmedIn(e), ~ e[t].repeat PROVE f[t] - e[t].delay <= b2
    <3>1. f[t] - e[t].delay <= b /\ f[t] \in Nat /\ e[t].delay \in Nat
      BY <1>1, <2>1 DEF Servers
    <3> QED
      BY ONLY <3>1, b \in Int, b2 \in Int, b <= b2
  <2> QED
    BY <2>1 DEF Servers
<1> QED
  BY <1>2 DEF Servers

(* ... when update starts, ...                                             *)
LEMMA UpdateInv ==
  ASSUME Inv, NEW k \in 1..MaxStall, Update(k)
  PROVE  Inv'
<1>1. cursor = NULL /\ pending = 0 /\ Clock = now /\ now \in Nat /\ k \in Nat
  <2>1. MaxStall \in Nat /\ TypeInv
    BY WheelAssumption DEF Inv
  <2> QED
    BY <2>1, ClockFacts DEF Update, Idle
<1>2. cursor' = cursor /\ now' = now + k /\ pending' = k
  BY DEF Update
<1>3. Clock' = Clock /\ now' - pending' = now - pending
  BY <1>1, <1>2 DEF Clock
<1>4. TypeInv'
  BY <1>1, WheelAssumption DEF Inv, TypeInv, Update, HasSlots
<1>5. Lost(last'.early, last'.delay)
  <2>1. 0 \in Carries(0)
    <3>1. 0 + 0 + 0 \in Carries(0)
      BY CarrySums
    <3> QED
      BY ONLY <3>1
  <2> QED
    BY <2>1 DEF Update, NoCallback, Lost
<1> QED
  BY <1>3, <1>4, <1>5 DEF Inv, Update

(* Less taken leaves more.                                                 *)
LEMMA LessTaken ==
  ASSUME NEW m \in Nat, NEW p \in Nat, NEW q \in Nat, q <= p
  PROVE  m - p <= m - q
OBVIOUS

(* ... when proc_second_nodes moves to the next second, ...                *)
LEMMA ProcSecondNodesInv ==
  ASSUME Inv, ProcSecondNodes
  PROVE  Inv'
<1>1. PICK x \in Nat : /\ x = Clock /\ x = now - pending /\ cursor = NULL /\ pending > 0
                       /\ now \in Nat /\ pending \in Nat
  BY ClockFacts DEF Inv, ProcSecondNodes
<1>2. Linked(wheel', cursor', index', node, due, x + 1)
  <2>1. IndexIs(index, x) /\ HasSlots(node) /\ Linked(wheel, NULL, index, node, due, x)
    BY <1>1 DEF Inv, TypeInv
  <2>2. PICK ix, w : ix = NextIndex(index) /\ w = Cascade(wheel, ix)
    OBVIOUS
  <2>3. Linked(w, w.head[<<"second", ix.second>>], ix, node, due, x + 1)
    BY ONLY <1>1, <2>1, <2>2, TurnStarts
  <2>4. wheel' = w /\ index' = ix /\ cursor' = w.head[<<"second", ix.second>>]
    BY <2>2 DEF ProcSecondNodes
  <2> QED
    BY <2>3, <2>4
<1>3. IndexIs(index', x + 1)
  <2>1. IndexIs(index, x) /\ x \in Nat
    BY <1>1 DEF Inv
  <2>2. NextIndex(index) = IndexAt(x + 1)
    BY ONLY <1>1, <2>1, IndexUsed
  <2> QED
    BY <2>2 DEF ProcSecondNodes, IndexIs
<1>4. UNCHANGED <<now, node, etcd, due, last>> /\ pending' = IF cursor' = NULL THEN pending - 1 ELSE pending
  BY DEF ProcSecondNodes
<1>5. Clock' = x + 1
  <2>1. /\ now' = now /\ (cursor' = NULL => pending' = pending - 1)
        /\ (cursor' # NULL => pending' = pending)
    BY <1>4
  <2>2. cursor' = NULL => now' - pending' + 0 = x + 1
    BY <1>1, <2>1
  <2>3. cursor' # NULL => now' - pending' + 1 = x + 1
    BY <1>1, <2>1
  <2> QED
    BY <1>1, <2>1, <2>2, <2>3 DEF Clock
<1>6. cursor' \in MaybeTimer
  <2>0. x + 1 \in Nat
    BY <1>1
  <2>1. <<"second", index'.second>> \in Slot
    BY ONLY <1>3, <2>0, IndexUsed
  <2>2. wheel'.head \in [Slot -> MaybeTimer]
    BY <1>2 DEF Linked, Lists, IsWheel
  <2>3. cursor' = wheel'.head[<<"second", index'.second>>]
    BY DEF ProcSecondNodes
  <2> QED
    BY <2>1, <2>2, <2>3
<1>a. pending' \in Nat /\ pending' <= pending /\ (cursor' # NULL => pending' > 0) /\ now' = now
  <2>1. cursor' = NULL => pending' = pending - 1
    BY <1>4
  <2>2. cursor' # NULL => pending' = pending
    BY <1>4
  <2> QED
    BY <1>1, <1>4, <2>1, <2>2
<1>b. now \in 0..MaxTime /\ pending \in 0..MaxStall /\ pending <= now /\ MaxStall \in Nat
  BY WheelAssumption DEF Inv, TypeInv
<1>c. now' \in 0..MaxTime /\ pending' \in 0..MaxStall /\ pending' <= now'
  BY ONLY <1>1, <1>a, <1>b
<1>7. TypeInv'
  BY <1>4, <1>6, <1>a, <1>c DEF Inv, TypeInv, HasSlots
<1>8. Servers(node', due', etcd', now' - pending')
  <2>0. PICK b, b2 : b = now - pending /\ b2 = now' - pending'
    OBVIOUS
  <2>1. b \in Int /\ b2 \in Int /\ b <= b2
    <3>1. b \in Int /\ b2 \in Int
      BY <1>1, <1>a, <2>0
    <3>2. b <= b2
      <4>1. PICK m \in Nat, p \in Nat, q \in Nat : m = now /\ p = pending /\ q = pending' /\ q <= p
        BY <1>1, <1>a
      <4>a. m \in Nat /\ p \in Nat /\ q \in Nat /\ q <= p
        BY <4>1
      <4>2. m - p <= m - q
        BY ONLY <4>a, LessTaken
      <4>3. b = m - p /\ b2 = m - q
        BY <1>a, <2>0, <4>1
      <4> QED
        BY <4>2, <4>3
    <3> QED
      BY <3>1, <3>2
  <2>2. node \in [Timer -> NodeType] /\ due \in [Timer -> Nat] /\ Servers(node, due, etcd, b)
    BY <2>0 DEF Inv, TypeInv
  <2>3. Servers(node, due, etcd, b2)
    BY ONLY <2>1, <2>2, ServersFewer
  <2> QED
    BY <1>4, <2>0, <2>3
<1> QED
  BY <1>2, <1>3, <1>4, <1>5, <1>7, <1>8 DEF Inv

(* ... when proc_node calls a timer back, ...                              *)
LEMMA ProcNodeInv ==
  ASSUME Inv, ProcNode
  PROVE  Inv'
<1>1. PICK x \in Nat, n \in Timer : /\ x = Clock /\ n = cursor /\ x = now - pending + 1
                                    /\ pending > 0 /\ now \in Nat /\ pending \in Nat /\ n # NULL
  BY ClockFacts DEF Inv, TypeInv, ProcNode
<1>2. IndexIs(index, x) /\ Linked(wheel, n, index, node, due, x) /\ Servers(node, due, etcd, x - 1)
      /\ node \in [Timer -> NodeType] /\ due \in [Timer -> Nat] /\ HasSlots(node)
  <2>1. now - pending = x - 1
    BY <1>1
  <2> QED
    BY <1>1, <2>1 DEF Inv, TypeInv
<1>3. n \in ArmedIn(node) /\ Lost(due[n] - x, node[n].delay)
  BY ONLY <1>1, <1>2, n \in Timer, x \in Nat, TurnNow
<1> DEFINE d == node[n].delay
           rest == wheel.next[n]
<1>4. d \in Nat /\ d > 0 /\ node[n].repeat \in BOOLEAN
  BY <1>2, <1>3 DEF NodeType, ArmedIn
<1>5. /\ cursor' = rest /\ now' = now /\ index' = index /\ etcd' = etcd
      /\ last' = [delay |-> d, early |-> due[n] - x]
      /\ node' = [node EXCEPT ![n] = IF node[n].repeat THEN Node(d, TRUE, index) ELSE Free]
      /\ due' = [due EXCEPT ![n] = IF node[n].repeat THEN x + d ELSE 0]
      /\ wheel' = AfterTurn(IF node[n].repeat THEN AddTimerCore(wheel, n, d, index) ELSE DelTimerCore(wheel, n), rest, index)
      /\ rest = NULL => pending' = pending - 1
      /\ rest # NULL => pending' = pending
  BY <1>1 DEF ProcNode, AfterTurn
<1>6. Linked(wheel', cursor', index', node', due', x)
  <2>1. CASE node[n].repeat
    <3>1. Linked(AfterTurn(AddTimerCore(wheel, n, node[n].delay, index), wheel.next[n], index), wheel.next[n], index,
                 [node EXCEPT ![n] = Node(node[n].delay, TRUE, index)], [due EXCEPT ![n] = x + node[n].delay], x)
      BY ONLY <1>2, <2>1, n \in Timer, x \in Nat, TurnRepeats
    <3> QED
      BY <1>5, <2>1, <3>1
  <2>2. CASE ~ node[n].repeat
    <3>1. Linked(AfterTurn(DelTimerCore(wheel, n), wheel.next[n], index), wheel.next[n], index,
                 [node EXCEPT ![n] = Free], [due EXCEPT ![n] = 0], x)
      BY ONLY <1>2, <2>2, n \in Timer, x \in Nat, TurnReleases
    <3> QED
      BY <1>5, <2>2, <3>1
  <2> QED
    BY <2>1, <2>2
<1>7. cursor' \in MaybeTimer
  <2>1. wheel.next \in [Timer -> MaybeTimer]
    BY <1>2 DEF Linked, Lists, IsWheel
  <2> QED
    BY <1>5, <2>1
<1> HIDE DEF d, rest
<1>8. Clock' = x
  <2>1. rest = NULL => now' - pending' + 0 = x
    BY <1>1, <1>5
  <2>2. rest # NULL => now' - pending' + 1 = x
    BY <1>1, <1>5
  <2> QED
    BY <1>5, <2>1, <2>2 DEF Clock
<1>9. pending' \in Nat /\ pending' <= pending /\ (cursor' # NULL => pending' > 0) /\ now' = now
  BY <1>1, <1>5
<1>10. /\ now \in 0..MaxTime /\ pending \in 0..MaxStall /\ pending <= now /\ MaxStall \in Nat
       /\ etcd \in {"none", "waiting", "running"}
  BY WheelAssumption DEF Inv, TypeInv
<1>11. now' \in 0..MaxTime /\ pending' \in 0..MaxStall /\ pending' <= now'
  BY ONLY <1>1, <1>9, <1>10
<1>12. node' \in [Timer -> NodeType] /\ due' \in [Timer -> Nat] /\ HasSlots(node')
  <2>1. Node(d, TRUE, index) \in NodeType /\ \A l \in Layer : <<l, Node(d, TRUE, index).slot[l]>> \in Slot
    BY <1>2, <1>4, NodeTyped
  <2>2. Free \in NodeType /\ \A l \in Layer : <<l, Free.slot[l]>> \in Slot
    <3>1. \A l \in Layer : 0 \in 0..(Size[l] - 1)
      BY LayerFacts
    <3> QED
      BY <3>1 DEF Free, NodeType, Slot
  <2>a. PICK e, z : /\ e = IF node[n].repeat THEN Node(d, TRUE, index) ELSE Free
                    /\ z = IF node[n].repeat THEN x + d ELSE 0
    OBVIOUS
  <2>3. e \in NodeType /\ z \in Nat /\ \A l \in Layer : <<l, e.slot[l]>> \in Slot
    <3>1. z \in Nat
      BY <1>4, <2>a
    <3> QED
      BY <2>1, <2>2, <2>a, <3>1
  <2>4. node' = [node EXCEPT ![n] = e] /\ due' = [due EXCEPT ![n] = z]
    BY <1>5, <2>a
  <2>5. node' \in [Timer -> NodeType] /\ due' \in [Timer -> Nat]
    BY <1>2, <2>3, <2>4
  <2>6. \A t \in Timer : node'[t] = IF t = n THEN e ELSE node[t]
    BY <1>2, <2>4
  <2> QED
    BY <1>2, <2>3, <2>5, <2>6 DEF HasSlots
<1>13. TypeInv'
  BY <1>5, <1>7, <1>9, <1>10, <1>11, <1>12 DEF TypeInv
<1>14. Servers(node', due', etcd', now' - pending')
  <2>1. PICK b, b2 : b = now - pending /\ b2 = now' - pending'
    OBVIOUS
  <2>2. b \in Int /\ b2 \in Int /\ b <= b2
    <3>1. b \in Int /\ b2 \in Int
      BY <1>1, <1>9, <2>1
    <3>2. PICK m \in Nat, p \in Nat, q \in Nat : m = now /\ p = pending /\ q = pending' /\ q <= p
      BY <1>1, <1>9
    <3>3. m \in Nat /\ p \in Nat /\ q \in Nat /\ q <= p
      BY <3>2
    <3>4. m - p <= m - q
      BY ONLY <3>3, LessTaken
    <3>5. b = m - p /\ b2 = m - q
      BY <1>9, <2>1, <3>2
    <3> QED
      BY <3>1, <3>4, <3>5
  <2>3. Servers(node, due, etcd, b)
    BY <2>1 DEF Inv
  <2>4. \A t \in ArmedIn(node') : /\ t \in ArmedIn(node) /\ node'[t].delay = node[t].delay /\ node'[t].repeat = node[t].repeat
                                  /\ ~ node[t].repeat => due'[t] = due[t]
    <3>1. \A t \in Timer : t # n => node'[t] = node[t] /\ due'[t] = due[t]
      BY <1>2, <1>5
    <3>2. node[n].repeat => node'[n].delay = d /\ node'[n].repeat
      BY <1>2, <1>5 DEF Node
    <3>3. ~ node[n].repeat => node'[n].delay = 0
      BY <1>2, <1>5 DEF Free
    <3>4. \A t \in ArmedIn(node') : t \in Timer /\ node'[t].delay > 0
      BY DEF ArmedIn
    <3>5. \A t \in ArmedIn(node') : t = n => node[n].repeat
      BY <3>3, <3>4
    <3>6. \A t \in ArmedIn(node') : t # n => t \in ArmedIn(node)
      BY <3>1, <3>4 DEF ArmedIn
    <3> QED
      BY <1>3, <1>4, <3>1, <3>2, <3>4, <3>5, <3>6 DEF d
  <2>5. PICK e, f : e = node' /\ f = due'
    OBVIOUS
  <2>6. e \in [Timer -> NodeType] /\ f \in [Timer -> Nat]
        /\ \A t \in ArmedIn(e) : /\ t \in ArmedIn(node) /\ e[t].delay = node[t].delay /\ e[t].repeat = node[t].repeat
                                 /\ ~ node[t].repeat => f[t] = due[t]
    BY ONLY <1>12, <2>4, <2>5
  <2>7. Servers(e, f, etcd, b2)
    BY ONLY <2>2, <2>3, <2>6, ServersFewer
  <2> QED
    BY <1>5, <2>1, <2>5, <2>7
<1>15. Lost(last'.early, last'.delay)
  BY <1>3, <1>5 DEF d
<1> QED
  BY <1>2, <1>5, <1>6, <1>8, <1>13, <1>14, <1>15 DEF Inv

(* The servers' use, as a fact about all these values.                     *)
Keeps(nd, du, t, d, e, f, et, b) == Servers(e, f, et, b)

(* A timer more keeps the servers' use, ...                                *)
LEMMA ServersAdd ==
  ASSUME NEW nd \in [Timer -> NodeType], NEW du \in [Timer -> Nat], NEW et, NEW b \in Nat,
         Servers(nd, du, et, b),
         NEW t \in Timer, t \notin ArmedIn(nd), NEW d \in Nat, d > 0,
         et # "none" => d <= RefreshDelay /\ d < SECOND_IN_MINUTE,
         NEW e, NEW f, ArmedIn(e) = ArmedIn(nd) \cup {t}, e[t].delay = d, ~ e[t].repeat,
         f[t] = b + d,
         \A u \in Timer : u # t => e[u] = nd[u] /\ f[u] = du[u]
  PROVE  Keeps(nd, du, t, d, e, f, et, b)
<1>1. \A u \in ArmedIn(nd) : u # t /\ u \in Timer /\ e[u] = nd[u] /\ f[u] = du[u]
  BY DEF ArmedIn
<1>2. f[t] - e[t].delay <= b
  OBVIOUS
<1>3. RefreshDelay \in Nat
  BY DelaysOfServers
<1>4. et = "running" => ~ e[t].delay > RefreshDelay
  BY <1>3
<1>5. et # "running" => \A u \in ArmedIn(e) : ~ e[u].repeat
  BY <1>1 DEF Servers
<1>6. et # "none" => \A u \in ArmedIn(e) : e[u].delay < SECOND_IN_MINUTE
  BY <1>1 DEF Servers
<1>7. et = "waiting" => \A u \in ArmedIn(e) : e[u].delay <= RefreshDelay
  BY <1>1 DEF Servers
<1>8. \A u \in ArmedIn(e) : IF e[u].repeat THEN e[u].delay = RefreshDelay ELSE f[u] - e[u].delay <= b
  BY <1>1, <1>2 DEF Servers
<1>9. \A u \in ArmedIn(e), v \in ArmedIn(e) : e[u].repeat /\ e[v].repeat => u = v
  BY <1>1 DEF Servers
<1>10. et = "running" => \A u \in ArmedIn(e), v \in ArmedIn(e) :
       /\ ~ e[u].repeat /\ e[u].delay > RefreshDelay
       /\ ~ e[v].repeat /\ e[v].delay > RefreshDelay
       => u = v
  BY <1>1, <1>4 DEF Servers
<1> QED
  BY <1>5, <1>6, <1>7, <1>8, <1>9, <1>10 DEF Servers, Keeps

(* ... and so do the two of etcd_manager::init.                            *)
LEMMA ServersStart ==
  ASSUME NEW nd \in [Timer -> NodeType], NEW du \in [Timer -> Nat], NEW b \in Nat,
         Servers(nd, du, "waiting", b),
         NEW t \in Timer, NEW v \in Timer, t # v, t \notin ArmedIn(nd), v \notin ArmedIn(nd),
         NEW e, NEW f, ArmedIn(e) = ArmedIn(nd) \cup {t, v}, e[t].delay = RefreshDelay,
         e[t].repeat,
         e[v].delay = InitDelay, ~ e[v].repeat, f[v] = b + InitDelay,
         \A u \in Timer : u # t /\ u # v => e[u] = nd[u] /\ f[u] = du[u]
  PROVE  Keeps(nd, du, t, v, e, f, "running", b)
<1>1. \A u \in ArmedIn(nd) : u # t /\ u # v /\ u \in Timer /\ e[u] = nd[u] /\ f[u] = du[u]
  BY DEF ArmedIn
<1>2. /\ RefreshDelay \in Nat /\ InitDelay \in Nat /\ RefreshDelay < SECOND_IN_MINUTE
      /\ InitDelay < SECOND_IN_MINUTE
  BY DelaysOfServers
<1>3. f[v] - e[v].delay <= b
  BY <1>2
<1>4. \A u \in ArmedIn(nd) : /\ ~ e[u].repeat /\ e[u].delay < SECOND_IN_MINUTE
                             /\ e[u].delay <= RefreshDelay /\ f[u] - e[u].delay <= b
  BY <1>1 DEF Servers
<1>5. \A u \in ArmedIn(nd) : e[u].delay \in Nat
  BY <1>1 DEF NodeType
<1>6. \A u \in ArmedIn(nd) : ~ e[u].delay > RefreshDelay
  BY <1>2, <1>4, <1>5
<1>7. \A u \in ArmedIn(e) : e[u].delay < SECOND_IN_MINUTE
  BY <1>2, <1>4
<1>8. \A u \in ArmedIn(e) : IF e[u].repeat THEN e[u].delay = RefreshDelay ELSE f[u] - e[u].delay <= b
  BY <1>3, <1>4
<1>9. \A u \in ArmedIn(e) : e[u].repeat => u = t
  BY <1>4
<1>10. \A u \in ArmedIn(e) : ~ e[u].repeat /\ e[u].delay > RefreshDelay => u = v
  BY <1>6
<1> QED
  BY <1>7, <1>8, <1>9, <1>10 DEF Servers, Keeps

(* ... when a handler adds a timer, ...                                    *)
LEMMA AddTimerInv ==
  ASSUME Inv, NEW t \in Timer, NEW d \in ServerDelays \cup RobotDelays, AddTimer(t, d)
  PROVE  Inv'
<1>1. PICK x \in Nat : x = now /\ x = Clock /\ cursor = NULL /\ pending = 0 /\ now - pending = x
  BY ClockFacts DEF Inv, AddTimer, Idle
<1>2. IndexIs(index, x) /\ Linked(wheel, NULL, index, node, due, x) /\ Servers(node, due, etcd, x)
      /\ node \in [Timer -> NodeType] /\ due \in [Timer -> Nat] /\ HasSlots(node)
  BY <1>1 DEF Inv, TypeInv
<1>3. t \notin ArmedIn(node)
  BY DEF AddTimer, Armed, ArmedIn
<1>4. /\ d \in Nat /\ d > 0 /\ d \in 1..(SECOND_IN_DAY * DayNum - 1)
      /\ (etcd # "none" => d <= RefreshDelay /\ d < SECOND_IN_MINUTE)
  <2>1. d \in 1..(SECOND_IN_DAY * DayNum - 1)
    BY DelaysOfServers
  <2>2. d \in Nat /\ d > 0
    BY <2>1, UnitFacts
  <2>3. etcd # "none" => d \in ServerDelays
    BY DEF AddTimer
  <2>4. RefreshDelay \in Nat /\ RefreshDelay < SECOND_IN_MINUTE /\ \A y \in ServerDelays : y <= RefreshDelay
    BY DelaysOfServers
  <2> QED
    BY <2>1, <2>2, <2>3, <2>4, UnitFacts
<1> SUFFICES ASSUME NEW e, e = [node EXCEPT ![t] = Node(d, FALSE, index)], NEW f,
                    f = [due EXCEPT ![t] = x + d]
             PROVE  Inv'
  OBVIOUS
<1>5. /\ wheel' = AddTimerCore(wheel, t, d, index) /\ node' = e /\ due' = f
      /\ UNCHANGED <<now, pending, index, cursor, etcd, last>>
  BY <1>1 DEF AddTimer
<1>6. Linked(AddTimerCore(wheel, t, d, index), NULL, index, e, f, x)
  <2>1. Linked(AddTimerCore(wheel, t, d, index), NULL, index, [node EXCEPT ![t] = Node(d, FALSE, index)], [due EXCEPT ![t] = x + d], x)
    BY ONLY <1>2, <1>3, <1>4, x \in Nat, t \in Timer, FALSE \in BOOLEAN, LinkedAdd
  <2> QED
    BY ONLY <2>1, e = [node EXCEPT ![t] = Node(d, FALSE, index)], f = [due EXCEPT ![t] = x + d]
<1>7. Node(d, FALSE, index) \in NodeType /\ \A l \in Layer : <<l, Node(d, FALSE, index).slot[l]>> \in Slot
  BY <1>2, <1>4, NodeTyped
<1>8. e \in [Timer -> NodeType] /\ f \in [Timer -> Nat]
  <2>1. x + d \in Nat
    BY <1>4
  <2> QED
    BY <1>2, <1>7, <2>1
<1>9. e[t] = Node(d, FALSE, index) /\ f[t] = x + d /\ \A u \in Timer : u # t => e[u] = node[u] /\ f[u] = due[u]
  BY <1>2
<1>10. HasSlots(e)
  BY <1>2, <1>7, <1>9 DEF HasSlots
<1>11. e[t].delay = d /\ ~ e[t].repeat /\ ArmedIn(e) = ArmedIn(node) \cup {t}
  <2>1. e[t].delay = d /\ ~ e[t].repeat
    BY <1>9 DEF Node
  <2> QED
    BY <1>4, <1>9, <2>1 DEF ArmedIn
<1>12. Servers(e, f, etcd, x)
  <2>1. Keeps(node, due, t, d, e, f, etcd, x)
    BY ONLY <1>2, <1>3, <1>4, <1>9, <1>11, x \in Nat, t \in Timer, ServersAdd
  <2> QED
    BY <2>1 DEF Keeps
<1>13. TypeInv'
  BY <1>5, <1>8, <1>10 DEF Inv, TypeInv
<1>14. Clock' = x /\ now' - pending' = x
  BY <1>1, <1>5 DEF Clock
<1> QED
  BY <1>1, <1>2, <1>5, <1>6, <1>12, <1>13, <1>14 DEF Inv

(* ... and when etcd_manager::init adds its two.                           *)
LEMMA EtcdInitInv ==
  ASSUME Inv, NEW t \in Timer, NEW u \in Timer, EtcdInit(t, u)
  PROVE  Inv'
<1>1. PICK x \in Nat : x = now /\ x = Clock /\ cursor = NULL /\ pending = 0 /\ now - pending = x
  BY ClockFacts DEF Inv, EtcdInit, Idle
<1>2. IndexIs(index, x) /\ Linked(wheel, NULL, index, node, due, x) /\ Servers(node, due, "waiting", x)
      /\ node \in [Timer -> NodeType] /\ due \in [Timer -> Nat] /\ HasSlots(node)
  BY <1>1 DEF Inv, TypeInv, EtcdInit
<1>3. t # u /\ t \notin ArmedIn(node) /\ u \notin ArmedIn(node)
  BY DEF EtcdInit, Armed, ArmedIn
<1>4. /\ RefreshDelay \in Nat /\ RefreshDelay > 0 /\ RefreshDelay \in 1..(SECOND_IN_DAY * DayNum - 1)
      /\ InitDelay \in Nat /\ InitDelay > 0 /\ InitDelay \in 1..(SECOND_IN_DAY * DayNum - 1)
  BY DelaysOfServers
<1> SUFFICES ASSUME NEW n, n = Node(RefreshDelay, TRUE, index), NEW m,
                    m = Node(InitDelay, FALSE, index),
                    NEW g, g = [node EXCEPT ![t] = n], NEW z,
                    z = [due EXCEPT ![t] = x + RefreshDelay],
                    NEW w, w = AddTimerCore(wheel, t, RefreshDelay, index),
                    NEW e, e = [g EXCEPT ![u] = m], NEW f, f = [z EXCEPT ![u] = x + InitDelay],
                    NEW v, v = AddTimerCore(w, u, InitDelay, index)
             PROVE  Inv'
  OBVIOUS
<1>5. /\ wheel' = v /\ node' = e /\ due' = f /\ etcd' = "running"
      /\ UNCHANGED <<now, pending, index, cursor, last>>
  BY <1>1 DEF EtcdInit
<1>6. n \in NodeType /\ m \in NodeType /\ \A l \in Layer : <<l, n.slot[l]>> \in Slot /\ <<l, m.slot[l]>> \in Slot
  BY <1>2, <1>4, NodeTyped
<1>7. /\ g \in [Timer -> NodeType] /\ z \in [Timer -> Nat] /\ e \in [Timer -> NodeType]
      /\ f \in [Timer -> Nat]
  <2>1. x + RefreshDelay \in Nat /\ x + InitDelay \in Nat
    BY <1>4
  <2> QED
    BY <1>2, <1>6, <2>1
<1>8. n.delay = RefreshDelay /\ n.repeat /\ m.delay = InitDelay /\ ~ m.repeat
  BY DEF Node
<1>9. /\ g[t] = n /\ \A o \in Timer : o # t => g[o] = node[o]
      /\ e[t] = n /\ e[u] = m /\ f[u] = x + InitDelay
      /\ \A o \in Timer : o # t /\ o # u => e[o] = node[o] /\ f[o] = due[o]
  BY <1>2, <1>3, <1>7
<1>10. /\ \A o \in Timer : g[o].delay > 0 <=> (o = t \/ node[o].delay > 0)
       /\ \A o \in Timer : e[o].delay > 0 <=> (o = t \/ o = u \/ node[o].delay > 0)
  <2>1. g[t].delay > 0 /\ e[t].delay > 0 /\ e[u].delay > 0
    BY <1>4, <1>8, <1>9
  <2>2. \A o \in Timer : o # t => g[o].delay = node[o].delay
    BY <1>9
  <2>3. \A o \in Timer : o # t /\ o # u => e[o].delay = node[o].delay
    BY <1>9
  <2> QED
    BY <2>1, <2>2, <2>3
<1>11. /\ ArmedIn(g) = ArmedIn(node) \cup {t} /\ ArmedIn(e) = ArmedIn(node) \cup {t, u}
       /\ u \notin ArmedIn(g)
  <2>1. ArmedIn(g) = ArmedIn(node) \cup {t}
    BY <1>10 DEF ArmedIn
  <2>2. ArmedIn(e) = ArmedIn(node) \cup {t, u}
    BY <1>10 DEF ArmedIn
  <2> QED
    BY <1>3, <2>1, <2>2
<1>12. Linked(w, NULL, index, g, z, x)
  <2>1. Linked(AddTimerCore(wheel, t, RefreshDelay, index), NULL, index, [node EXCEPT ![t] = Node(RefreshDelay, TRUE, index)],
               [due EXCEPT ![t] = x + RefreshDelay], x)
    BY ONLY <1>2, <1>3, <1>4, x \in Nat, t \in Timer, TRUE \in BOOLEAN, LinkedAdd
  <2> QED
    BY <2>1
<1>13. Linked(v, NULL, index, e, f, x)
  <2>1. Linked(AddTimerCore(w, u, InitDelay, index), NULL, index, [g EXCEPT ![u] = Node(InitDelay, FALSE, index)],
               [z EXCEPT ![u] = x + InitDelay], x)
    BY ONLY <1>2, <1>4, <1>7, <1>11, <1>12, x \in Nat, u \in Timer, FALSE \in BOOLEAN, LinkedAdd
  <2> QED
    BY <2>1
<1>14. HasSlots(e)
  BY <1>2, <1>6, <1>9 DEF HasSlots
<1>15. Servers(e, f, "running", x)
  <2>1. e[t].delay = RefreshDelay /\ e[t].repeat /\ e[u].delay = InitDelay /\ ~ e[u].repeat
    BY <1>8, <1>9
  <2>2. Keeps(node, due, t, u, e, f, "running", x)
    BY ONLY <1>2, <1>3, <1>9, <1>11, <2>1, x \in Nat, t \in Timer, u \in Timer, ServersStart
  <2> QED
    BY <2>2 DEF Keeps
<1>16. TypeInv'
  BY <1>5, <1>7, <1>14 DEF Inv, TypeInv
<1>17. Clock' = x /\ now' - pending' = x
  BY <1>1, <1>5 DEF Clock
<1> QED
  BY <1>1, <1>2, <1>5, <1>13, <1>15, <1>16, <1>17 DEF Inv

(* So every step preserves it.                                             *)
LEMMA NextInv == Inv /\ [Next]_vars => Inv'
<1> SUFFICES ASSUME Inv, [Next]_vars PROVE Inv'
  OBVIOUS
<1>1. ASSUME NEW k \in 1..MaxStall, Update(k) PROVE Inv'
  BY <1>1, UpdateInv
<1>2. CASE ProcSecondNodes
  BY <1>2, ProcSecondNodesInv
<1>3. CASE ProcNode
  BY <1>3, ProcNodeInv
<1>4. ASSUME NEW t \in Timer, NEW d \in ServerDelays \cup RobotDelays, AddTimer(t, d) PROVE Inv'
  BY <1>4, AddTimerInv
<1>5. ASSUME NEW t \in Timer, NEW u \in Timer, EtcdInit(t, u) PROVE Inv'
  BY <1>5, EtcdInitInv
<1>6. CASE UNCHANGED vars
  BY <1>6 DEF vars, Inv, TypeInv, Clock, HasSlots
<1> QED
  BY <1>1, <1>2, <1>3, <1>4, <1>5, <1>6 DEF Next

(* The indices, lists and timers of a process stay as Inv says, for any    *)
(* sizes of the layers, timers, stalls and delays.                         *)
THEOREM Invariance == Spec => []Inv
<1>1. Init => Inv
  BY InitInv
<1>2. Inv /\ [Next]_vars => Inv'
  BY NextInv
<1> QED
  BY <1>1, <1>2, PTL DEF Spec

(* What the invariant says of the properties that the run checks.          *)
LEMMA InvLists == Inv => ListsAreSound
<1> SUFFICES ASSUME Inv PROVE ListsAreSound
  OBVIOUS
<1>1. IsWheel(wheel)
  BY DEF Inv, Linked, Lists
<1>2. \A l \in Layer : index[l] \in 0..(Size[l] - 1)
  <2>1. Clock \in Nat
    BY ClockFacts DEF Inv
  <2> QED
    BY <2>1, TurnsType DEF Inv, IndexIs
<1>3. \A t \in Timer : \A l \in Layer : node[t].slot[l] \in 0..(Size[l] - 1)
  <2>1. ASSUME NEW t \in Timer, NEW l \in Layer PROVE node[t].slot[l] \in 0..(Size[l] - 1)
    <3>1. <<l, node[t].slot[l]>> \in Slot
      BY DEF Inv, TypeInv, HasSlots
    <3>2. PICK m \in Layer : \E i \in 0..(Size[m] - 1) : <<l, node[t].slot[l]>> = <<m, i>>
      BY <3>1 DEF Slot
    <3> QED
      BY <3>2
  <2> QED
    BY <2>1
<1>4. TypeOK
  BY <1>1, <1>2, <1>3 DEF Inv, TypeInv, TypeOK, IsWheel, MaybeTimer
<1>5. ASSUME Idle
      PROVE  /\ Armed = {NodeAt(p) : p \in Places}
             /\ \A p \in Places, q \in Places : NodeAt(p) = NodeAt(q) => p = q
             /\ \A p \in Places :
                  wheel.pre[NodeAt(p)] = IF p[2] = 1 THEN NULL ELSE NodeAt(<<p[1], p[2] - 1>>)
  <2>1. cursor = NULL /\ Armed = ArmedIn(node)
    BY <1>5 DEF Idle, Armed, ArmedIn
  <2>2. Heads(wheel, NULL, index) = wheel.head /\ Turn(NULL, index) = {} /\ Again(wheel, NULL) = {}
    BY DEF Heads, Turn, Again
  <2>3. PICK at, behind : Lists(wheel, wheel.head, {}, {}, Armed, at, behind)
    BY <2>1, <2>2 DEF Inv, Linked
  <2> QED
    BY <2>3, ListsOfNodes
<1> QED
  BY <1>4, <1>5 DEF ListsAreSound

(* The node whose turn it is waits.                                        *)
LEMMA InvArmed == Inv => OnlyArmedTimersRun
<1> SUFFICES ASSUME Inv, cursor # NULL PROVE cursor \in Armed
  BY DEF OnlyArmedTimersRun
<1>1. Clock \in Nat /\ cursor \in Timer
  BY ClockFacts DEF Inv
<1>2. IndexIs(index, Clock) /\ Linked(wheel, cursor, index, node, due, Clock)
      /\ node \in [Timer -> NodeType] /\ due \in [Timer -> Nat]
  BY DEF Inv, TypeInv
<1>3. cursor \in ArmedIn(node)
  BY ONLY <1>1, <1>2, TurnNow
<1> QED
  BY <1>3 DEF Armed, ArmedIn

(* A callback is never so early as to be late.                             *)
LEMMA CarriesAreNat ==
  ASSUME NEW d, NEW e \in Carries(d)
  PROVE  e \in Nat
<1>1. PICK a \in {0} \cup IF d < SECOND_IN_MINUTE THEN {} ELSE {SECOND_IN_MINUTE},
           b \in {0} \cup IF d < SECOND_IN_HOUR THEN {} ELSE {SECOND_IN_HOUR},
           c \in {0} \cup IF d < SECOND_IN_DAY THEN {} ELSE {SECOND_IN_DAY} : e = a + b + c
  BY DEF Carries
<1>2. a \in {0, SECOND_IN_MINUTE} /\ b \in {0, SECOND_IN_HOUR} /\ c \in {0, SECOND_IN_DAY}
  OBVIOUS
<1>3. a \in Nat /\ b \in Nat /\ c \in Nat
  BY <1>2, UnitFacts
<1> QED
  BY <1>1, <1>3

(* A timer waits for a second to come, and is due no earlier than that.    *)
LEMMA InvNeverLate == Inv => NeverLate
<1> SUFFICES ASSUME Inv PROVE NeverLate
  OBVIOUS
<1>1. ASSUME Idle, NEW t \in Armed PROVE due[t] > now
  <2>1. cursor = NULL /\ t \in ArmedIn(node) /\ t \in Timer
    BY <1>1 DEF Idle, Armed, ArmedIn
  <2>2. PICK x \in Nat : x = now /\ x = Clock
    BY <1>1, ClockFacts DEF Idle, Inv
  <2>3. Heads(wheel, NULL, index) = wheel.head /\ Turn(NULL, index) = {} /\ Again(wheel, NULL) = {}
    BY DEF Heads, Turn, Again
  <2>4. PICK at, behind : \A u \in ArmedIn(node) : RunsTo(node, due, u, at[u], x, {})
    BY <2>1, <2>2, <2>3 DEF Inv, Linked
  <2>5. PICK r : WaitsFor(node, due, t, at[t], r) /\ Turns(x)[at[t][1]] < Turns(r)[at[t][1]]
    BY <2>1, <2>4 DEF RunsTo
  <2>6. r \in Nat /\ at[t][1] \in Layer /\ due[t] - r \in Carries(node[t].delay)
    BY <2>5 DEF WaitsFor, RunsAt, Lost
  <2>7. x < r
    BY <2>5, <2>6, LaterSecond
  <2>8. due[t] - r \in Nat
    BY <2>6, CarriesAreNat
  <2>9. due[t] \in Nat
    BY <2>1 DEF Inv, TypeInv
  <2> QED
    BY <2>2, <2>6, <2>7, <2>8, <2>9
<1>2. last.early >= 0
  <2>1. last.early \in Nat
    BY CarriesAreNat DEF Inv, Lost
  <2> QED
    BY <2>1
<1> QED
  BY <1>1, <1>2 DEF NeverLate

(* However one-shot timers, the refresh and the cascades share the slots,  *)
(* every timer that waits is linked into one slot, once, and the links     *)
(* back agree.                                                             *)
THEOREM ListsStaySound == Spec => []ListsAreSound
BY Invariance, InvLists, PTL

(* proc_node never meets a node that was given back to the pool.           *)
THEOREM ArmedTimersRun == Spec => []OnlyArmedTimersRun
BY Invariance, InvArmed, PTL

(* No timer is overdue once update has returned, and no callback is late,  *)
(* however long the logic thread stalls.                                   *)
THEOREM NoTimerIsLate == Spec => []NeverLate
BY Invariance, InvNeverLate, PTL

(* A callback is early by nothing but the carries that add_timer_core      *)
(* drops: never for a delay under a minute, or of whole minutes, hours or  *)
(* days.                                                                   *)
THEOREM CarriesOnlyAreLost == Spec => []EarlyByCarriesOnly
<1>1. Inv => EarlyByCarriesOnly
  BY DEF Inv, Lost, EarlyByCarriesOnly
<1> QED
  BY <1>1, Invariance, PTL
=============================================================================
