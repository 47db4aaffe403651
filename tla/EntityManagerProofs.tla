------------------------ MODULE EntityManagerProofs ------------------------
(***************************************************************************)
(* Proofs about EntityManager: type correctness, and the invariant that    *)
(* ties the lists of the two-step release to the time of destroy().        *)
(***************************************************************************)
EXTENDS EntityManager, TLAPS

USE DEF NoEntity

-----------------------------------------------------------------------------
(* The turns of the loop and the readings of the clock.                    *)
TimesAreOrdered ==
  /\ last <= now /\ now <= clock /\ clock <= now + Frame
  /\ 0 < clock
  /\ phase = "time" => now < last + Period
  /\ phase # "time" =>
       \/ now < last + Period + Frame
       \/ phase = "update" /\ \A e \in Ids : died[e] = 0

(* A call that an account made before destroy() is bound to its object.    *)
CallsAreBound ==
  \A c \in calls :
    /\ c.sent <= clock /\ clock <= c.sent + Latency
    /\ ~c.late => /\ c.by \in DOMAIN entities
                  /\ entities[c.by] = c.slot
                  /\ died[c.by] # 0 => c.sent <= died[c.by]

(* The flag of a live object is set when destroy() has been called, and    *)
(* then its id is on one of the two lists.                                 *)
FlagsAreSound ==
  \A e \in DOMAIN entities :
    /\ object[entities[e]].dead <=> died[e] # 0
    /\ died[e] # 0 => e \in delayIds \cup destroyIds
    /\ e \in delayIds \cup destroyIds => died[e] # 0

(* What the lists tell of the time of destroy().                           *)
ListsAreTimely ==
  /\ \A e \in Ids : died[e] <= clock
  /\ \A e \in DOMAIN entities :
       /\ e \in destroyIds => /\ died[e] <= last + Frame
                              /\ last < died[e] + Period + Frame
       /\ e \in delayIds \ destroyIds => last <= died[e]

(* An id not yet given out is nowhere.                                     *)
FreshIdsAreUnknown ==
  /\ delayIds \cup destroyIds \subseteq 0..count
  /\ \A s \in Slots : object[s].id \in 0..count
  /\ \A e \in Ids : e > count => died[e] = 0

(* The destructor left no entity id in a node of the free list.            *)
FreeNodesAreBlank ==
  \A s \in free : object[s].id = NoEntity

IInv ==
  /\ TypeOK
  /\ TimesAreOrdered
  /\ EachSlotHasOneUse
  /\ FreeNodesAreBlank
  /\ FreshIdsAreUnknown
  /\ CallsAreBound
  /\ FlagsAreSound
  /\ ListsAreTimely

(* The invariant holds before the first turn.                              *)
LEMMA InitIInv == Init => IInv
<1> SUFFICES ASSUME Init PROVE IInv
  OBVIOUS
<1>0. Start \in Nat \ {0} /\ Frame \in Nat /\ Period \in Nat \ {0}
  BY TimeAssumption
<1>1. TypeOK
  <2>1. 1..count = {}
    BY DEF Init
  <2>2. DOMAIN entities = {} /\ DOMAIN proxys = {}
    BY DEF Init
  <2>3. proxys \in [1..count -> Slots] /\ entities \in [DOMAIN entities -> Slots]
    BY <2>1, <2>2 DEF Init
  <2> QED
    BY <1>0, <2>1, <2>2, <2>3, TimeAssumption DEF Init, TypeOK, Object, Blank
<1>2. TimesAreOrdered /\ CallsAreBound
  BY <1>0 DEF Init, TimesAreOrdered, CallsAreBound
<1>3. EachSlotHasOneUse /\ FreeNodesAreBlank
  BY DEF Init, EachSlotHasOneUse, FreeNodesAreBlank, Blank
<1>4. FlagsAreSound /\ ListsAreTimely
  BY <1>0 DEF Init, FlagsAreSound, ListsAreTimely
<1>5. FreshIdsAreUnknown
  BY DEF Init, FreshIdsAreUnknown, Blank
<1> QED
  BY <1>1, <1>2, <1>3, <1>4, <1>5 DEF IInv

-----------------------------------------------------------------------------
(* Time passes: every bound on the clock is a guard of Tick or does not    *)
(* mention it.                                                             *)
LEMMA TickStep == IInv /\ Tick => IInv'
<1> SUFFICES ASSUME IInv, Tick PROVE IInv'
  OBVIOUS
<1> USE DEF IInv
<1>0. /\ clock \in Nat /\ clock' = clock + 1 /\ Frame \in Nat
      /\ \A e \in Ids : died[e] \in Nat
      /\ \A c \in calls : c.sent \in Nat
  BY TimeAssumption DEF Tick, TypeOK, CallRecord
<1>1. TypeOK'
  BY <1>0 DEF Tick, TypeOK, loopVars, managerVars, CallRecord
<1>2. TimesAreOrdered'
  BY <1>0 DEF Tick, TypeOK, TimesAreOrdered, loopVars
<1>3. EachSlotHasOneUse' /\ FreeNodesAreBlank' /\ FlagsAreSound' /\ FreshIdsAreUnknown'
  BY DEF Tick, EachSlotHasOneUse, FreeNodesAreBlank, FlagsAreSound, FreshIdsAreUnknown,
         managerVars
<1>4. CallsAreBound'
  BY <1>0, TimeAssumption DEF Tick, CallsAreBound, managerVars
<1>5. ListsAreTimely'
  BY <1>0 DEF Tick, ListsAreTimely, loopVars, managerVars
<1> QED
  BY <1>1, <1>2, <1>3, <1>4, <1>5

(* The loop goes on or reads the clock.                                    *)
LEMMA LoopStep == IInv /\ (ReadClock \/ Turn) => IInv'
<1> SUFFICES ASSUME IInv, ReadClock \/ Turn PROVE IInv'
  OBVIOUS
<1> USE DEF IInv
<1>0. /\ clock \in Nat /\ now \in Nat /\ last \in Nat
      /\ Frame \in Nat /\ Period \in Nat \ {0}
  BY TimeAssumption DEF TypeOK
<1>1. TypeOK'
  BY DEF ReadClock, Turn, TypeOK, managerVars, CallRecord
<1>2. TimesAreOrdered'
  <2>1. CASE ReadClock
    BY <1>0, <2>1 DEF ReadClock, TimesAreOrdered
  <2>2. CASE Turn
    BY <1>0, <2>2 DEF Turn, TimesAreOrdered
  <2> QED
    BY <2>1, <2>2
<1>3. EachSlotHasOneUse' /\ FreeNodesAreBlank' /\ FlagsAreSound' /\ FreshIdsAreUnknown'
  BY DEF ReadClock, Turn, EachSlotHasOneUse, FreeNodesAreBlank, FlagsAreSound,
         FreshIdsAreUnknown, managerVars
<1>4. CallsAreBound' /\ ListsAreTimely'
  BY DEF ReadClock, Turn, CallsAreBound, ListsAreTimely, managerVars
<1> QED
  BY <1>1, <1>2, <1>3, <1>4

-----------------------------------------------------------------------------
(* A sweep frees only accounts whose destroy() is so long past that every  *)
(* call they made before it has been answered.                             *)
LEMMA DoomedAreDue ==
  ASSUME IInv, SweepIsDue, NEW e \in Doomed
  PROVE  /\ died[e] # 0 /\ died[e] + Period <= clock + Frame
         /\ \A c \in calls : c.late \/ c.by # e
<1> USE DEF IInv
<1>1. e \in DOMAIN entities /\ e \in destroyIds /\ e \in Ids
  BY DEF Doomed, TypeOK, Ids
<1>2. died[e] # 0 /\ died[e] <= last + Frame /\ last + Period <= now /\ now <= clock
  BY <1>1 DEF FlagsAreSound, ListsAreTimely, SweepIsDue, TimesAreOrdered
<1>3. /\ died[e] \in Nat /\ last \in Nat /\ now \in Nat /\ clock \in Nat
      /\ Frame \in Nat /\ Period \in Nat /\ Latency \in Nat
  BY <1>1, TimeAssumption DEF TypeOK
<1>4. ASSUME NEW c \in calls, ~c.late, c.by = e PROVE FALSE
  <2>1. c.sent <= died[e] /\ clock <= c.sent + Latency /\ c.sent \in Nat
    BY <1>2, <1>4 DEF CallsAreBound, TypeOK, CallRecord
  <2> QED
    BY <1>2, <1>3, <2>1, AnswersAreTimely
<1> QED
  BY <1>2, <1>3, <1>4

LEMMA UpdateStep == IInv /\ Update => IInv'
<1> SUFFICES ASSUME IInv, Update PROVE IInv'
  OBVIOUS
<1> USE DEF IInv
<1>0. /\ clock \in Nat /\ now \in Nat /\ last \in Nat
      /\ Frame \in Nat /\ Period \in Nat \ {0}
  BY TimeAssumption DEF TypeOK
<1>1. CASE ~SweepIsDue
  <2>1. UNCHANGED <<last, entities, object, free, destroyIds, delayIds>>
    BY <1>1 DEF Update
  <2>2. TimesAreOrdered'
    BY <1>0, <1>1, <2>1 DEF Update, TimesAreOrdered, SweepIsDue
  <2>3. TypeOK'
    BY <2>1 DEF Update, TypeOK, CallRecord
  <2>4. EachSlotHasOneUse' /\ FreeNodesAreBlank' /\ FlagsAreSound' /\ FreshIdsAreUnknown'
    BY <2>1 DEF Update, EachSlotHasOneUse, FreeNodesAreBlank, FlagsAreSound,
                FreshIdsAreUnknown
  <2>5. CallsAreBound' /\ ListsAreTimely'
    BY <2>1 DEF Update, CallsAreBound, ListsAreTimely
  <2> QED
    BY <2>2, <2>3, <2>4, <2>5
<1>2. CASE SweepIsDue
  <2>1. /\ last' = now /\ phase' = "time" /\ phase = "update"
        /\ entities' = [e \in DOMAIN entities \ Doomed |-> entities[e]]
        /\ object' = [s \in Slots |-> IF s \in Released THEN Blank ELSE object[s]]
        /\ free' = free \cup Released
        /\ destroyIds' = delayIds
        /\ delayIds' = {}
        /\ UNCHANGED <<clock, now, count, proxys, c2e, opt, calls, died>>
    BY <1>2 DEF Update, Condemned
  <2>2. /\ \A e \in DOMAIN entities : e \in Ids /\ entities[e] \in Slots
        /\ count \in 0..MaxEntities /\ MaxEntities \in Nat
    BY TimeAssumption DEF TypeOK, Ids
  <2>3. \A e, f \in DOMAIN entities : entities[e] = entities[f] => e = f
    BY DEF EachSlotHasOneUse
  <2>4. /\ DOMAIN entities' = DOMAIN entities \ Doomed
        /\ \A e \in DOMAIN entities' :
             /\ e \in DOMAIN entities /\ e \notin destroyIds
             /\ entities'[e] = entities[e]
             /\ entities[e] \notin Released
             /\ object'[entities[e]] = object[entities[e]]
    <3>1. /\ DOMAIN entities' = DOMAIN entities \ Doomed
          /\ \A e \in DOMAIN entities' :
               e \in DOMAIN entities /\ e \notin destroyIds /\ entities'[e] = entities[e]
      BY <2>1 DEF Doomed
    <3>2. \A e \in DOMAIN entities \ Doomed : entities[e] \notin Released
      BY <2>3 DEF Released, Doomed
    <3> QED
      BY <2>1, <2>2, <3>1, <3>2
  <2>5. TypeOK'
    <3>1. Released \subseteq Slots
      BY <2>2 DEF Released, Doomed
    <3>2. object' \in [Slots -> Object]
      <4>1. \A s \in Slots : (IF s \in Released THEN Blank ELSE object[s]) \in Object
        BY DEF TypeOK, Object, Blank
      <4> QED
        BY <2>1, <4>1
    <3>3. entities' \in [DOMAIN entities' -> Slots] /\ DOMAIN entities' \subseteq 1..count
      BY <2>1, <2>2, <2>4 DEF TypeOK
    <3> QED
      BY <2>1, <3>1, <3>2, <3>3 DEF TypeOK, CallRecord
  <2>6. TimesAreOrdered'
    BY <1>0, <2>1 DEF TimesAreOrdered
  <2>7. EachSlotHasOneUse' /\ FreeNodesAreBlank'
    <3>1. \A e \in DOMAIN entities' : entities'[e] \notin free' /\ object'[entities'[e]].id = e
      BY <2>1, <2>4 DEF EachSlotHasOneUse
    <3>2. \A s \in Slots \ free' : \E e \in DOMAIN entities' : entities'[e] = s
      <4> SUFFICES ASSUME NEW s \in Slots, s \notin free, s \notin Released
                   PROVE  \E e \in DOMAIN entities' : entities'[e] = s
        BY <2>1
      <4>1. PICK e \in DOMAIN entities : entities[e] = s
        BY DEF EachSlotHasOneUse
      <4>2. e \notin Doomed
        BY <4>1 DEF Released
      <4> QED
        BY <2>4, <4>1, <4>2
    <3>3. FreeNodesAreBlank'
      <4> SUFFICES ASSUME NEW s \in free' PROVE object'[s].id = 0
        BY DEF FreeNodesAreBlank
      <4>1. s \in Slots
        BY <2>1, <2>2 DEF TypeOK, Released, Doomed
      <4>2. Blank.id = 0
        BY DEF Blank
      <4> QED
        BY <2>1, <4>1, <4>2 DEF FreeNodesAreBlank
    <3> QED
      BY <3>1, <3>2, <3>3 DEF EachSlotHasOneUse
  <2>8. CallsAreBound'
    <3>1. \A c \in calls : ~c.late => c.by \in DOMAIN entities /\ c.by \notin Doomed
      BY <1>2, DoomedAreDue DEF CallsAreBound
    <3> QED
      BY <2>1, <2>4, <3>1 DEF CallsAreBound
  <2>9. FlagsAreSound'
    BY <2>1, <2>4 DEF FlagsAreSound
  <2>10. ListsAreTimely'
    <3> SUFFICES ASSUME NEW e \in DOMAIN entities', e \in delayIds
                 PROVE  died[e] <= now + Frame /\ now < died[e] + Period + Frame
      BY <2>1 DEF ListsAreTimely
    <3>1. e \in DOMAIN entities /\ e \notin destroyIds /\ e \in Ids /\ died[e] \in Nat
      BY <2>2, <2>4 DEF TypeOK
    <3>2. last <= died[e] /\ died[e] <= clock /\ died[e] # 0
      BY <3>1 DEF ListsAreTimely, FlagsAreSound
    <3>3. now < last + Period + Frame /\ clock <= now + Frame
      BY <2>1, <3>1, <3>2 DEF TimesAreOrdered
    <3> QED
      BY <1>0, <3>1, <3>2, <3>3
  <2>11. FreshIdsAreUnknown'
    <3>1. Blank.id = 0 /\ 0 \in 0..count
      BY <2>2 DEF Blank
    <3> QED
      BY <2>1, <3>1 DEF FreshIdsAreUnknown
  <2> QED
    BY <2>5, <2>6, <2>7, <2>8, <2>9, <2>10, <2>11
<1> QED
  BY <1>1, <1>2

-----------------------------------------------------------------------------
(* A call issued by the handler on slot s, where the manager and the flags *)
(* stay as they are.                                                       *)
LEMMA NewCall ==
  ASSUME NEW s \in Slots, NEW held \in SUBSET calls, Issue(s, held),
         clock \in Nat, clock' = clock, TypeOK, CallsAreBound,
         object'[s] \in Object,
         \A e \in DOMAIN entities : e \in DOMAIN entities' /\ entities'[e] = entities[e],
         \A e \in DOMAIN entities : died'[e] = died[e],
         ~object'[s].dead /\ object'[s].id # NoEntity =>
           LET e == object'[s].id
           IN  e \in DOMAIN entities' /\ entities'[e] = s /\ died'[e] = 0
  PROVE  /\ opt' \in 0..MaxCalls
         /\ calls' \subseteq CallRecord
         /\ CallsAreBound'
<1> DEFINE new == [opt |-> opt + 1, slot |-> s, by |-> object'[s].id, sent |-> clock,
                   late |-> object'[s].dead \/ object'[s].id = NoEntity]
<1>1. opt \in 0..MaxCalls /\ opt < MaxCalls /\ opt' = opt + 1 /\ calls' = held \cup {new}
  BY DEF Issue, TypeOK
<1>2. opt + 1 \in 1..MaxCalls /\ opt + 1 \in 0..MaxCalls /\ Latency \in Nat
  BY <1>1, TimeAssumption
<1>3. new \in CallRecord
  BY <1>2 DEF CallRecord, Object
<1>4. \A c \in held : c \in calls /\ c \in CallRecord
  BY DEF TypeOK
<1>5. /\ new.sent = clock /\ new.slot = s /\ new.by = object'[s].id
      /\ ~new.late => ~object'[s].dead /\ object'[s].id # NoEntity
  OBVIOUS
<1> HIDE DEF new
<1>6. ASSUME NEW c \in calls'
      PROVE  /\ c.sent <= clock /\ clock <= c.sent + Latency
             /\ ~c.late => /\ c.by \in DOMAIN entities'
                           /\ entities'[c.by] = c.slot
                           /\ died'[c.by] # 0 => c.sent <= died'[c.by]
  <2>1. CASE c \in held
    BY <1>4, <2>1 DEF CallsAreBound
  <2>2. CASE c = new
    <3>1. c.sent <= clock /\ clock <= c.sent + Latency
      BY <1>2, <1>5, <2>2
    <3>2. ASSUME ~c.late
          PROVE  c.by \in DOMAIN entities' /\ entities'[c.by] = c.slot /\ died'[c.by] = 0
      BY <1>5, <2>2, <3>2
    <3> QED
      BY <3>1, <3>2
  <2> QED
    BY <1>1, <2>1, <2>2
<1>7. CallsAreBound'
  BY <1>6 DEF CallsAreBound
<1> QED
  BY <1>1, <1>2, <1>3, <1>4, <1>7

(* create_entity: a node of the free list and an id nobody has had.        *)
LEMMA CreateStep == IInv /\ CreateAccount => IInv'
<1> SUFFICES ASSUME IInv, CreateAccount PROVE IInv'
  OBVIOUS
<1> USE DEF IInv
<1> DEFINE n == count + 1
<1>1. PICK s \in free :
        /\ count' = n
        /\ free' = free \ {s}
        /\ object' = [object EXCEPT ![s] = [id |-> n, dead |-> FALSE]]
        /\ entities' = [e \in DOMAIN entities \cup {n} |-> IF e = n THEN s ELSE entities[e]]
        /\ proxys' = [e \in DOMAIN proxys \cup {n} |-> IF e = n THEN s ELSE proxys[e]]
        /\ c2e' = c2e \cup {n}
        /\ Issue(s, calls)
  BY DEF CreateAccount, FreshId
<1>2. UNCHANGED <<clock, now, phase, last, delayIds, destroyIds, died>>
  BY DEF CreateAccount, FreshId, loopVars
<1>3. /\ n \in Ids /\ n \in 1..n /\ n # 0 /\ n \in 0..MaxEntities /\ s \in Slots
      /\ count \in Nat /\ \A e \in 1..count : e # n /\ e \in 1..n
      /\ n \notin DOMAIN entities
      /\ \A e \in DOMAIN entities : e \in 1..count /\ e \in Ids
  BY <1>1, TimeAssumption DEF CreateAccount, FreshId, TypeOK, Ids
<1>4. /\ DOMAIN entities' = DOMAIN entities \cup {n} /\ entities'[n] = s
      /\ \A e \in DOMAIN entities :
           entities'[e] = entities[e] /\ entities[e] # s /\ entities[e] \in Slots
  BY <1>1, <1>3 DEF EachSlotHasOneUse, TypeOK
<1>5. /\ object'[s] = [id |-> n, dead |-> FALSE]
      /\ \A r \in Slots : r # s => object'[r] = object[r]
      /\ object' \in [Slots -> Object]
  BY <1>1, <1>3 DEF TypeOK, Object
<1>6. /\ n \notin delayIds /\ n \notin destroyIds /\ died[n] = 0
      /\ \A m \in 0..count : m \in 0..n
  BY <1>3 DEF FreshIdsAreUnknown
<1>7. /\ opt' \in 0..MaxCalls
      /\ calls' \subseteq CallRecord
      /\ CallsAreBound'
  <2>1. ~object'[s].dead /\ object'[s].id # NoEntity =>
          LET e == object'[s].id
          IN  e \in DOMAIN entities' /\ entities'[e] = s /\ died'[e] = 0
    BY <1>2, <1>4, <1>5, <1>6
  <2>2. \A e \in DOMAIN entities : died'[e] = died[e]
    BY <1>2
  <2>3. clock \in Nat /\ calls \in SUBSET calls /\ object'[s] \in Object
    BY <1>3, <1>5 DEF TypeOK
  <2> QED
    BY <1>1, <1>2, <1>3, <1>4, <2>1, <2>2, <2>3, NewCall
<1>8. TypeOK'
  <2>1. proxys' \in [1..n -> Slots]
    <3>1. DOMAIN proxys \cup {n} = 1..n /\ \A e \in DOMAIN proxys : proxys[e] \in Slots
      BY <1>3 DEF TypeOK
    <3> QED
      BY <1>1, <1>3, <3>1
  <2>2. entities' \in [DOMAIN entities' -> Slots] /\ DOMAIN entities' \subseteq 1..n
    BY <1>1, <1>3, <1>4
  <2>3. c2e' \subseteq 1..n
    BY <1>1, <1>3 DEF TypeOK
  <2> QED
    BY <1>1, <1>2, <1>3, <1>5, <1>7, <2>1, <2>2, <2>3 DEF TypeOK
<1>9. TimesAreOrdered'
  BY <1>2 DEF TimesAreOrdered
<1>10. EachSlotHasOneUse' /\ FreeNodesAreBlank'
  <2>1. \A e \in DOMAIN entities' : entities'[e] \notin free' /\ object'[entities'[e]].id = e
    BY <1>1, <1>4, <1>5 DEF EachSlotHasOneUse
  <2>2. \A r \in Slots \ free' : \E e \in DOMAIN entities' : entities'[e] = r
    BY <1>1, <1>4 DEF EachSlotHasOneUse
  <2>3. FreeNodesAreBlank'
    BY <1>1, <1>5 DEF FreeNodesAreBlank, TypeOK
  <2> QED
    BY <2>1, <2>2, <2>3 DEF EachSlotHasOneUse
<1>11. FlagsAreSound' /\ ListsAreTimely'
  BY <1>2, <1>3, <1>4, <1>5, <1>6 DEF FlagsAreSound, ListsAreTimely
<1>12. FreshIdsAreUnknown'
  <2>1. delayIds' \cup destroyIds' \subseteq 0..n
    BY <1>2, <1>6 DEF FreshIdsAreUnknown
  <2>2. \A r \in Slots : object'[r].id \in 0..n
    BY <1>3, <1>5, <1>6 DEF FreshIdsAreUnknown
  <2>3. \A e \in Ids : e > n => died'[e] = 0
    BY <1>2, <1>3 DEF FreshIdsAreUnknown, Ids
  <2> QED
    BY <1>1, <2>1, <2>2, <2>3 DEF FreshIdsAreUnknown
<1> QED
  BY <1>7, <1>8, <1>9, <1>10, <1>11, <1>12

(* A handler on the memory at s, whatever it holds.                        *)
LEMMA HandleStep ==
  ASSUME IInv, NEW s \in Slots, NEW held \in SUBSET calls, Handle(s, held),
         phase = "work"
  PROVE  IInv'
<1> USE DEF IInv
<1> DEFINE o == object[s].id
<1>1. UNCHANGED <<clock, now, phase, last, destroyIds, count, entities, free, proxys>>
  BY DEF Handle, loopVars
<1>2. /\ clock \in Nat /\ clock # 0 /\ last <= clock /\ o \in 0..count /\ count \in Nat
      /\ now \in Nat /\ last \in Nat
      /\ \A e \in DOMAIN entities : e \in 1..count /\ e \in Ids /\ e # 0 /\ entities[e] \in Slots
      /\ o # 0 => o \in Ids /\ o \in 1..count
      /\ held \subseteq CallRecord
  <2>1. /\ clock \in Nat /\ now \in Nat /\ last \in Nat /\ held \subseteq CallRecord
        /\ count \in 0..MaxEntities /\ MaxEntities \in Nat
    BY TimeAssumption DEF TypeOK
  <2>2. clock # 0 /\ last <= clock
    BY <2>1 DEF TimesAreOrdered
  <2>3. o \in 0..count
    BY DEF FreshIdsAreUnknown
  <2>4. \A e \in DOMAIN entities : e \in 1..count /\ entities[e] \in Slots
    BY DEF TypeOK
  <2>5. \A e \in 1..count : e \in Ids /\ e # 0
    BY <2>1 DEF Ids
  <2>6. count \in Nat /\ (o # 0 => o \in 1..count)
    BY <2>1, <2>3
  <2> QED
    BY <2>1, <2>2, <2>3, <2>4, <2>5, <2>6
<1>3. o # 0 => o \in DOMAIN entities /\ entities[o] = s
  BY DEF EachSlotHasOneUse, FreeNodesAreBlank
<1>4. CASE UNCHANGED object /\ Issue(s, held) /\ UNCHANGED <<delayIds, died, c2e>>
  <2>1. /\ opt' \in 0..MaxCalls
        /\ calls' \subseteq CallRecord
        /\ CallsAreBound'
    <3>1. ~object'[s].dead /\ object'[s].id # NoEntity =>
            LET e == object'[s].id
            IN  e \in DOMAIN entities' /\ entities'[e] = s /\ died'[e] = 0
      BY <1>1, <1>3, <1>4 DEF FlagsAreSound
    <3>2. object'[s] \in Object
      BY <1>4 DEF TypeOK
    <3> QED
      BY <1>1, <1>2, <1>4, <3>1, <3>2, NewCall
  <2>2. TypeOK'
    BY <1>1, <1>4, <2>1 DEF TypeOK
  <2>3. /\ TimesAreOrdered' /\ EachSlotHasOneUse' /\ FreeNodesAreBlank' /\ FlagsAreSound'
        /\ ListsAreTimely' /\ FreshIdsAreUnknown'
    BY <1>1, <1>4 DEF TimesAreOrdered, EachSlotHasOneUse, FreeNodesAreBlank, FlagsAreSound,
                      ListsAreTimely, FreshIdsAreUnknown
  <2> QED
    BY <2>1, <2>2, <2>3
<1>5. CASE Destroy(s) /\ calls' = held /\ UNCHANGED opt
  <2>1. /\ object' = [object EXCEPT ![s].dead = TRUE]
        /\ delayIds' = delayIds \cup {o}
        /\ died' = IF o # 0 /\ died[o] = 0 THEN [died EXCEPT ![o] = clock] ELSE died
        /\ c2e' \in {c2e, c2e \ {o}}
    BY <1>5 DEF Destroy
  <2>2. /\ object' \in [Slots -> Object]
        /\ object'[s].dead = TRUE
        /\ \A r \in Slots : object'[r].id = object[r].id /\ (r # s => object'[r] = object[r])
    <3>1. \A r \in Slots : object[r] \in Object
      BY DEF TypeOK
    <3>2. \A r \in Slots :
            object'[r] = IF r = s THEN [object[s] EXCEPT !.dead = TRUE] ELSE object[r]
      BY <2>1 DEF TypeOK
    <3>3. object' = [r \in Slots |-> object'[r]]
      BY <2>1 DEF TypeOK
    <3>4. \A r \in Slots :
            /\ object'[r] \in Object /\ object'[r].id = object[r].id
            /\ r = s => object'[r].dead = TRUE
      BY <3>1, <3>2 DEF Object
    <3> QED
      BY <3>2, <3>3, <3>4
  <2>3. /\ died' \in [Ids -> Nat]
        /\ \A e \in Ids : e # o => died'[e] = died[e]
        /\ o # 0 => died'[o] # 0 /\ died'[o] = (IF died[o] = 0 THEN clock ELSE died[o])
    BY <1>2, <2>1 DEF TypeOK
  <2>4. TypeOK'
    BY <1>1, <1>2, <1>5, <2>1, <2>2, <2>3 DEF TypeOK, Ids
  <2>5. TimesAreOrdered'
    BY <1>1 DEF TimesAreOrdered
  <2>6. EachSlotHasOneUse' /\ FreeNodesAreBlank'
    <3>1. \A r \in free : r \in Slots
      BY DEF TypeOK
    <3> QED
      BY <1>1, <1>2, <2>2, <3>1 DEF EachSlotHasOneUse, FreeNodesAreBlank
  <2>7. CallsAreBound'
    <3> SUFFICES ASSUME NEW c \in held, ~c.late, died'[c.by] # 0,
                        c.by \in DOMAIN entities, c.sent <= clock,
                        died[c.by] # 0 => c.sent <= died[c.by]
                 PROVE  c.sent <= died'[c.by]
      BY <1>1, <1>5 DEF CallsAreBound
    <3> QED
      BY <1>2, <2>3
  <2>8. FlagsAreSound'
    <3>1. ASSUME NEW e \in DOMAIN entities, e # o
          PROVE  /\ object'[entities[e]].dead <=> died'[e] # 0
                 /\ died'[e] # 0 <=> e \in delayIds' \cup destroyIds
      <4>1. entities[e] # s
        BY <3>1 DEF EachSlotHasOneUse
      <4> QED
        BY <1>2, <2>1, <2>2, <2>3, <3>1, <4>1 DEF FlagsAreSound
    <3>2. o # 0 => /\ object'[entities[o]].dead /\ died'[o] # 0
                   /\ o \in delayIds' \cup destroyIds
      BY <1>3, <2>1, <2>2, <2>3
    <3> QED
      BY <1>1, <1>2, <3>1, <3>2 DEF FlagsAreSound
  <2>9. ListsAreTimely'
    <3>1. ASSUME NEW e \in Ids PROVE died'[e] <= clock
      <4>1. e # 0 /\ died[e] <= clock /\ clock <= clock
        BY <1>2 DEF Ids, ListsAreTimely
      <4>2. CASE e # o
        BY <2>3, <4>1, <4>2
      <4>3. CASE e = o
        BY <2>3, <4>1, <4>3
      <4> QED
        BY <4>2, <4>3
    <3>2. ASSUME NEW e \in DOMAIN entities
          PROVE  /\ e \in destroyIds => died'[e] = died[e]
                 /\ e \in delayIds' \ destroyIds => last <= died'[e]
      <4>1. e \in destroyIds => died[e] # 0
        BY DEF FlagsAreSound
      <4>2. e # o => died'[e] = died[e] /\ (e \in delayIds' => e \in delayIds)
        BY <1>2, <2>1, <2>3
      <4>3. e = o /\ died[e] = 0 => died'[e] = clock
        BY <1>2, <2>3
      <4>4. e = o /\ died[e] # 0 => died'[e] = died[e] /\ e \in delayIds \cup destroyIds
        BY <1>2, <2>3 DEF FlagsAreSound
      <4> QED
        BY <1>2, <4>1, <4>2, <4>3, <4>4 DEF ListsAreTimely
    <3> QED
      BY <1>1, <3>1, <3>2 DEF ListsAreTimely
  <2>10. FreshIdsAreUnknown'
    <3>1. \A e \in Ids : e > count => e # o /\ e \in Nat
      BY <1>2 DEF Ids
    <3>2. \A e \in Ids : e > count => died'[e] = 0
      BY <2>3, <3>1 DEF FreshIdsAreUnknown
    <3>3. delayIds' \cup destroyIds \subseteq 0..count
      BY <1>2, <2>1 DEF FreshIdsAreUnknown
    <3>4. \A r \in Slots : object'[r].id \in 0..count
      BY <2>2 DEF FreshIdsAreUnknown
    <3> QED
      BY <1>1, <3>2, <3>3, <3>4 DEF FreshIdsAreUnknown
  <2> QED
    BY <2>4, <2>5, <2>6, <2>7, <2>8, <2>9, <2>10
<1>6. CASE calls' = held /\ UNCHANGED <<object, delayIds, died, c2e, opt>>
  <2>1. TypeOK' /\ CallsAreBound'
    BY <1>1, <1>2, <1>6 DEF TypeOK, CallsAreBound
  <2>2. /\ TimesAreOrdered' /\ EachSlotHasOneUse' /\ FreeNodesAreBlank' /\ FlagsAreSound'
        /\ ListsAreTimely' /\ FreshIdsAreUnknown'
    BY <1>1, <1>6 DEF TimesAreOrdered, EachSlotHasOneUse, FreeNodesAreBlank, FlagsAreSound,
                      ListsAreTimely, FreshIdsAreUnknown
  <2> QED
    BY <2>1, <2>2
<1> QED
  BY <1>4, <1>5, <1>6 DEF Handle

LEMMA NextIInv == IInv /\ [Next]_vars => IInv'
<1> SUFFICES ASSUME IInv, [Next]_vars PROVE IInv'
  OBVIOUS
<1>1. CASE Tick
  BY <1>1, TickStep
<1>2. CASE Update
  BY <1>2, UpdateStep
<1>3. CASE ReadClock \/ Turn
  BY <1>3, LoopStep
<1>4. CASE CreateAccount
  BY <1>4, CreateStep
<1>5. ASSUME NEW c \in calls, Callback(c) PROVE IInv'
  <2>1. c.slot \in Slots /\ calls \ {c} \in SUBSET calls
    BY DEF IInv, TypeOK, CallRecord
  <2> QED
    BY <1>5, <2>1, HandleStep DEF Callback
<1>6. ASSUME NEW e \in c2e, Packet(e) PROVE IInv'
  <2>1. proxys[e] \in Slots /\ calls \in SUBSET calls
    BY DEF IInv, TypeOK
  <2> QED
    BY <1>6, <2>1, HandleStep DEF Packet
<1>7. CASE UNCHANGED vars
  BY <1>7 DEF vars, loopVars, managerVars, IInv, TypeOK, TimesAreOrdered, EachSlotHasOneUse,
              FreeNodesAreBlank, FreshIdsAreUnknown, CallsAreBound, FlagsAreSound,
              ListsAreTimely
<1> QED
  BY <1>1, <1>2, <1>3, <1>4, <1>5, <1>6, <1>7 DEF Next

(* The lists of the two-step release agree with the time of destroy() and  *)
(* the flags, in every state of entity_manager.                            *)
THEOREM ManagerKeepsTime == Spec => []IInv
BY InitIInv, NextIInv, PTL DEF Spec

-----------------------------------------------------------------------------
(* The lists name accounts the manager has, and every call under way a     *)
(* node of the pool.                                                       *)
THEOREM TypeCorrect == Spec => []TypeOK
<1>1. IInv => TypeOK
  BY DEF IInv
<1> QED
  BY <1>1, ManagerKeepsTime, PTL

(* The answer to a call made before destroy() runs on the account that     *)
(* made it.                                                                *)
THEOREM CallbacksAreSafe == Spec => []CallbacksFindTheirAccount
<1>1. IInv => CallbacksFindTheirAccount
  BY DEF IInv, CallsAreBound, EachSlotHasOneUse, CallbacksFindTheirAccount
<1> QED
  BY <1>1, ManagerKeepsTime, PTL

(* No node of the pool is freed twice or in two hands.                     *)
THEOREM SlotsAreSafe == Spec => []EachSlotHasOneUse
<1>1. IInv => EachSlotHasOneUse
  BY DEF IInv
<1> QED
  BY <1>1, ManagerKeepsTime, PTL

(* A destroyed account is freed within two sweeps.                         *)
THEOREM DestroyedAreFreed == Spec => []FreedInTime
<1>1. IInv => FreedInTime
  <2> SUFFICES ASSUME IInv, NEW e \in DOMAIN entities, died[e] # 0
               PROVE  clock + 1 < died[e] + 2 * (Period + Frame) + Frame
    BY DEF FreedInTime
  <2>1. /\ e \in Ids /\ died[e] \in Nat /\ clock \in Nat /\ now \in Nat /\ last \in Nat
        /\ Period \in Nat \ {0} /\ Frame \in Nat
    BY TimeAssumption DEF IInv, TypeOK, Ids
  <2>2. now < last + Period + Frame /\ clock <= now + Frame
    BY <2>1 DEF IInv, TimesAreOrdered
  <2>3. last < died[e] + Period + Frame
    BY <2>1 DEF IInv, ListsAreTimely, FlagsAreSound
  <2> QED
    BY <2>1, <2>2, <2>3
<1> QED
  BY <1>1, ManagerKeepsTime, PTL

(* No account is freed before its grace is over.                           *)
THEOREM NobodyIsFreedEarly == Spec => GraceIsKept
<1> DEFINE Kept == \A e \in DOMAIN entities \ DOMAIN entities' :
                     died[e] # 0 /\ died[e] + Period <= clock + Frame
<1>1. IInv /\ [Next]_vars => [Kept]_vars
  <2> SUFFICES ASSUME IInv, Next PROVE Kept
    OBVIOUS
  <2>1. CASE Update
    <3>1. CASE SweepIsDue
      <4>1. DOMAIN entities \ DOMAIN entities' \subseteq Doomed
        BY <2>1, <3>1 DEF Update
      <4> QED
        BY <3>1, <4>1, DoomedAreDue
    <3>2. CASE ~SweepIsDue
      BY <2>1, <3>2 DEF Update
    <3> QED
      BY <3>1, <3>2
  <2>2. CASE CreateAccount
    BY <2>2 DEF CreateAccount
  <2>3. CASE ~Update /\ ~CreateAccount
    BY <2>3 DEF Next, Tick, ReadClock, Turn, Callback, Packet, Handle, managerVars
  <2> QED
    BY <2>1, <2>2, <2>3
<1> QED
  BY <1>1, ManagerKeepsTime, PTL DEF Spec, GraceIsKept
=============================================================================
