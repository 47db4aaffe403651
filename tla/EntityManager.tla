--------------------------- MODULE EntityManager ---------------------------
(***************************************************************************)
(* The life of an account object inside one game process: created by the   *)
(* entity manager in a slot of its pool, flagged by destroy(), and freed   *)
(* by a later entity_manager::update, so that the answers still under way  *)
(* to it (database callbacks and calls of the stub, both bound to `this`)  *)
(* find the memory they were made for.                                     *)
(*                                                                         *)
(* Nothing cancels such a call: the only protection is the time between    *)
(* destroy() and the release.  Time is therefore explicit: clock is what   *)
(* time() would return, now is what the loop read at its last turn, and    *)
(* entity_manager::update runs before that reading is renewed.             *)
(*                                                                         *)
(* Not modelled here: what the handlers do with accounts and roles (module *)
(* Login).  Roles are never destroyed (role::logout has the call in a      *)
(* comment), so accounts are the only objects whose memory is reused.      *)
(***************************************************************************)
EXTENDS Integers, FiniteSets

CONSTANTS
  Period,      \* seconds between two sweeps of update: 10 in the code
  Frame,       \* bound on the time from one reading of the clock to the next
  Latency,     \* bound on the time a callback is under way
  Start,       \* the time at which the process starts
  Slots,       \* the addresses of the account pool's nodes
  MaxEntities, \* bound: entities created
  MaxCalls,    \* bound: calls made
  MaxClock     \* bound: the time at which the run stops

(* The clock counts seconds since 1970: it is never INVALID_GAME_TIME, 0.  *)
ASSUME TimeAssumption ==
  /\ Period \in Nat \ {0} /\ Frame \in Nat /\ Latency \in Nat
  /\ Start \in Nat \ {0}
  /\ MaxEntities \in Nat /\ MaxCalls \in Nat /\ MaxClock \in Nat

(* What the ten seconds are for: an answer comes sooner than they end, and *)
(* the loop does not stand still for the rest of them.                     *)
ASSUME AnswersAreTimely == Latency + Frame < Period

VARIABLES
  clock,      \* the system's time
  now,        \* m_set_time of the time manager: the last reading
  phase,      \* the next part of game_server::do_loop
  last,       \* m_last_time
  delayIds,   \* m_delay_destroy_ids
  destroyIds, \* m_destroy_ids
  count,      \* m_entity_id, less game_id << 8
  entities,   \* m_entities: the slot of each entity known to the manager
  object,     \* the contents of each slot: m_mailbox.entity_id and m_destroy
  free,       \* the slots on the pool's free list
  proxys,     \* rpc_entity::m_proxys: the `this` bound for each entity id
  c2e,        \* the accounts m_client_2_entity maps some client to
  opt,        \* calls made so far
  calls,      \* the callbacks under way, bound to a slot
  died        \* history: when destroy() was first called, 0 before

loopVars    == <<now, phase, last>>
managerVars == <<delayIds, destroyIds, count, entities, free>>
vars == <<clock, loopVars, managerVars, object, proxys, c2e, opt, calls, died>>

NoEntity == 0
Ids == 1..MaxEntities

(* A node of the pool: as its constructor and its destructor leave it, or  *)
(* with the entity's id after init().                                      *)
Object == [id : Ids \cup {NoEntity}, dead : BOOLEAN]
Blank  == [id |-> NoEntity, dead |-> FALSE]

(* A callback: the slot of the `this` it captured, the entity that was     *)
(* there, the time, and whether that entity had been destroyed already.    *)
CallRecord == [opt : 1..MaxCalls, slot : Slots, by : Ids \cup {NoEntity},
               sent : Nat, late : BOOLEAN]

TypeOK ==
  /\ clock \in Nat /\ now \in Nat /\ last \in Nat
  /\ phase \in {"update", "time", "work"}
  /\ delayIds \subseteq Ids \cup {NoEntity}
  /\ destroyIds \subseteq Ids \cup {NoEntity}
  /\ count \in 0..MaxEntities
  /\ DOMAIN entities \subseteq 1..count
  /\ entities \in [DOMAIN entities -> Slots]
  /\ object \in [Slots -> Object]
  /\ free \subseteq Slots
  /\ proxys \in [1..count -> Slots]
  /\ c2e \subseteq 1..count
  /\ opt \in 0..MaxCalls
  /\ calls \subseteq CallRecord
  /\ died \in [Ids -> Nat]

Init ==
  /\ clock = Start /\ now = Start /\ last = 0
  /\ phase = "update"
  /\ delayIds = {} /\ destroyIds = {}
  /\ count = 0
  /\ entities = [e \in {} |-> 0]
  /\ object = [s \in Slots |-> Blank]
  /\ free = Slots
  /\ proxys = [e \in {} |-> 0]
  /\ c2e = {}
  /\ opt = 0 /\ calls = {}
  /\ died = [e \in Ids |-> 0]

-----------------------------------------------------------------------------
(* A second passes.  The loop comes round within Frame seconds, and no     *)
(* callback is under way for longer than Latency.                          *)
Tick ==
  /\ clock < MaxClock
  /\ clock < now + Frame
  /\ \A c \in calls : clock < c.sent + Latency
  /\ clock' = clock + 1
  /\ UNCHANGED <<loopVars, managerVars, object, proxys, c2e, opt, calls, died>>

(* The entities one sweep releases: the ids the sweep before it moved to   *)
(* m_destroy_ids, those already gone being skipped by destroy_entity_core. *)
DoomedAtOnce == (destroyIds \cup delayIds) \cap DOMAIN entities
Doomed == destroyIds \cap DOMAIN entities

(* destroy_entity_core hands the memory of these entities to the pool.     *)
ReleasedUnfound == {proxys[e] : e \in destroyIds \cap DOMAIN proxys}
Released == {entities[e] : e \in Doomed}

(* The ids the next sweep will release.                                    *)
CondemnedOnce == IF destroyIds = {} THEN delayIds ELSE {}
Condemned == delayIds

(* The early return of update: the last sweep is less than Period old.     *)
SweepAlways == TRUE
SweepIsDue == last + Period <= now

(* entity_manager::update, called first in game_server::do_loop.           *)
Update ==
  /\ phase = "update"
  /\ phase' = "time"
  /\ IF SweepIsDue
       THEN /\ last' = now
            /\ entities' = [e \in DOMAIN entities \ Doomed |-> entities[e]]
            /\ object' = [s \in Slots |-> IF s \in Released THEN Blank ELSE object[s]]
            /\ free' = free \cup Released
            /\ destroyIds' = Condemned
            /\ delayIds' = {}
       ELSE UNCHANGED <<last, entities, object, free, destroyIds, delayIds>>
  /\ UNCHANGED <<clock, now, count, proxys, c2e, opt, calls, died>>

(* time_manager::update, at the head of service::do_loop.                  *)
ReadClock ==
  /\ phase = "time"
  /\ phase' = "work"
  /\ now' = clock
  /\ UNCHANGED <<clock, last, managerVars, object, proxys, c2e, opt, calls, died>>

(* The packets are done and the loop turns.                                *)
Turn ==
  /\ phase = "work"
  /\ phase' = "update"
  /\ UNCHANGED <<clock, now, last, managerVars, object, proxys, c2e, opt, calls, died>>

-----------------------------------------------------------------------------
(* A handler that runs on slot s makes a call that will be answered.       *)
Issue(s, held) ==
  /\ opt < MaxCalls
  /\ opt' = opt + 1
  /\ calls' = held \cup {[opt |-> opt + 1, slot |-> s, by |-> object'[s].id,
                          sent |-> clock,
                          late |-> object'[s].dead \/ object'[s].id = NoEntity]}

(* ++m_entity_id.                                                          *)
FreshIdAfterwards == count
FreshId == count + 1

(* A login packet of a client without an entity: create_entity takes a     *)
(* node of the pool, init() binds the entity's functions to it, and        *)
(* account::login asks the database.                                       *)
CreateAccount ==
  /\ phase = "work"
  /\ count < MaxEntities
  /\ \E s \in free :
       /\ count' = count + 1
       /\ free' = free \ {s}
       /\ object' = [object EXCEPT ![s] = [id |-> FreshId, dead |-> FALSE]]
       /\ entities' = [e \in DOMAIN entities \cup {FreshId} |->
                         IF e = FreshId THEN s ELSE entities[e]]
       /\ proxys' = [e \in DOMAIN proxys \cup {FreshId} |-> IF e = FreshId THEN s ELSE proxys[e]]
       /\ c2e' = c2e \cup {FreshId}
       /\ Issue(s, calls)
  /\ UNCHANGED <<clock, loopVars, delayIds, destroyIds, died>>

(* server_entity::destroy on whatever slot s holds: the flag, and the id   *)
(* for the sweep, whether or not it is there already.                      *)
Destroy(s) ==
  LET e == object[s].id IN
  /\ object' = [object EXCEPT ![s].dead = TRUE]
  /\ delayIds' = delayIds \cup {e}
  /\ died' = IF e # NoEntity /\ died[e] = 0 THEN [died EXCEPT ![e] = clock] ELSE died
  /\ c2e' \in {c2e, c2e \ {e}}   \* on_login_success maps the client to its role

(* A handler of account runs on the memory at s, its own object or not,    *)
(* holding back the call it answers: it may ask the database or the stub,  *)
(* destroy the account, or neither.  on_relay_ready, on_wait_login, login  *)
(* and create_role do not look at the flag first.                          *)
Handle(s, held) ==
  /\ \/ /\ UNCHANGED object
        /\ Issue(s, held)
        /\ UNCHANGED <<delayIds, died, c2e>>
     \/ /\ Destroy(s)
        /\ calls' = held
        /\ UNCHANGED opt
     \/ /\ calls' = held
        /\ UNCHANGED <<object, delayIds, died, c2e, opt>>
  /\ UNCHANGED <<clock, loopVars, destroyIds, count, entities, free, proxys>>

(* The answer to a call: the callback runs on the `this` it captured.      *)
Callback(c) ==
  /\ phase = "work"
  /\ c \in calls
  /\ Handle(c.slot, calls \ {c})

(* A packet of a client mapped to account e, or a relay call for it:       *)
(* rpc_entity::call runs it on the `this` registered for e.                *)
Packet(e) ==
  /\ phase = "work"
  /\ e \in c2e
  /\ Handle(proxys[e], calls)

Next ==
  \/ Tick
  \/ Update
  \/ ReadClock
  \/ Turn
  \/ CreateAccount
  \/ \E c \in calls : Callback(c)
  \/ \E e \in c2e : Packet(e)

Spec == Init /\ [][Next]_vars

-----------------------------------------------------------------------------
(* A call made by an account before its destroy() is answered on that      *)
(* account's own object: never on freed memory, never on the account that  *)
(* got the slot next.  The callbacks of account.cpp and the flag they read *)
(* rest on it.                                                             *)
CallbacksFindTheirAccount ==
  \A c \in calls : ~c.late => object[c.slot].id = c.by

(* The manager's accounts have one slot each and the pool has the others,  *)
(* although destroy() can be called again before and after the id moves to *)
(* m_destroy_ids: no node is freed twice or handed out while it is in use. *)
EachSlotHasOneUse ==
  /\ \A e \in DOMAIN entities : entities[e] \notin free /\ object[entities[e]].id = e
  /\ \A s \in Slots \ free : \E e \in DOMAIN entities : entities[e] = s

(* Two sweeps bound the life of a destroyed account: the memory comes back *)
(* to the pool although update reads the time of the turn before.          *)
FreedInTime ==
  \A e \in DOMAIN entities :
    died[e] # 0 => clock + 1 < died[e] + 2 * (Period + Frame) + Frame

(* The manager drops only accounts that were destroyed, and not before     *)
(* Period seconds, less the age of the reading, have passed since: a       *)
(* destroy() just before a sweep waits for the one after.                  *)
GraceIsKept ==
  [][\A e \in DOMAIN entities \ DOMAIN entities' :
       died[e] # 0 /\ died[e] + Period <= clock + Frame]_vars

(* A client's packets reach the entity that game_server maps it to.        *)
PacketsFindTheirAccount ==
  \A e \in c2e : object[proxys[e]].id = e
=============================================================================
