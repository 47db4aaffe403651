---------------------------- MODULE TimerWheel ----------------------------
(* The timer wheel of a process (share/src/timer.cpp): four layers of      *)
(* slots, second, minute, hour and day, each slot a doubly linked list of  *)
(* nodes, the lists threaded through the nodes themselves.  update runs on *)
(* the logic thread and advances the wheel by the seconds that passed      *)
(* since its last call; callbacks run while a slot's list is being walked, *)
(* so the walk is one action per node.                                     *)
EXTENDS Integers, FiniteSets

CONSTANTS
  SECOND_IN_MINUTE, MINUTE_IN_HOUR, HOUR_IN_DAY, \* share/src/common_const.h
  DayNum,      \* slots of the day layer (30)
  Timer,       \* timer nodes the pool may hand out
  RefreshDelay, InitDelay, \* the two timers of etcd_manager::init (5 and 10)
  ServerDelays, \* delays of the other timers of a server, which never repeat
  RobotDelays, \* delays of the timers of a process without etcd: no timer repeats
  MaxStall,    \* bound: seconds between two updates
  MaxTime,     \* bound: length of a behaviour, in seconds
  NULL

SECOND_IN_HOUR == SECOND_IN_MINUTE * MINUTE_IN_HOUR
SECOND_IN_DAY == SECOND_IN_HOUR * HOUR_IN_DAY

(* The code takes the minute slot modulo SECOND_IN_MINUTE: both are 60.    *)
ASSUME WheelAssumption ==
  /\ {SECOND_IN_MINUTE, MINUTE_IN_HOUR, HOUR_IN_DAY, DayNum} \subseteq Nat \ {0}
  /\ MINUTE_IN_HOUR = SECOND_IN_MINUTE
  /\ ServerDelays \cup RobotDelays \cup {RefreshDelay, InitDelay} \subseteq 1..(SECOND_IN_DAY * DayNum - 1)
  /\ NULL \notin Timer /\ IsFiniteSet(Timer)
  /\ {MaxStall, MaxTime} \subseteq Nat

(* A process with etcd has timers of 1, 5 and 10 seconds (etcd_listener,   *)
(* role, etcd_manager); only the one that EtcdInit adds is longer than the *)
(* refresh, which repeats.                                                 *)
ASSUME ServerAssumption ==
  /\ {RefreshDelay, InitDelay} \subseteq 1..(SECOND_IN_MINUTE - 1)
  /\ ServerDelays \subseteq 1..RefreshDelay

VARIABLES
  now,      \* m_last_time, counted from timer::init
  pending,  \* seconds of the current update that are still to be processed
  index,    \* m_second_index, m_minute_index, m_hour_index, m_day_index
  wheel,    \* the first node of each slot, and pre and next of each node
  node,     \* what add_timer_core keeps in a node
  cursor,   \* node of the slot whose turn it is, in proc_node
  etcd,     \* "none": never used; "waiting", then "running": etcd_manager::init has run
  \* History: when a node that waits is due; how early the last callback was.
  due, last

vars == <<now, pending, index, wheel, node, cursor, etcd, due, last>>

Layer == {"second", "minute", "hour", "day"}
Size == [second |-> SECOND_IN_MINUTE, minute |-> MINUTE_IN_HOUR,
         hour |-> HOUR_IN_DAY, day |-> DayNum]

(* The slots of all layers.                                                *)
Slot == UNION {{<<l, i>> : i \in 0..(Size[l] - 1)} : l \in Layer}

(* A node the pool has not handed out.                                     *)
Free == [delay |-> 0, repeat |-> FALSE, slot |-> [l \in Layer |-> 0]]
Armed == {t \in Timer : node[t].delay > 0}

NoCallback == [delay |-> 0, early |-> 0]

Init ==
  /\ now = 0 /\ pending = 0
  /\ index = [l \in Layer |-> 0]
  /\ wheel = [head |-> [s \in Slot |-> NULL],
              next |-> [t \in Timer |-> NULL], pre |-> [t \in Timer |-> NULL]]
  /\ node = [t \in Timer |-> Free]
  /\ cursor = NULL /\ etcd \in {"none", "waiting"}
  /\ due = [t \in Timer |-> 0]
  /\ last = NoCallback

---------------------------------------------------------------------------
(* Variant for the checks: the node behind the new one keeps its pre.      *)
AddNodeForward(w, s, t) ==
  LET first == w.head[s]
  IN IF first = NULL
     THEN [w EXCEPT !.head[s] = t, !.next[t] = NULL, !.pre[t] = NULL]
     ELSE [w EXCEPT !.next = [@ EXCEPT ![t] = w.next[first], ![first] = t], !.pre[t] = first]

(* timer::add_node: behind the first node of the slot.                     *)
AddNode(w, s, t) ==
  LET first == w.head[s]
      second == w.next[first]
      after == [w.next EXCEPT ![t] = second, ![first] = t]
      before == [w.pre EXCEPT ![t] = first]
  IN IF first = NULL
     THEN [w EXCEPT !.head[s] = t, !.next[t] = NULL, !.pre[t] = NULL]
     ELSE [w EXCEPT !.next = after,
                    !.pre = IF second = NULL THEN before ELSE [before EXCEPT ![second] = t]]

(* The loop of timer::proc_up_layer_node over the nodes of slot s, after   *)
(* each turn: the wheel, and the node whose turn is next.                  *)
Moves(w, s, down) ==
  LET moved[k \in 0..Cardinality(Timer)] ==
        IF k = 0 THEN [wheel |-> w, at |-> w.head[s]]
        ELSE LET m == moved[k - 1]
             IN IF m.at = NULL THEN m
                ELSE [wheel |-> AddNode(m.wheel, <<down, node[m.at].slot[down]>>, m.at),
                      at |-> m.wheel.next[m.at]]
  IN moved

(* Variant for the checks: the nodes go down but the slot keeps them.      *)
MoveDownKeeps(w, s, down) == Moves(w, s, down)[Cardinality(Timer)].wheel

(* timer::proc_up_layer_node: the nodes of slot s go to the layer below.   *)
MoveDown(w, s, down) == [Moves(w, s, down)[Cardinality(Timer)].wheel EXCEPT !.head[s] = NULL]

(* timer::add_timer_core: each layer counts from its own index, and wraps  *)
(* without a carry to the next layer.                                      *)
SlotSum(delay, ix) ==
  [second |-> (delay % SECOND_IN_MINUTE) + ix.second,
   minute |-> (delay \div SECOND_IN_MINUTE) + ix.minute,
   hour |-> (delay \div SECOND_IN_HOUR) + ix.hour,
   day |-> (delay \div SECOND_IN_DAY) + ix.day]

(* Variant for the checks: the slot counted from the minute.               *)
SlotFromMinute(delay, ix) ==
  [l \in Layer |-> SlotSum(delay, [ix EXCEPT !.second = 0])[l] % Size[l]]

SlotOf(delay, ix) == [l \in Layer |-> SlotSum(delay, ix)[l] % Size[l]]

LayerOf(delay) ==
  CASE delay \div SECOND_IN_DAY > 0 -> "day"
    [] delay \div SECOND_IN_DAY = 0 /\ delay \div SECOND_IN_HOUR > 0 -> "hour"
    [] delay \div SECOND_IN_HOUR = 0 /\ delay \div SECOND_IN_MINUTE > 0 -> "minute"
    [] OTHER -> "second"

AddTimerCore(w, t, delay, ix) ==
  AddNode(w, <<LayerOf(delay), SlotOf(delay, ix)[LayerOf(delay)]>>, t)

Node(delay, repeat, ix) == [delay |-> delay, repeat |-> repeat, slot |-> SlotOf(delay, ix)]

(* timer::del_timer_core; nobody reads the links of a released node.       *)
DelTimerCore(w, t) ==
  LET p == w.pre[t]
      n == w.next[t]
      after == IF p = NULL THEN w.next ELSE [w.next EXCEPT ![p] = n]
      before == IF n = NULL THEN w.pre ELSE [w.pre EXCEPT ![n] = p]
  IN [w EXCEPT !.next = [after EXCEPT ![t] = NULL], !.pre = [before EXCEPT ![t] = NULL]]

---------------------------------------------------------------------------
Idle == pending = 0 /\ cursor = NULL

(* The indices after another second; the second, minute and hour carry.    *)
NextIndex(ix) ==
  LET s == ix.second + 1
      m == ix.minute + (s \div SECOND_IN_MINUTE)
      h == ix.hour + (m \div MINUTE_IN_HOUR)
  IN [second |-> s % SECOND_IN_MINUTE, minute |-> m % MINUTE_IN_HOUR,
      hour |-> h % HOUR_IN_DAY, day |-> (ix.day + (h \div HOUR_IN_DAY)) % DayNum]

(* Variant for the checks: the lower layer hands down first.               *)
CascadeLowFirst(w, ix) ==
  LET fromMinute == IF ix.second = 0 THEN MoveDown(w, <<"minute", ix.minute>>, "second") ELSE w
  IN IF ix.second = 0 /\ ix.minute = 0
     THEN MoveDown(fromMinute, <<"hour", ix.hour>>, "minute") ELSE fromMinute

(* proc_minute_nodes, proc_hour_nodes and proc_day_nodes: the layer above  *)
(* hands down first, so that its nodes can go on down.                     *)
Cascade(w, ix) ==
  LET fromDay == IF ix.second = 0 /\ ix.minute = 0 /\ ix.hour = 0
                 THEN MoveDown(w, <<"day", ix.day>>, "hour") ELSE w
      fromHour == IF ix.second = 0 /\ ix.minute = 0
                  THEN MoveDown(fromDay, <<"hour", ix.hour>>, "minute") ELSE fromDay
  IN IF ix.second = 0 THEN MoveDown(fromHour, <<"minute", ix.minute>>, "second") ELSE fromHour

(* timer::update: the seconds that passed are processed one after another. *)
Update(k) ==
  /\ Idle /\ now + k <= MaxTime
  /\ now' = now + k /\ pending' = k /\ last' = NoCallback
  /\ UNCHANGED <<index, wheel, node, cursor, etcd, due>>

(* timer::proc_second_nodes, up to its call of proc_node.                  *)
ProcSecondNodes ==
  LET ix == NextIndex(index)
      w == Cascade(wheel, ix)
      first == w.head[<<"second", ix.second>>]
  IN /\ pending > 0 /\ cursor = NULL
     /\ index' = ix /\ wheel' = w /\ cursor' = first
     /\ pending' = IF first = NULL THEN pending - 1 ELSE pending
     /\ UNCHANGED <<now, node, etcd, due, last>>

(* One turn of the loop of timer::proc_node: the callback, the step to the *)
(* next node, then the node is added again or released.  At the end        *)
(* proc_second_nodes empties the slot.                                     *)
ProcNode ==
  LET t == cursor
      at == now - pending + 1
      w == IF node[t].repeat THEN AddTimerCore(wheel, t, node[t].delay, index)
           ELSE DelTimerCore(wheel, t)
      rest == wheel.next[t]
  IN /\ t # NULL
     /\ last' = [delay |-> node[t].delay, early |-> due[t] - at]
     /\ cursor' = rest
     /\ node' = [node EXCEPT ![t] = IF @.repeat THEN Node(@.delay, TRUE, index) ELSE Free]
     /\ due' = [due EXCEPT ![t] = IF node[t].repeat THEN at + node[t].delay ELSE 0]
     /\ wheel' = IF rest = NULL THEN [w EXCEPT !.head[<<"second", index.second>>] = NULL] ELSE w
     /\ pending' = IF rest = NULL THEN pending - 1 ELSE pending
     /\ UNCHANGED <<now, index, etcd>>

(* timer::add_timer with delay d and no repetition, called from a handler: *)
(* no callback of a process adds a timer.                                  *)
AddTimer(t, d) ==
  /\ Idle /\ t \notin Armed
  /\ d \in IF etcd = "none" THEN RobotDelays ELSE ServerDelays
  /\ wheel' = AddTimerCore(wheel, t, d, index)
  /\ node' = [node EXCEPT ![t] = Node(d, FALSE, index)]
  /\ due' = [due EXCEPT ![t] = now + d]
  /\ UNCHANGED <<now, pending, index, cursor, etcd, last>>

(* etcd_manager::init: the refresh that repeats and the request that does  *)
(* not, added one after the other when the http_client registers.          *)
EtcdInit(t, u) ==
  /\ Idle /\ etcd = "waiting" /\ t # u /\ {t, u} \cap Armed = {}
  /\ etcd' = "running"
  /\ wheel' = AddTimerCore(AddTimerCore(wheel, t, RefreshDelay, index), u, InitDelay, index)
  /\ node' = [node EXCEPT ![t] = Node(RefreshDelay, TRUE, index), ![u] = Node(InitDelay, FALSE, index)]
  /\ due' = [due EXCEPT ![t] = now + RefreshDelay, ![u] = now + InitDelay]
  /\ UNCHANGED <<now, pending, index, cursor, last>>

Next == \/ \E k \in 1..MaxStall : Update(k)
        \/ ProcSecondNodes \/ ProcNode
        \/ \E t \in Timer, d \in ServerDelays \cup RobotDelays : AddTimer(t, d)
        \/ \E t, u \in Timer : EtcdInit(t, u)

Spec == Init /\ [][Next]_vars

---------------------------------------------------------------------------
TypeOK ==
  /\ now \in 0..MaxTime /\ pending \in 0..MaxStall
  /\ \A l \in Layer : index[l] \in 0..(Size[l] - 1)
  /\ wheel.head \in [Slot -> Timer \cup {NULL}]
  /\ wheel.next \in [Timer -> Timer \cup {NULL}] /\ wheel.pre \in [Timer -> Timer \cup {NULL}]
  /\ \A t \in Timer : \A l \in Layer : node[t].slot[l] \in 0..(Size[l] - 1)
  /\ cursor \in Timer \cup {NULL} /\ etcd \in {"none", "waiting", "running"}
  /\ due \in [Timer -> Nat]

(* Between two updates every timer that waits is linked into exactly one   *)
(* slot, once, and the links back agree: no timer is lost behind another   *)
(* that moved (proc_node, del_timer_core), however one-shot timers, the    *)
(* repeating one and the cascades share the slots.                         *)
NodesOf(s) ==
  LET walk[k \in 1..Cardinality(Timer)] ==
        IF k = 1 THEN wheel.head[s]
        ELSE IF walk[k - 1] = NULL THEN NULL ELSE wheel.next[walk[k - 1]]
  IN walk
NodeAt(p) == NodesOf(p[1])[p[2]]
Places == {p \in Slot \X (1..Cardinality(Timer)) : NodeAt(p) # NULL}
ListsAreSound ==
  /\ TypeOK
  /\ Idle =>
       /\ Armed = {NodeAt(p) : p \in Places}
       /\ \A p \in Places, q \in Places : NodeAt(p) = NodeAt(q) => p = q
       /\ \A p \in Places :
            wheel.pre[NodeAt(p)] = IF p[2] = 1 THEN NULL ELSE NodeAt(<<p[1], p[2] - 1>>)

(* proc_node only calls back a timer that waits: a released node, whose    *)
(* memory the pool hands out again, is never met in a list.                *)
OnlyArmedTimersRun == cursor = NULL \/ cursor \in Armed

(* No timer is overdue once update has returned, and no callback is late,  *)
(* even when the logic thread stalls for several seconds.                  *)
NeverLate == /\ Idle => \A t \in Armed : due[t] > now
             /\ last.early >= 0

(* A delay under a minute, or of whole minutes, hours or days.             *)
WholeDelay(d) == \/ d < SECOND_IN_MINUTE
                 \/ d < SECOND_IN_HOUR /\ d % SECOND_IN_MINUTE = 0
                 \/ d < SECOND_IN_DAY /\ d % SECOND_IN_HOUR = 0
                 \/ d % SECOND_IN_DAY = 0

(* What a delay may lose when carries are dropped.                         *)
Carries(d) == {a + b + c : a \in {0} \cup IF d < SECOND_IN_MINUTE THEN {} ELSE {SECOND_IN_MINUTE},
                           b \in {0} \cup IF d < SECOND_IN_HOUR THEN {} ELSE {SECOND_IN_HOUR},
                           c \in {0} \cup IF d < SECOND_IN_DAY THEN {} ELSE {SECOND_IN_DAY}}

(* Such a delay runs when it is due: all delays the servers use (1, 5, 10) *)
(* and the robots' (60 to 180).  Any other may run early, as               *)
(* add_timer_core drops the carries: by a minute if its seconds wrap, by   *)
(* an hour if its minutes do and by a day if its hours do.                 *)
EarlyByCarriesOnly == /\ WholeDelay(last.delay) => last.early = 0
                      /\ last.early \in Carries(last.delay)
=============================================================================
