----------------------------- MODULE Discovery -----------------------------
(* How the processes find each other and the roll_stub: each registers     *)
(* itself and its named entities in etcd through the http_client, lists    *)
(* what is there once, and then follows the changes with a chain of        *)
(* watches, each issued when the answer of the last has been applied.      *)
(* Game 1 connects to every db_manager it is told of and creates its stub  *)
(* when enough of them have registered.                                    *)
(*                                                                         *)
(* Left out: the refreshes of a key, which etcd keeps from the watches;    *)
(* m_global_entities, which is written and never read; the tag lists, as   *)
(* register_entity drops the tag; the tcp connections to the http_client,  *)
(* which stays up; the connections of the other games, which create no     *)
(* stub.                                                                   *)
EXTENDS Integers, Sequences, SequencesExt, FiniteSets, FiniteSetsExt, Functions

CONSTANTS
  Procs,       \* the processes that register
  StubProc,    \* the game whose process id is 1
  Watchers,    \* the processes whose view is modelled
  Dbs,         \* the db_managers
  DesireNum,   \* get_desire_process_num(PROCESS_DB)
  MaxFault,    \* bound: crashes, failed requests, keys and connections lost
  NULL

ASSUME DiscoveryAssumption ==
  /\ StubProc \in Watchers /\ Watchers \subseteq Procs
  /\ Dbs \subseteq Procs \ {StubProc} /\ IsFiniteSet(Dbs)
  /\ DesireNum \in Nat \ {0} /\ MaxFault \in Nat /\ NULL \notin Procs

VARIABLES
  up, inc,     \* a process runs; how often it was started
  stubs,       \* stubs game 1 has created since its start (m_local_enities)
  cached,      \* m_cache_enities is not empty
  puts,        \* register_process_entities requests on their way to etcd
  store,       \* etcd: the value under the key of each process
  history,     \* etcd: its events, the index of an event is its place
  chain,       \* the listing or watch of a process, and who has it
  answer,      \* what the http_client sends back
  waitIndex,   \* m_wait_index
  mailbox,     \* m_entity_2_mailbox["roll_stub"]
  dialled,     \* connections of game 1 to each db_manager before it registers
  dbNum,       \* m_process_num[PROCESS_DB] of game 1
  faults

viewVars == <<chain, answer, waitIndex, mailbox>>
gameVars == <<stubs, cached, dialled, dbNum>>
etcdVars == <<store, history>>
vars == <<up, inc, gameVars, puts, etcdVars, viewVars, faults>>

(* What a process stores: which start of it, and how many stubs it has.    *)
(* The stub of a start is named by the last of them: add_entity overwrites.*)
Value(p, n) == [inc |-> inc[p], stubs |-> n]

Init ==
  /\ up = [p \in Procs |-> FALSE] /\ inc = [p \in Procs |-> 0]
  /\ stubs = 0 /\ cached = FALSE
  /\ puts = [p \in Procs |-> << >>]
  /\ store = [p \in Procs |-> NULL] /\ history = << >>
  /\ chain = [w \in Watchers |-> "idle"] /\ answer = [w \in Watchers |-> NULL]
  /\ waitIndex = [w \in Watchers |-> 0] /\ mailbox = [w \in Watchers |-> NULL]
  /\ dialled = [d \in Dbs |-> 0] /\ dbNum = 0
  /\ faults = 0

---------------------------------------------------------------------------
(* A process starts and the http_client registers with it:                 *)
(* service::register_server, etcd_manager::init, etcd_listener::init.      *)
Start(p) ==
  /\ ~up[p]
  /\ up' = [up EXCEPT ![p] = TRUE] /\ inc' = [inc EXCEPT ![p] = @ + 1]
  /\ puts' = [puts EXCEPT ![p] = Append(@, [inc |-> inc[p] + 1, stubs |-> 0])]
  /\ UNCHANGED <<gameVars, etcdVars, viewVars, faults>>

Fault == faults < MaxFault /\ faults' = faults + 1

(* A process dies with all it knew; what it sent goes on.                  *)
Crash(p) ==
  /\ up[p] /\ Fault
  /\ up' = [up EXCEPT ![p] = FALSE]
  /\ IF p \in Watchers
     THEN /\ chain' = [chain EXCEPT ![p] = "idle"] /\ answer' = [answer EXCEPT ![p] = NULL]
          /\ waitIndex' = [waitIndex EXCEPT ![p] = 0] /\ mailbox' = [mailbox EXCEPT ![p] = NULL]
     ELSE UNCHANGED viewVars
  /\ IF p = StubProc
     THEN /\ stubs' = 0 /\ cached' = FALSE
          /\ dialled' = [d \in Dbs |-> 0] /\ dbNum' = 0
     ELSE UNCHANGED gameVars
  /\ UNCHANGED <<inc, puts, etcdVars>>

(* http_client::register_process_entities: the PUT reaches etcd.  Two of   *)
(* one process are a second or more apart, and executed in order.          *)
Put(p) ==
  /\ puts[p] # << >>
  /\ puts' = [puts EXCEPT ![p] = Tail(@)]
  /\ store' = [store EXCEPT ![p] = Head(puts[p])]
  /\ history' = Append(history, [action |-> "set", proc |-> p, value |-> Head(puts[p])])
  /\ UNCHANGED <<up, inc, gameVars, viewVars, faults>>

(* The request fails: its callback only releases the proxy.                *)
PutFails(p) ==
  /\ puts[p] # << >> /\ Fault
  /\ puts' = [puts EXCEPT ![p] = Tail(@)]
  /\ UNCHANGED <<up, inc, gameVars, etcdVars, viewVars>>

(* The ttl of a key runs out: the process is down, or http_client's        *)
(* refresh_ttl has failed for a minute.                                    *)
Expire(p) ==
  /\ store[p] # NULL
  /\ IF up[p] THEN Fault ELSE UNCHANGED faults
  /\ store' = [store EXCEPT ![p] = NULL]
  /\ history' = Append(history, [action |-> "expire", proc |-> p, value |-> NULL])
  /\ UNCHANGED <<up, inc, gameVars, puts, viewVars>>

---------------------------------------------------------------------------
(* etcd_manager::init_entities, ten seconds after init, when the process's *)
(* own registration is long done: etcd_listener::init_entities.            *)
RequestAll(w) ==
  /\ up[w] /\ chain[w] = "idle" /\ puts[w] = << >>
  /\ chain' = [chain EXCEPT ![w] = "all"]
  /\ UNCHANGED <<up, inc, gameVars, puts, etcdVars, answer, waitIndex, mailbox, faults>>

Present == {p \in Procs : store[p] # NULL}
Listing(index, values) == [action |-> "set", index |-> index, values |-> values]

(* http_client::request_all and parse_nodes: without keys there is an      *)
(* error, and no answer.                                                   *)
AnswerAll(w) ==
  /\ chain[w] = "all"
  /\ IF Present = {}
     THEN chain' = [chain EXCEPT ![w] = "ended"] /\ UNCHANGED answer
     ELSE /\ chain' = [chain EXCEPT ![w] = "answered"]
          /\ answer' = [answer EXCEPT ![w] = Listing(Len(history), Restrict(store, Present))]
  /\ UNCHANGED <<up, inc, gameVars, puts, etcdVars, waitIndex, mailbox, faults>>

(* Variant for the checks: the watch asks for the last event again.        *)
AwaitedAgain(w) == waitIndex[w]

(* The index a watch asks for.                                             *)
Awaited(w) == waitIndex[w] + 1

(* http_client::request_one: the watch returns the event it waits for.     *)
AnswerOne(w) ==
  /\ chain[w] = "one" /\ Awaited(w) <= Len(history)
  /\ LET e == history[Awaited(w)] IN
       answer' = [answer EXCEPT ![w] =
         IF e.action = "set" THEN Listing(Awaited(w), [p \in {e.proc} |-> e.value])
         ELSE [action |-> "expire", index |-> Awaited(w), proc |-> e.proc]]
  /\ chain' = [chain EXCEPT ![w] = "answered"]
  /\ UNCHANGED <<up, inc, gameVars, puts, etcdVars, waitIndex, mailbox, faults>>

(* The request fails or its answer cannot be parsed: nobody is told, and   *)
(* no other request follows.                                               *)
RequestFails(w) ==
  /\ chain[w] \in {"all", "one"} /\ Fault
  /\ chain' = [chain EXCEPT ![w] = "ended"]
  /\ UNCHANGED <<up, inc, gameVars, puts, etcdVars, answer, waitIndex, mailbox>>

---------------------------------------------------------------------------
(* Variant for the checks: an answer can be applied twice.                 *)
WatchKeeps(w) ==
  /\ waitIndex' = [waitIndex EXCEPT ![w] = answer[w].index]
  /\ chain' = [chain EXCEPT ![w] = "one"]
  /\ UNCHANGED answer

(* etcd_manager calls watch() when the answer has been applied.            *)
Watch(w) ==
  /\ waitIndex' = [waitIndex EXCEPT ![w] = answer[w].index]
  /\ chain' = [chain EXCEPT ![w] = "one"]
  /\ answer' = [answer EXCEPT ![w] = NULL]

(* Variant for the checks: the first mailbox of a name is kept.            *)
MailboxWithFirst(box, values) ==
  IF box = NULL /\ StubProc \in DOMAIN values /\ values[StubProc].stubs > 0
  THEN values[StubProc] ELSE box

(* mailbox_manager::add_entity for the entities of the answer.             *)
MailboxWith(box, values) ==
  IF StubProc \in DOMAIN values /\ values[StubProc].stubs > 0 THEN values[StubProc] ELSE box

Connected(told) ==
  [d \in Dbs |-> IF d \in told /\ up[d] THEN dialled[d] + 1 ELSE dialled[d]]

(* etcd_listener::on_register_entities; game_server::add_process connects  *)
(* to each db_manager in the answer, or waits until it is refused.         *)
OnRegisterEntities(w) ==
  /\ chain[w] = "answered" /\ answer[w].action = "set"
  /\ Watch(w)
  /\ mailbox' = [mailbox EXCEPT ![w] = MailboxWith(@, answer[w].values)]
  /\ dialled' = IF w = StubProc THEN Connected(DOMAIN answer[w].values) ELSE dialled
  /\ UNCHANGED <<up, inc, stubs, cached, dbNum, puts, etcdVars, faults>>

(* Variant for the checks: the mailboxes of a lost process stay.           *)
MailboxKept(box, p) == box

(* mailbox_manager::del_entity: the entities of a process, whichever start.*)
MailboxWithout(box, p) == IF p = StubProc THEN NULL ELSE box

(* etcd_listener::on_unregister_process.                                   *)
OnUnregisterProcess(w) ==
  /\ chain[w] = "answered" /\ answer[w].action = "expire"
  /\ Watch(w)
  /\ mailbox' = [mailbox EXCEPT ![w] = MailboxWithout(@, answer[w].proc)]
  /\ UNCHANGED <<up, inc, gameVars, puts, etcdVars, faults>>

(* A connection breaks before what the db_manager sent has arrived: no     *)
(* other is made (try_reconnect_server has nothing to do).                 *)
ConnectionLost(d) ==
  /\ dialled[d] > 0
  /\ IF up[d] THEN Fault ELSE UNCHANGED faults
  /\ dialled' = [dialled EXCEPT ![d] = @ - 1]
  /\ UNCHANGED <<up, inc, stubs, cached, dbNum, puts, etcdVars, viewVars>>

(* The db_manager registers: game_server::register_server counts it and    *)
(* calls on_game_start, which creates a roll_stub and registers it with    *)
(* etcd_listener::register_entity.                                         *)
RegisterDb(d) ==
  /\ dialled[d] > 0
  /\ dialled' = [dialled EXCEPT ![d] = @ - 1]
  /\ dbNum' = dbNum + 1
  /\ IF dbNum' >= DesireNum THEN stubs' = stubs + 1 /\ cached' = TRUE
     ELSE UNCHANGED <<stubs, cached>>
  /\ UNCHANGED <<up, inc, puts, etcdVars, viewVars, faults>>

(* etcd_listener::real_register_entity, a second later.                    *)
RealRegisterEntity ==
  /\ cached /\ cached' = FALSE
  /\ puts' = [puts EXCEPT ![StubProc] = Append(@, Value(StubProc, stubs))]
  /\ UNCHANGED <<up, inc, stubs, dialled, dbNum, etcdVars, viewVars, faults>>

Http(w) == AnswerAll(w) \/ AnswerOne(w)
Apply(w) == OnRegisterEntities(w) \/ OnUnregisterProcess(w)

Next == \/ \E p \in Procs : Start(p) \/ Crash(p) \/ Put(p) \/ PutFails(p) \/ Expire(p)
        \/ \E w \in Watchers : RequestAll(w) \/ Http(w) \/ RequestFails(w) \/ Apply(w)
        \/ \E d \in Dbs : ConnectionLost(d) \/ RegisterDb(d)
        \/ RealRegisterEntity

Spec == Init /\ [][Next]_vars

(* The loops and timers of the processes and of the http_client run for    *)
(* ever.  Nothing is asked of starts, crashes, expiries and failures.      *)
Fairness ==
  /\ \A w \in Watchers : WF_vars(RequestAll(w)) /\ WF_vars(Http(w)) /\ WF_vars(Apply(w))
  /\ \A p \in Procs : WF_vars(Put(p))
  /\ WF_vars(RealRegisterEntity)

FairSpec == Spec /\ Fairness

---------------------------------------------------------------------------
Values == [inc : Nat \ {0}, stubs : Nat]

(* An answer of the http_client, about the keys of S if it is a listing.   *)
Answers(S) == [action : {"set"}, index : Nat, values : [S -> Values]]
                \cup [action : {"expire"}, index : Nat, proc : Procs]

(* NULL is no value of a key and no answer of the http_client.             *)
ASSUME NullAssumption == NULL \notin Values /\ \A S \in SUBSET Procs : NULL \notin Answers(S)

TypeOK ==
  /\ up \in [Procs -> BOOLEAN] /\ inc \in [Procs -> Nat]
  /\ stubs \in Nat /\ cached \in BOOLEAN
  /\ puts \in [Procs -> Seq(Values)]
  /\ store \in [Procs -> Values \cup {NULL}]
  /\ history \in Seq([action : {"set", "expire"}, proc : Procs, value : Values \cup {NULL}])
  /\ chain \in [Watchers -> {"idle", "all", "one", "answered", "ended"}]
  /\ DOMAIN answer = Watchers
  /\ \A w \in Watchers : IF chain[w] = "answered" THEN \E S \in SUBSET Procs : answer[w] \in Answers(S)
                          ELSE answer[w] = NULL
  /\ waitIndex \in [Watchers -> 0..Len(history)]
  /\ mailbox \in [Watchers -> Values \cup {NULL}]
  /\ dialled \in [Dbs -> Nat] /\ dbNum \in Nat /\ faults \in 0..MaxFault

(* A process whose watch waits for news has the mailbox etcd has: that of  *)
(* the last stub of the last start of game 1, or none if game 1 is not     *)
(* registered.  Only between a restart of game 1 and its new stub may it   *)
(* keep that of an earlier start (mailbox_manager::add_entity, del_entity).*)
MailboxIsCurrent ==
  \A w \in Watchers : chain[w] = "one" /\ waitIndex[w] = Len(history) =>
    LET s == store[StubProc] IN
      CASE s = NULL -> mailbox[w] = NULL
        [] s # NULL /\ s.stubs > 0 -> mailbox[w] = s
        [] OTHER -> mailbox[w] = NULL \/ mailbox[w].inc < s.inc

(* game_server::register_server starts the game when DesireNum db_managers *)
(* have registered: game 1 is told of each start of a db_manager once, so  *)
(* no connection, under way or counted, stands for the same start twice.   *)
CountsStartsOfDbs ==
  dbNum + SumFunctionOnSet(dialled, Dbs) <= SumFunctionOnSet(inc, Dbs)

(* While game 1 is up and registered in etcd with its stub, a process that *)
(* is up and whose chain of watches is not broken ends up with its mailbox.*)
StubIsFound ==
  \A w \in Watchers :
    <>[](up[w] /\ chain[w] # "ended" /\ up[StubProc] /\ stubs > 0 /\ store[StubProc] = Value(StubProc, stubs))
      => <>[](mailbox[w] = Value(StubProc, stubs))

(* "every stub will has only one in same server" (rpc_proxy.h).            *)
OneStub == stubs <= 1
=============================================================================
