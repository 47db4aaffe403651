----------------------------- MODULE RpcWrapper -----------------------------
(***************************************************************************)
(* How processes find each other's connections and call over them:         *)
(* rpc_wrapper.cpp and rpc_client.h on the logic thread of every process,  *)
(* the entity calls between games, and the requests of a game to a         *)
(* db_manager with its executor_manager.                                   *)
(*                                                                         *)
(* A connection has two ends; an end stands for a socket, its handler and  *)
(* its socket index.  A game that calls an entity of its own connects to   *)
(* itself, and owns both ends.  Of the net threads the model keeps what    *)
(* NetThreads shows of them: handle_init, packets, handle_close, in this   *)
(* order; and of a connection what TcpConnection shows: a prefix arrives.  *)
(***************************************************************************)
EXTENDS Integers, Sequences, SequencesExt, FiniteSets

CONSTANTS
  Procs,      \* the processes, by address and by process id
  Kinds,      \* what each may be: functions from Procs to {"game", "db"}
  TableOrder, \* the tables of the database, by name
  MaxConns,   \* bound: connections made
  MaxSaid,    \* bound: calls and requests made
  None

ASSUME KindsAssumption == Kinds \subseteq [Procs -> {"game", "db"}]

Tables == {TableOrder[i] : i \in 1..Len(TableOrder)}
Sides == {"dialer", "acceptor"}
Ends == (1..MaxConns) \X Sides
(* A client made for a connection is known by its end, one made for an     *)
(* address by the process that has the address.                            *)
Names == Ends \cup Procs
ASSUME NamesAssumption ==
  /\ IsFiniteSet(Procs) /\ MaxConns \in Nat
  /\ Ends \cap Procs = {} /\ None \notin Names /\ None \notin Int

ASSUME BoundsAssumption ==
  MaxSaid \in Nat /\ TableOrder \in Seq(Tables) /\ "entity" \notin Tables

(* What is said from one process to another, about one thing: the calls of *)
(* entities are one link, the requests for each table another.             *)
Links == Procs \X Procs \X (Tables \cup {"entity"})

VARIABLES
  kind,       \* PROCESS_GAME or PROCESS_DB
  down,       \* the processes taken down by a null socket
  conns,      \* the connections made, in order
  standing,   \* those that still stand
  stage,      \* what the logic thread has seen of an end
  queue,      \* the packets it will see there
  client,     \* the rpc_clients of each process
  bySocket,   \* m_socket_index_2_client
  byProcess,  \* m_process_id_2_client of each process
  byAddress,  \* m_directly_games of each process
  executors,  \* m_executors of each db_manager
  said,       \* history: what was said on a link, counted,
  cut,        \* how much it was when the link first failed,
  heard,      \* what came of that much, in order,
  answered    \* and the requests whose callback ran

netVars == <<conns, standing, stage, queue>>
mapVars == <<client, bySocket, byProcess, byAddress>>
history == <<said, cut, heard, answered>>
vars == <<kind, down, netVars, mapVars, executors, history>>

Message == [what: {"register_server", "entity", "add_executor", "answer"},
            about: Tables \cup {"entity"}, no: 0..MaxSaid]
Register == [what |-> "register_server", about |-> "entity", no |-> 0]
Client == [live: BOOLEAN, handler: Ends \cup {None}, cache: Seq(Message)]
Gone == [live |-> FALSE, handler |-> None, cache |-> <<>>]

TypeOK ==
  /\ kind \in Kinds /\ down \subseteq Procs
  /\ conns \in Seq([dialer: Procs, acceptor: Procs]) /\ Len(conns) <= MaxConns
  /\ standing \subseteq 1..Len(conns)
  /\ stage \in [Ends -> {"none", "new", "open", "closed"}]
  /\ queue \in [Ends -> Seq(Message)]
  /\ client \in [Procs -> [Names -> Client]]
  /\ bySocket \in [Ends -> Names \cup {None}]
  /\ byProcess \in [Procs -> [Procs -> Names \cup {None}]]
  /\ byAddress \in [Procs -> [Procs -> Names \cup {None}]]
  /\ executors \in [Procs -> [Tables -> Seq([from: Ends, no: 1..MaxSaid])]]
  /\ said \in [Links -> 0..MaxSaid] /\ heard \in [Links -> Seq(1..MaxSaid)]
  /\ answered \in [Links -> SUBSET (1..MaxSaid)]
  /\ cut \in [Links -> 0..MaxSaid \cup {None}]

Init ==
  /\ kind \in Kinds /\ down = {}
  /\ conns = <<>> /\ standing = {}
  /\ stage = [e \in Ends |-> "none"] /\ queue = [e \in Ends |-> <<>>]
  /\ client = [p \in Procs |-> [n \in Names |-> Gone]]
  /\ bySocket = [e \in Ends |-> None]
  /\ byProcess = [p \in Procs |-> [q \in Procs |-> None]]
  /\ byAddress = [p \in Procs |-> [q \in Procs |-> None]]
  /\ executors = [p \in Procs |-> [t \in Tables |-> <<>>]]
  /\ said = [l \in Links |-> 0] /\ heard = [l \in Links |-> <<>>]
  /\ answered = [l \in Links |-> {}] /\ cut = [l \in Links |-> None]

-----------------------------------------------------------------------------
Spoken == SumFunction(said)
Made == {c \in 1..MaxConns : c <= Len(conns)}
Owner(e) == conns[e[1]][e[2]]
Other(e) == <<e[1], IF e[2] = "dialer" THEN "acceptor" ELSE "dialer">>
Peer(e) == Owner(Other(e))

(* A link that fails once is cut for good.                                 *)
Cut(links) ==
  cut' = [l \in Links |-> IF l \in links /\ cut[l] = None THEN said[l] ELSE cut[l]]
InTime(l, n) == cut[l] = None \/ n <= cut[l]
Between(p, q) == {l \in Links : {l[1], l[2]} = {p, q}}
Of(p) == {l \in Links : p \in {l[1], l[2]}}

(* Packets a handler sends reach the other end while the connection stands;*)
(* if it breaks on their way, Break drops them.                            *)
Posted(q, e, packets) ==
  IF e[1] \in standing THEN [q EXCEPT ![Other(e)] = @ \o packets] ELSE q

(* start_connect, when it succeeds: the sockets of both ends are on their  *)
(* way to the logic threads.                                               *)
Connect(p, q) ==
  LET c == Len(conns) + 1
      ends == {c} \X Sides
  IN /\ c <= MaxConns /\ q \notin down
     /\ conns' = Append(conns, [dialer |-> p, acceptor |-> q])
     /\ standing' = standing \cup {c}
     /\ stage' = [e \in Ends |-> IF e \in ends THEN "new" ELSE stage[e]]

NumberAfter(link) == said[link]

(* The number of what is said next; of a request, the m_opt_id.            *)
Number(link) == said[link] + 1

CachedFirst(cache, call) == <<call>> \o cache

(* puch_cache_packet.                                                      *)
Cached(cache, call) == Append(cache, call)

(* call_entity on an entity of process q: get_client_by_address and        *)
(* send_entity_packet.  Whether the connection is made or not is not       *)
(* looked at: the client waits for it either way.                          *)
CallEntity(p, q) ==
  LET link == <<p, q, "entity">>
      call == [what |-> "entity", about |-> "entity", no |-> Number(link)]
      rpc == client[p][byAddress[p][q]]
  IN /\ kind[p] = "game" /\ kind[q] = "game" /\ p \notin down
     /\ Spoken < MaxSaid
     /\ said' = [said EXCEPT ![link] = @ + 1]
     /\ \/ /\ byAddress[p][q] # None /\ rpc.handler # None
           /\ queue' = Posted(queue, rpc.handler, <<call>>)
           /\ UNCHANGED <<conns, standing, stage, client, byAddress, cut>>
        \/ /\ byAddress[p][q] # None /\ rpc.handler = None
           /\ client' = [client EXCEPT ![p][byAddress[p][q]].cache = Cached(@, call)]
           /\ UNCHANGED <<netVars, byAddress, cut>>
        \/ /\ byAddress[p][q] = None
           /\ client' = [client EXCEPT ![p][q] =
                           [live |-> TRUE, handler |-> None, cache |-> <<call>>]]
           /\ byAddress' = [byAddress EXCEPT ![p][q] = q]
           /\ \/ Connect(p, q) /\ UNCHANGED cut
              \/ /\ Cut(Between(p, q))
                 /\ UNCHANGED <<conns, standing, stage>>
           /\ UNCHANGED queue
     /\ UNCHANGED <<kind, down, bySocket, byProcess, executors, heard, answered>>

(* add_process on a game, of a db_manager.  A second connection to it, made*)
(* when its key was lost and came back, may overtake the first.            *)
ConnectDb(p, d) ==
  /\ kind[p] = "game" /\ kind[d] = "db" /\ p \notin down
  /\ Connect(p, d)
  /\ Cut(IF \E c \in Made : conns[c] = [dialer |-> p, acceptor |-> d]
         THEN Between(p, d) ELSE {})
  /\ UNCHANGED <<kind, down, queue, mapVars, executors, said, heard, answered>>

(* db_opt, over a db_manager that has registered.  Without one the request *)
(* goes nowhere and its callback is never called.                          *)
DbOpt(p, d, t) ==
  LET link == <<p, d, t>>
      packet == [what |-> "add_executor", about |-> t, no |-> Number(link)]
  IN /\ kind[p] = "game" /\ kind[d] = "db" /\ p \notin down
     /\ byProcess[p][d] # None
     /\ Spoken < MaxSaid
     /\ said' = [said EXCEPT ![link] = @ + 1]
     /\ queue' = Posted(queue, client[p][byProcess[p][d]].handler, <<packet>>)
     /\ UNCHANGED <<kind, down, conns, standing, stage, mapVars, executors,
                    heard, answered, cut>>

-----------------------------------------------------------------------------
(* A broken connection is taken out of m_sockets by the net thread of each *)
(* end, at any time after; the logic thread has handle_close still to do.  *)
(* register_handler_info looks the socket up in m_sockets, and follows a   *)
(* null pointer when it is not there any more.                             *)
NullSocket(e) ==
  /\ stage[e] = "new" /\ Owner(e) \notin down
  /\ e[1] \notin standing
  /\ down' = down \cup {Owner(e)}
  /\ Cut(Of(Owner(e)))
  /\ UNCHANGED <<kind, netVars, mapVars, executors, said, heard, answered>>

AlwaysNew(e) == e

(* The client of a new handler: the one that waits for its remote address, *)
(* with the calls it kept, or a new one.  The remote port of an accepted   *)
(* connection is not one a game listens on.                                *)
WaitingFor(e) ==
  IF e[2] = "dialer" /\ byAddress[Owner(e)][Peer(e)] # None
  THEN byAddress[Owner(e)][Peer(e)] ELSE e

(* handle_init: register_handler_info, and the call of register_server.    *)
HandleInit(e) ==
  LET p == Owner(e)
      rpc == client[p][WaitingFor(e)]
  IN /\ stage[e] = "new" /\ p \notin down
     /\ stage' = [stage EXCEPT ![e] = "open"]
     /\ client' = [client EXCEPT ![p][WaitingFor(e)] =
                     [live |-> TRUE, handler |-> e, cache |-> <<>>]]
     /\ bySocket' = [bySocket EXCEPT ![e] = WaitingFor(e)]
     /\ queue' = Posted(queue, e, Append(rpc.cache, Register))
     /\ UNCHANGED <<kind, down, conns, standing, byProcess, byAddress,
                    executors, history>>

(* The packet at the head of an open end.                                  *)
Receives(e, what) ==
  /\ stage[e] = "open" /\ Owner(e) \notin down
  /\ queue[e] # <<>> /\ Head(queue[e]).what = what
  /\ queue' = [queue EXCEPT ![e] = Tail(@)]
  /\ UNCHANGED <<kind, down, conns, standing, stage, said, cut>>

(* register_server: update_handler_info.                                   *)
RegisterServer(e) ==
  LET p == Owner(e)
      q == Peer(e)
  IN /\ Receives(e, "register_server")
     /\ byProcess' = [byProcess EXCEPT ![p][q] = bySocket[e]]
     /\ byAddress' =
          IF kind[p] = "game" /\ kind[q] = "game" /\ byAddress[p][q] = None
          THEN [byAddress EXCEPT ![p][q] = bySocket[e]] ELSE byAddress
     /\ UNCHANGED <<client, bySocket, executors, heard, answered>>

(* An entity call reaches rpc_entity of the process.                       *)
HearCall(e) ==
  /\ Receives(e, "entity")
  /\ LET l == <<Peer(e), Owner(e), "entity">>
         n == Head(queue[e]).no
     IN heard' = IF InTime(l, n) THEN [heard EXCEPT ![l] = Append(@, n)] ELSE heard
  /\ UNCHANGED <<mapVars, executors, answered>>

AddExecutor(e) ==
  /\ Receives(e, "add_executor")
  /\ LET request == Head(queue[e]) IN
       executors' = [executors EXCEPT ![Owner(e)][request.about] =
                       Append(@, [from |-> e, no |-> request.no])]
  /\ UNCHANGED <<mapVars, heard, answered>>

(* on_opt_db_with_result, on_opt_db_with_status.                           *)
OnOptDb(e) ==
  /\ Receives(e, "answer")
  /\ answered' = [answered EXCEPT ![<<Owner(e), Peer(e), Head(queue[e]).about>>] =
                    @ \cup {Head(queue[e]).no}]
  /\ UNCHANGED <<mapVars, executors, heard>>

HandlePacket(e) == RegisterServer(e) \/ HearCall(e) \/ AddExecutor(e) \/ OnOptDb(e)

WithoutNone(map, p, e) == {map}

(* unregister_handler_info erases the first entry whose client has this    *)
(* socket, if there is one.                                                *)
WithoutOne(map, p, e) ==
  LET hits == {q \in Procs : map[q] # None /\ client[p][map[q]].handler = e}
  IN IF hits = {} THEN {map} ELSE {[map EXCEPT ![q] = None] : q \in hits}

HandleClose(e) ==
  LET p == Owner(e) IN
    /\ stage[e] = "open" /\ p \notin down
    /\ e[1] \notin standing /\ queue[e] = <<>>
    /\ stage' = [stage EXCEPT ![e] = "closed"]
    /\ \E m \in WithoutOne(byAddress[p], p, e) : byAddress' = [byAddress EXCEPT ![p] = m]
    /\ \E m \in WithoutOne(byProcess[p], p, e) : byProcess' = [byProcess EXCEPT ![p] = m]
    /\ client' = [client EXCEPT ![p][bySocket[e]] = Gone]
    /\ bySocket' = [bySocket EXCEPT ![e] = None]
    /\ UNCHANGED <<kind, down, conns, standing, queue, executors, history>>

-----------------------------------------------------------------------------
(* executor_manager::update on a db_manager: every queue to its end, table *)
(* by table.  A request whose connection has gone is dropped, unanswered.  *)
Served(d, t) == {i \in 1..Len(executors[d][t]) : bySocket[executors[d][t][i].from] # None}
NumbersAt(s, places) ==
  LET numbers[i \in 0..Len(s)] ==
        IF i = 0 THEN <<>>
        ELSE IF i \in places THEN Append(numbers[i - 1], s[i].no) ELSE numbers[i - 1]
  IN numbers[Len(s)]
Done(l) ==
  LET requests == executors[l[2]][l[3]]
  IN NumbersAt(requests, {i \in Served(l[2], l[3]) :
                            Peer(requests[i].from) = l[1] /\ InTime(l, requests[i].no)})
AnswersOver(d, e) ==
  LET over(t) == {i \in Served(d, t) : executors[d][t][i].from = e}
      done(t) == NumbersAt(executors[d][t], over(t))
      answers(t) == [i \in 1..Len(done(t)) |->
                       [what |-> "answer", about |-> t, no |-> done(t)[i]]]
  IN FlattenSeq([i \in 1..Len(TableOrder) |-> answers(TableOrder[i])])

Update(d) ==
  /\ kind[d] = "db" /\ d \notin down
  /\ \E t \in Tables : executors[d][t] # <<>>
  /\ heard' = [l \in Links |-> IF l[2] = d /\ l[3] \in Tables
                               THEN heard[l] \o Done(l) ELSE heard[l]]
  /\ queue' = [e \in Ends |->
                 IF e[1] \in standing /\ Peer(e) = d
                 THEN queue[e] \o AnswersOver(d, Other(e)) ELSE queue[e]]
  /\ executors' = [executors EXCEPT ![d] = [t \in Tables |-> <<>>]]
  /\ UNCHANGED <<kind, down, conns, standing, stage, mapVars, said, answered, cut>>

-----------------------------------------------------------------------------
(* A connection breaks: of what is on its way some may still arrive.       *)
Break(c) ==
  /\ c \in standing
  /\ standing' = standing \ {c}
  /\ \E n \in 0..Len(queue[<<c, "dialer">>]), m \in 0..Len(queue[<<c, "acceptor">>]) :
       queue' = [queue EXCEPT ![<<c, "dialer">>] = SubSeq(@, 1, n),
                              ![<<c, "acceptor">>] = SubSeq(@, 1, m)]
  /\ Cut(Between(conns[c].dialer, conns[c].acceptor))
  /\ UNCHANGED <<kind, down, conns, stage, mapVars, executors, said, heard, answered>>

-----------------------------------------------------------------------------
Serve(e) == HandleInit(e) \/ HandlePacket(e)

Next ==
  \/ \E p, q \in Procs : CallEntity(p, q) \/ ConnectDb(p, q)
                        \/ \E t \in Tables : DbOpt(p, q, t)
  \/ \E e \in Ends : Serve(e) \/ HandleClose(e) \/ NullSocket(e)
  \/ \E d \in Procs : Update(d)
  \/ \E c \in 1..MaxConns : Break(c)

Spec == Init /\ [][Next]_vars

(* service::loop_run of every process: handlers and packets are served in  *)
(* every turn, and do_loop calls update.  Nothing is asked of callers, nor *)
(* of connections.                                                         *)
FairSpec ==
  /\ Spec
  /\ \A e \in Ends : WF_vars(Serve(e))
  /\ \A d \in Procs : WF_vars(Update(d))

-----------------------------------------------------------------------------
(* No pointer of the three maps names a deleted client, whatever closes in *)
(* whatever order: one that is found for an address, a process or a socket *)
(* lives, leads to that process over an open socket or waits for it; and a *)
(* client that lives is found (unregister_handler_info erases by socket).  *)
Leads(p, n, q) ==
  LET h == client[p][n].handler
  IN client[p][n].live /\ h # None /\ bySocket[h] = n /\ Owner(h) = p /\ Peer(h) = q

PointersAreLive ==
  \A p \in Procs :
    /\ \A q \in Procs :
         /\ byProcess[p][q] # None => Leads(p, byProcess[p][q], q)
         /\ byAddress[p][q] # None =>
              \/ Leads(p, byAddress[p][q], q)
              \/ byAddress[p][q] = q /\ client[p][q].live /\ client[p][q].handler = None
    /\ \A n \in Names : client[p][n].live =>
         \/ \E e \in Ends : bySocket[e] = n /\ client[p][n].handler = e /\ Owner(e) = p
         \/ n \in Procs /\ byAddress[p][n] = n

(* On each link, what was said until something broke is heard in the order *)
(* it was said, once, without gaps: also when both ends connect to each    *)
(* other at once, calls wait for a connection, or a game talks to itself.  *)
HeardInOrder ==
  \A l \in Links : heard[l] = [i \in 1..Len(heard[l]) |-> i] /\ Len(heard[l]) <= said[l]

(* While nothing breaks, every call is heard and every request that a      *)
(* db_manager was asked is answered (process_cache_packets, update of      *)
(* executor_manager, on_opt_db_with_...).  As no more than MaxSaid is said,*)
(* this is to say that in the end nothing is left to hear.                 *)
HeardAll(l) ==
  /\ Len(heard[l]) = said[l]
  /\ l[3] \in Tables => answered[l] = 1..said[l]

EverySayingIsHeard == []<>(\A l \in Links : cut[l] # None \/ HeardAll(l))
=============================================================================
