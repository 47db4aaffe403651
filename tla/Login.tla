------------------------------- MODULE Login -------------------------------
(***************************************************************************)
(* The login and relay protocol of the game processes: the gate routes a   *)
(* websocket client to a random game, an account entity loads the account  *)
(* and registers it with the single roll_stub, and a role entity is either *)
(* created and registered, or, when the account is already on line, handed *)
(* over ("relayed") from the client that holds it to the new one.          *)
(*                                                                         *)
(* One action is one handler run to its end by the single logic thread of  *)
(* a process.  Calls between entities travel on one TCP connection per     *)
(* ordered pair of games (also from a game to itself), so they are FIFO    *)
(* per pair; database requests go to a random db_manager process and are   *)
(* answered in any order.                                                  *)
(*                                                                         *)
(* Left out: the DEntityMgr grace period (module EntityManager shows it),  *)
(* message contents, and logout, whose body is commented out, together     *)
(* with the five second timer of disconnect_client that only calls it.     *)
(***************************************************************************)
EXTENDS Naturals, Sequences, FiniteSets

CONSTANTS
  Games,      \* game processes, all connected to each other and to the gate
  StubGame,   \* the game whose process id is 1: it holds roll_stub
  Clients,    \* websocket connections of the gate (client ids)
  Users,      \* (platform_id, user_id) pairs
  UserOf,     \* the user a client logs in as
  Ids,        \* account ids and role ids; they are equal in every row written
  NewId,      \* the ids create_account gives to every new account (1)
  DbFaults,   \* what may go wrong in a db_manager: subset of {"failed", "lost"}
  ConnIndex,  \* the client id equal to the socket index of the gate's
              \* connection to a game, if any: both managers count from the
              \* same base, so the two ranges overlap
  MaxLogin,   \* bound: login messages per client
  MaxCreate,  \* bound: create_role messages per client
  MaxRole,    \* bound: role entities created for one client
  NoGame, NoId, NoEntity, NoClient, Stub

ASSUME ConstantsAssumption ==
  /\ StubGame \in Games /\ NewId \in Ids
  /\ UserOf \in [Clients -> Users]
  /\ ConnIndex \in [Games -> Clients \cup {NoClient}]
  /\ DbFaults \subseteq {"failed", "lost"}
  /\ MaxLogin \in Nat /\ MaxCreate \in Nat /\ MaxRole \in Nat
  /\ NoGame \notin Games /\ NoId \notin Ids /\ NoClient \notin Clients

(* Entity identifiers: the n-th account (role) entity made for a client.   *)
Accounts == {"account"} \X Clients \X (1..MaxLogin)
Roles    == {"role"} \X Clients \X (1..MaxRole)
Entities == Accounts \cup Roles

ASSUME NamesAssumption ==
  /\ NoEntity \notin Entities
  /\ Stub \notin Entities \cup {NoEntity}

VARIABLES
  open,      \* the websocket is open
  logins,    \* login messages a client has sent
  creates,   \* create_role messages a client has sent
  told,      \* the websocket messages a client has been sent
  route,     \* gate: m_client_2_process
  up,        \* gate to game: transfer packets, FIFO
  down,      \* game to gate: update_client_process_info calls under way
  wire,      \* game to game: entity calls, FIFO
  c2e,       \* game: m_client_2_entity
  account,   \* account entities
  role,      \* role entities
  acct2mb,   \* roll_stub: m_account_2_mailbox
  role2mb,   \* roll_stub: m_role_2_mailbox
  db,        \* database requests sent and not yet answered
  accrow,    \* table account: the id stored for a user
  rolerow    \* table role: a row exists

clientVars == <<open, logins, creates>>
stubVars   == <<acct2mb, role2mb>>
tableVars  == <<accrow, rolerow>>
vars == <<open, logins, creates, told, route, up, down, wire, c2e, account,
          role, acct2mb, role2mb, db, accrow, rolerow>>

Statuses == {"INVALID", "NORMAL", "RELAY", "DISCONNECT"}
Commands == {"success", "refused", "kick", "create_role"}

(* An entity call by name: fn, the target, and the arguments it may carry. *)
Call(fn, to) == [fn |-> fn, to |-> to, mb |-> NoEntity, id |-> NoId,
                 rid |-> NoId, ok |-> FALSE, client |-> NoClient]

Transfer(fn, c) == [fn |-> fn, client |-> c]
(* A database request: the account that waits for it, its number among     *)
(* that account's requests (m_opt_id), the role id in its statement, and,  *)
(* once executed, the id it found.                                         *)
Request(a, op, n, i) ==
  [who |-> a, op |-> op, opt |-> n, id |-> i, done |-> FALSE, found |-> NoId]

(* DRpcWrapper.call_entity / call_stub: from game g to the mailbox's game. *)
HomeOf(x) == CASE x = Stub -> StubGame
               [] x \in Accounts -> account[x].home
               [] OTHER -> role[x].home
Sent(w, g, m) == [w EXCEPT ![<<g, HomeOf(m.to)>>] = Append(@, m)]
Received(g, h) == [wire EXCEPT ![<<g, h>>] = Tail(@)]

Tell(c, cmd) == told' = [told EXCEPT ![c] = @ \cup {cmd}]

(* The head of the connection from g to h is a call of fn.                 *)
Delivers(g, h, fn) == wire[<<g, h>>] # <<>> /\ Head(wire[<<g, h>>]).fn = fn

Init ==
  /\ open = [c \in Clients |-> TRUE]
  /\ logins = [c \in Clients |-> 0] /\ creates = [c \in Clients |-> 0]
  /\ told = [c \in Clients |-> {}]
  /\ route = [c \in Clients |-> NoGame]
  /\ up = [g \in Games |-> <<>>] /\ down = [g \in Games |-> 0]
  /\ wire = [l \in Games \X Games |-> <<>>]
  /\ c2e = [g \in Games |-> [c \in Clients |-> NoEntity]]
  /\ account = [a \in Accounts |-> [home |-> NoGame, id |-> NewId, rid |-> NewId,
                               destroyed |-> FALSE, opts |-> 0]]
  /\ role = [r \in Roles |-> [home |-> NoGame, id |-> NewId, rid |-> NewId,
                         status |-> "INVALID", client |-> NoClient]]
  /\ acct2mb = [i \in Ids |-> NoEntity] /\ role2mb = [i \in Ids |-> NoEntity]
  /\ db = {}
  \* role_id is the primary key of both tables
  /\ accrow \in {f \in [Users -> Ids \cup {NoId}] :
                   \A u, v \in Users : f[u] = f[v] /\ f[u] # NoId => u = v}
  /\ rolerow \in [Ids -> BOOLEAN]
-----------------------------------------------------------------------------
(* Clients and the gate.                                                   *)

(* gate_server::process_login: on_client_connect routes the client to a    *)
(* random game, whatever its earlier route, and the login goes there.      *)
ProcessLogin(c) ==
  /\ open[c] /\ logins[c] < MaxLogin
  /\ logins' = [logins EXCEPT ![c] = @ + 1]
  /\ \E g \in Games :
       /\ route' = [route EXCEPT ![c] = g]
       /\ up' = [up EXCEPT ![g] = Append(@, Transfer("login", c))]
  /\ UNCHANGED <<open, creates, told, down, wire, c2e, account, role, stubVars, db, tableVars>>

(* gate_server::process_create_role, for a client that was asked for it.   *)
ProcessCreateRole(c) ==
  /\ open[c] /\ creates[c] < MaxCreate /\ "create_role" \in told[c]
  /\ route[c] # NoGame
  /\ creates' = [creates EXCEPT ![c] = @ + 1]
  /\ up' = [up EXCEPT ![route[c]] = Append(@, Transfer("create_role", c))]
  /\ UNCHANGED <<open, logins, told, route, down, wire, c2e, account, role, stubVars, db, tableVars>>

(* The websocket closes: process_ws_close_sockets, on_client_disconnect.   *)
OnClientDisconnect(c) ==
  /\ open[c]
  /\ open' = [open EXCEPT ![c] = FALSE]
  /\ IF route[c] = NoGame THEN UNCHANGED up
     ELSE up' = [up EXCEPT ![route[c]] = Append(@, Transfer("disconnect_client", c))]
  /\ route' = [route EXCEPT ![c] = NoGame]
  /\ UNCHANGED <<logins, creates, told, down, wire, c2e, account, role, stubVars, db, tableVars>>

(* gate_server::update_client_process_info.  The rpc passes the socket     *)
(* index of the connection the call came on, and the client table is       *)
(* searched for that index.                                                *)
UpdateClientProcessInfo(g) ==
  /\ down[g] > 0
  /\ down' = [down EXCEPT ![g] = @ - 1]
  /\ LET index == ConnIndex[g] IN
       IF index \in Clients /\ route[index] # NoGame
       THEN route' = [route EXCEPT ![index] = g]
       ELSE UNCHANGED route
  /\ UNCHANGED <<clientVars, told, up, wire, c2e, account, role, stubVars, db, tableVars>>
-----------------------------------------------------------------------------
(* game_packet_handler::handle_transfer_packet, by what the packet names   *)
(* and by the entity m_client_2_entity finds.                              *)

Arrives(g, fn) == up[g] # <<>> /\ Head(up[g]).fn = fn
Sender(g)      == Head(up[g]).client
Current(g)     == c2e[g][Sender(g)]
Taken(g)       == up' = [up EXCEPT ![g] = Tail(@)]

(* db_query / db_insert: the account issues its next request.              *)
Issue(a, op) ==
  /\ db' = db \cup {Request(a, op, account[a].opts + 1, account[a].rid)}
  /\ account' = [account EXCEPT ![a].opts = @ + 1]

(* No entity yet: create an account entity for the client and log it in.   *)
(* m_account_id and m_role_id are uninitialised until the account row is   *)
(* loaded: any ids.                                                        *)
CreateAccountEntity(g) ==
  /\ Arrives(g, "login") /\ Current(g) = NoEntity
  /\ Taken(g)
  /\ \E n \in 1..MaxLogin :
       LET a == <<"account", Sender(g), n>> IN
       /\ account[a].home = NoGame
       /\ \A m \in 1..(n - 1) : account[<<"account", Sender(g), m>>].home # NoGame
       /\ \E i, j \in Ids :
            account' = [account EXCEPT ![a].home = g, ![a].id = i, ![a].rid = j, ![a].opts = 1]
       /\ c2e' = [c2e EXCEPT ![g][Sender(g)] = a]
       /\ db' = db \cup {Request(a, "load_account", 1, NewId)}
  /\ UNCHANGED <<clientVars, told, route, down, wire, role, stubVars, tableVars>>

(* account::login on the entity the client already has, destroyed or not.  *)
LoginAgain(g) ==
  /\ Arrives(g, "login") /\ Current(g) \in Accounts
  /\ Taken(g)
  /\ Issue(Current(g), "load_account")
  /\ UNCHANGED <<clientVars, told, route, down, wire, c2e, role, stubVars, tableVars>>

(* account::create_role.                                                   *)
CreateRole(g) ==
  /\ Arrives(g, "create_role") /\ Current(g) \in Accounts
  /\ Taken(g)
  /\ Issue(Current(g), "insert_role")
  /\ UNCHANGED <<clientVars, told, route, down, wire, c2e, role, stubVars, tableVars>>

(* account::disconnect_client and unregister_account.                      *)
DisconnectAccount(g) ==
  /\ Arrives(g, "disconnect_client") /\ Current(g) \in Accounts
  /\ Taken(g)
  /\ LET a == Current(g) IN
       IF account[a].destroyed THEN UNCHANGED <<account, wire>>
       ELSE /\ account' = [account EXCEPT ![a].destroyed = TRUE]
            /\ wire' = Sent(wire, g, [Call("unregister_account", Stub) EXCEPT !.id = account[a].id])
  /\ UNCHANGED <<clientVars, told, route, down, c2e, role, stubVars, db, tableVars>>

(* role::disconnect_client; logout(true) does nothing.                     *)
DisconnectRole(g) ==
  /\ Arrives(g, "disconnect_client") /\ Current(g) \in Roles
  /\ Taken(g)
  /\ IF role[Current(g)].status = "NORMAL" THEN UNCHANGED role
     ELSE role' = [role EXCEPT ![Current(g)].status = "DISCONNECT"]
  /\ UNCHANGED <<clientVars, told, route, down, wire, c2e, account, stubVars, db, tableVars>>

(* Nothing to call: no entity and not a login, or a function the role does *)
(* not register.                                                           *)
DropTransfer(g) ==
  /\ up[g] # <<>>
  /\ \/ Current(g) = NoEntity /\ Head(up[g]).fn # "login"
     \/ Current(g) \in Roles /\ Head(up[g]).fn # "disconnect_client"
  /\ Taken(g)
  /\ UNCHANGED <<clientVars, told, route, down, wire, c2e, account, role, stubVars, db, tableVars>>
-----------------------------------------------------------------------------
(* Database: a db_manager executes a request, then its answer reaches the  *)
(* game and runs the callback.  Answers always say status = true.          *)

(* mysql_conn::query and insert: a failed query returns an empty result, a *)
(* failed insert writes nothing, and neither is reported.                  *)
Found(q) ==
  CASE q.op = "load_account" -> accrow[UserOf[q.who[2]]]
    [] q.op = "load_role" /\ rolerow[q.id] -> q.id
    [] OTHER -> NoId

Execute(q) ==
  /\ q \in db /\ ~q.done
  /\ LET executed(found) == (db \ {q}) \cup {[q EXCEPT !.done = TRUE, !.found = found]}
     IN \/ /\ db' = executed(Found(q))
           /\ accrow' = IF q.op = "insert_account" /\ (\A u \in Users : accrow[u] # q.id)
                        THEN [accrow EXCEPT ![UserOf[q.who[2]]] = q.id] ELSE accrow
           /\ rolerow' = IF q.op = "insert_role" THEN [rolerow EXCEPT ![q.id] = TRUE] ELSE rolerow
        \/ /\ "failed" \in DbFaults
           /\ db' = executed(NoId)
           /\ UNCHANGED tableVars
  /\ UNCHANGED <<clientVars, told, route, up, down, wire, c2e, account, role, stubVars>>

(* executor(): the connection of the request is gone, it is not executed.  *)
LoseRequest(q) ==
  /\ "lost" \in DbFaults /\ q \in db /\ ~q.done
  /\ db' = db \ {q}
  /\ UNCHANGED <<clientVars, told, route, up, down, wire, c2e, account, role, stubVars, tableVars>>

Answered(q, op) == q \in db /\ q.done /\ q.op = op

(* register_account: the call account a on game g makes to the stub.       *)
RegisterCall(a, i) == [Call("register_account", Stub) EXCEPT !.id = i, !.mb = a]

(* The id an account has after its row was looked for: create_account      *)
(* gives NewId when there is no row.  (Variant: the empty result is used.) *)
LoadedIdUnchecked(q) == q.found
LoadedId(q) == IF q.found = NoId THEN NewId ELSE q.found

(* account::on_load_account_callback: no is_destroy check.                 *)
OnLoadAccount(q) ==
  /\ Answered(q, "load_account")
  /\ IF q.found = NoId
     THEN /\ db' = (db \ {q}) \cup {Request(q.who, "insert_account", account[q.who].opts + 1, NewId)}
          /\ account' = [account EXCEPT ![q.who].id = LoadedId(q), ![q.who].rid = LoadedId(q),
                                        ![q.who].opts = @ + 1]
          /\ UNCHANGED wire
     ELSE /\ db' = db \ {q}
          /\ account' = [account EXCEPT ![q.who].id = LoadedId(q), ![q.who].rid = LoadedId(q)]
          /\ wire' = Sent(wire, account[q.who].home, RegisterCall(q.who, LoadedId(q)))
  /\ UNCHANGED <<clientVars, told, route, up, down, c2e, role, stubVars, tableVars>>

(* The callback of create_account's insert: no is_destroy check.           *)
OnSaveAccount(q) ==
  /\ Answered(q, "insert_account")
  /\ db' = db \ {q}
  /\ wire' = Sent(wire, account[q.who].home, RegisterCall(q.who, account[q.who].id))
  /\ UNCHANGED <<clientVars, told, route, up, down, c2e, account, role, stubVars, tableVars>>

(* account::on_login_success: make the role entity, point the client at    *)
(* it, register it with the stub, destroy the account.                     *)
LoginSuccess(a) ==
  LET g == account[a].home
      c == a[2]
  IN \E n \in 1..MaxRole :
       LET r == <<"role", c, n>> IN
       /\ role[r].home = NoGame
       /\ \A m \in 1..(n - 1) : role[<<"role", c, m>>].home # NoGame
       /\ role' = [role EXCEPT ![r] = [home |-> g, id |-> account[a].id, rid |-> account[a].rid,
                                       status |-> "INVALID", client |-> c]]
       /\ c2e' = [c2e EXCEPT ![g][c] = r]
       /\ wire' = Sent(wire, g, [Call("register_role", Stub) EXCEPT
                                    !.id = account[a].id, !.rid = account[a].rid, !.mb = r])
       /\ account' = [account EXCEPT ![a].destroyed = TRUE]

(* account::on_load_role_callback.                                         *)
OnLoadRole(q) ==
  /\ Answered(q, "load_role")
  /\ db' = db \ {q}
  /\ \/ /\ account[q.who].destroyed
        /\ UNCHANGED <<told, role, c2e, wire, account>>
     \/ /\ ~account[q.who].destroyed /\ q.found = NoId
        /\ Tell(q.who[2], "create_role")
        /\ UNCHANGED <<role, c2e, wire, account>>
     \/ /\ ~account[q.who].destroyed /\ q.found # NoId
        /\ LoginSuccess(q.who)
        /\ UNCHANGED told
  /\ UNCHANGED <<clientVars, route, up, down, stubVars, tableVars>>

(* The callback of create_role's insert: no is_destroy check.              *)
OnSaveRole(q) ==
  /\ Answered(q, "insert_role")
  /\ db' = db \ {q}
  /\ LoginSuccess(q.who)
  /\ UNCHANGED <<clientVars, told, route, up, down, stubVars, tableVars>>
-----------------------------------------------------------------------------
(* roll_stub, on game StubGame.                                            *)

(* What register_account answers: the newcomer is alone, or is told the    *)
(* holder to relay with.  (Variant: the answer goes to the holder.)        *)
RegisterReplyToHolder(m, old) ==
  IF old = NoEntity THEN [Call("on_register_account", m.mb) EXCEPT !.ok = TRUE, !.mb = m.mb]
                    ELSE [Call("on_register_account", old) EXCEPT !.mb = m.mb]
RegisterReply(m, old) ==
  IF old = NoEntity THEN [Call("on_register_account", m.mb) EXCEPT !.ok = TRUE, !.mb = m.mb]
                    ELSE [Call("on_register_account", m.mb) EXCEPT !.mb = old]

(* The holder of the entry afterwards: always the newcomer.  (Variant: a   *)
(* holder stays until the relay is over.)                                  *)
HolderStays(m, old) == IF old = NoEntity THEN m.mb ELSE old
HolderAfter(m, old) == m.mb

(* roll_stub::register_account: the newcomer owns the entry at once; when  *)
(* somebody held it, the reply names the holder and asks for a relay.      *)
StubRegisterAccount(g) ==
  /\ Delivers(g, StubGame, "register_account")
  /\ LET m   == Head(wire[<<g, StubGame>>])
         old == acct2mb[m.id]
     IN /\ acct2mb' = [acct2mb EXCEPT ![m.id] = HolderAfter(m, old)]
        /\ wire' = Sent(Received(g, StubGame), StubGame, RegisterReply(m, old))
  /\ UNCHANGED <<clientVars, told, route, up, down, c2e, account, role, role2mb, db, tableVars>>

(* roll_stub::unregister_account erases the entry whoever holds it.        *)
StubUnregisterAccount(g) ==
  /\ Delivers(g, StubGame, "unregister_account")
  /\ wire' = Received(g, StubGame)
  /\ acct2mb' = [acct2mb EXCEPT ![Head(wire[<<g, StubGame>>]).id] = NoEntity]
  /\ UNCHANGED <<clientVars, told, route, up, down, c2e, account, role, role2mb, db, tableVars>>

(* roll_stub::register_role is refused when the account is not registered  *)
(* or the role already is.  (Variant: the second check is missing.)        *)
AcceptsAnyRole(m) == acct2mb[m.id] # NoEntity
AcceptsRole(m)    == acct2mb[m.id] # NoEntity /\ role2mb[m.rid] = NoEntity

(* m_account_2_mailbox after register_role.  (Variant: it is written       *)
(* before the checks.)                                                     *)
EntryBeforeChecks(m) == m.mb
EntryAfterRole(m) == IF AcceptsRole(m) THEN m.mb ELSE acct2mb[m.id]

StubRegisterRole(g) ==
  /\ Delivers(g, StubGame, "register_role")
  /\ LET m == Head(wire[<<g, StubGame>>])
     IN /\ acct2mb' = [acct2mb EXCEPT ![m.id] = EntryAfterRole(m)]
        /\ role2mb' = IF AcceptsRole(m) THEN [role2mb EXCEPT ![m.rid] = m.mb] ELSE role2mb
        /\ wire' = Sent(Received(g, StubGame), StubGame,
                        [Call("on_register_role", m.mb) EXCEPT !.ok = AcceptsRole(m)])
  /\ UNCHANGED <<clientVars, told, route, up, down, c2e, account, role, db, tableVars>>

(* roll_stub::update_by_relay: the account entry is the role's again, or   *)
(* the caller, and the role registered if there is one, are kicked.        *)
StubUpdateByRelay(g) ==
  /\ Delivers(g, StubGame, "update_by_relay")
  /\ LET m       == Head(wire[<<g, StubGame>>])
         current == role2mb[m.rid]
         kicked  == Sent(Received(g, StubGame), StubGame, Call("kick_role", m.mb))
     IN /\ acct2mb' = IF current = m.mb THEN [acct2mb EXCEPT ![m.id] = current] ELSE acct2mb
        /\ wire' = CASE current = m.mb     -> Received(g, StubGame)
                     [] current = NoEntity -> kicked
                     [] OTHER              -> Sent(kicked, StubGame, Call("kick_role", current))
  /\ UNCHANGED <<clientVars, told, route, up, down, c2e, account, role, role2mb, db, tableVars>>
-----------------------------------------------------------------------------
(* Entity calls: the head of the connection from g to h runs on game h.    *)

(* account::on_register_account.                                           *)
OnRegisterAccount(g, h) ==
  /\ Delivers(g, h, "on_register_account")
  /\ LET m == Head(wire[<<g, h>>]) IN
       IF m.ok
       THEN /\ wire' = Received(g, h)
            /\ Issue(m.to, "load_role")
       ELSE /\ wire' = Sent(Received(g, h), h, [Call("on_relay_ready", m.mb) EXCEPT !.mb = m.to])
            /\ UNCHANGED <<account, db>>
  /\ UNCHANGED <<clientVars, told, route, up, down, c2e, role, stubVars, tableVars>>

(* A destroyed account still answers on_relay_ready and on_wait_login:     *)
(* neither has the is_destroy check of on_relay_login.  (Variant: both do.)*)
AnswerUnlessDestroyed(w, h, a, m) == IF account[a].destroyed THEN w ELSE Sent(w, h, m)
Answer(w, h, a, m) == Sent(w, h, m)

(* account::on_relay_ready: the newcomer may go on, this client is refused *)
(* and this account destroyed.                                             *)
AccountOnRelayReady(g, h) ==
  /\ Delivers(g, h, "on_relay_ready")
  /\ LET m == Head(wire[<<g, h>>]) IN
       /\ m.to \in Accounts
       /\ wire' = Answer(Received(g, h), h, m.to, Call("on_relay_login", m.mb))
       /\ Tell(m.to[2], "refused")
       /\ account' = [account EXCEPT ![m.to].destroyed = TRUE]
  /\ UNCHANGED <<clientVars, route, up, down, c2e, role, stubVars, db, tableVars>>

(* call_ws_client in on_relay_ready.  (Variant: the newcomer is kicked.)   *)
KickNewcomer(m) == Tell(m.mb[2], "kick")
KickCurrent(m)  == Tell(role[m.to].client, "kick")

(* role::on_relay_ready: wait for the newcomer, kick the present client    *)
(* and forget it.                                                          *)
RoleOnRelayReady(g, h) ==
  /\ Delivers(g, h, "on_relay_ready")
  /\ LET m == Head(wire[<<g, h>>]) IN
       /\ m.to \in Roles
       /\ role' = [role EXCEPT ![m.to].status = "RELAY"]
       /\ wire' = Sent(Received(g, h), h, [Call("on_wait_login", m.mb) EXCEPT !.mb = m.to])
       /\ KickCurrent(m)
       /\ c2e' = [c2e EXCEPT ![h][role[m.to].client] = NoEntity]
  /\ UNCHANGED <<clientVars, route, up, down, account, stubVars, db, tableVars>>

(* account::on_wait_login: hand this client to the role.                   *)
OnWaitLogin(g, h) ==
  /\ Delivers(g, h, "on_wait_login")
  /\ LET m == Head(wire[<<g, h>>]) IN
       /\ wire' = Answer(Received(g, h), h, m.to,
                         [Call("on_relay_login", m.mb) EXCEPT !.client = m.to[2]])
       /\ account' = [account EXCEPT ![m.to].destroyed = TRUE]
  /\ UNCHANGED <<clientVars, told, route, up, down, c2e, role, stubVars, db, tableVars>>

(* account::on_relay_login.                                                *)
AccountOnRelayLogin(g, h) ==
  /\ Delivers(g, h, "on_relay_login")
  /\ LET a == Head(wire[<<g, h>>]).to IN
       /\ a \in Accounts
       /\ wire' = Received(g, h)
       /\ IF account[a].destroyed THEN UNCHANGED <<account, db>> ELSE Issue(a, "load_role")
  /\ UNCHANGED <<clientVars, told, route, up, down, c2e, role, stubVars, tableVars>>

(* role::on_relay_login: take the new client over, tell the stub and the   *)
(* gate.                                                                   *)
RoleOnRelayLogin(g, h) ==
  /\ Delivers(g, h, "on_relay_login")
  /\ LET m == Head(wire[<<g, h>>]) IN
       /\ m.to \in Roles
       /\ role' = [role EXCEPT ![m.to].status = "NORMAL", ![m.to].client = m.client]
       /\ wire' = Sent(Received(g, h), h,
                       [Call("update_by_relay", Stub) EXCEPT
                          !.id = role[m.to].id, !.rid = role[m.to].rid, !.mb = m.to])
       /\ Tell(m.client, "success")
       /\ c2e' = [c2e EXCEPT ![h][m.client] = m.to]
       /\ down' = [down EXCEPT ![h] = @ + 1]
  /\ UNCHANGED <<clientVars, route, up, account, stubVars, db, tableVars>>

(* role::on_register_role; logout does nothing.                            *)
OnRegisterRole(g, h) ==
  /\ Delivers(g, h, "on_register_role")
  /\ wire' = Received(g, h)
  /\ LET m == Head(wire[<<g, h>>]) IN
       \/ /\ m.ok /\ role[m.to].status = "DISCONNECT"
          /\ UNCHANGED <<role, told>>
       \/ /\ m.ok /\ role[m.to].status # "DISCONNECT"
          /\ role' = [role EXCEPT ![m.to].status = "NORMAL"]
          /\ Tell(role[m.to].client, "success")
       \/ /\ ~m.ok
          /\ Tell(role[m.to].client, "refused")
          /\ UNCHANGED role
  /\ UNCHANGED <<clientVars, route, up, down, c2e, account, stubVars, db, tableVars>>
-----------------------------------------------------------------------------
GateStep == \/ \E c \in Clients : ProcessLogin(c) \/ ProcessCreateRole(c) \/ OnClientDisconnect(c)
            \/ \E g \in Games : UpdateClientProcessInfo(g)

TransferStep(g) == \/ CreateAccountEntity(g) \/ LoginAgain(g) \/ CreateRole(g)
                   \/ DisconnectAccount(g) \/ DisconnectRole(g) \/ DropTransfer(g)

CallbackStep(q) == OnLoadAccount(q) \/ OnSaveAccount(q) \/ OnLoadRole(q) \/ OnSaveRole(q)

StubStep(g) == \/ StubRegisterAccount(g) \/ StubUnregisterAccount(g)
               \/ StubRegisterRole(g) \/ StubUpdateByRelay(g)

EntityStep(g, h) == \/ OnRegisterAccount(g, h) \/ AccountOnRelayReady(g, h)
                    \/ RoleOnRelayReady(g, h) \/ OnWaitLogin(g, h)
                    \/ AccountOnRelayLogin(g, h) \/ RoleOnRelayLogin(g, h)
                    \/ OnRegisterRole(g, h)

Next == \/ GateStep
        \/ \E g \in Games : TransferStep(g) \/ StubStep(g)
        \/ \E g, h \in Games : EntityStep(g, h)
        \/ \E q \in db : Execute(q) \/ LoseRequest(q) \/ CallbackStep(q)

Spec == Init /\ [][Next]_vars

(* The loops of the processes run for ever: every connection with a packet *)
(* is served and every database request is executed and answered.  Clients *)
(* owe nothing.                                                            *)
Fairness ==
  /\ \A g \in Games : WF_vars(TransferStep(g)) /\ WF_vars(StubStep(g))
                      /\ WF_vars(UpdateClientProcessInfo(g))
  /\ \A g, h \in Games : WF_vars(EntityStep(g, h))
  /\ WF_vars(\E q \in db : Execute(q))
  /\ WF_vars(\E q \in db : CallbackStep(q))

FairSpec == Spec /\ Fairness
-----------------------------------------------------------------------------
EntityFns == {"on_register_account", "on_relay_ready", "on_wait_login",
              "on_relay_login", "on_register_role", "kick_role"}
StubFns   == {"register_account", "unregister_account", "register_role", "update_by_relay"}

(* Calls name the kind of entity their function belongs to, and carry the  *)
(* kind of mailbox their handler uses.                                     *)
CallRecord == [fn : EntityFns \cup StubFns, to : Entities \cup {Stub},
               mb : Entities \cup {NoEntity}, id : Ids \cup {NoId}, rid : Ids \cup {NoId},
               ok : BOOLEAN, client : Clients \cup {NoClient}]
CallType == {m \in CallRecord :
  /\ m.fn \in StubFns => m.to = Stub /\ m.id \in Ids
  /\ m.fn = "register_account" => m.mb \in Accounts
  /\ m.fn \in {"register_role", "update_by_relay"} => m.mb \in Roles /\ m.rid \in Ids
  /\ m.fn = "on_register_account" => m.to \in Accounts /\ m.mb \in Entities
  /\ m.fn = "on_relay_ready" => m.to \in Entities /\ m.mb \in Accounts
  /\ m.fn = "on_wait_login" => m.to \in Accounts /\ m.mb \in Roles
  /\ m.fn = "on_relay_login" => \/ m.to \in Accounts
                                \/ (m.to \in Roles /\ m.client \in Clients)
  /\ m.fn \in {"on_register_role", "kick_role"} => m.to \in Roles}
TransferType == [fn : {"login", "create_role", "disconnect_client"}, client : Clients]
RequestType == [who : Accounts, op : {"load_account", "insert_account", "load_role", "insert_role"},
                opt : Nat, id : Ids, done : BOOLEAN, found : Ids \cup {NoId}]

AccountType == [home : Games \cup {NoGame}, id : Ids, rid : Ids, destroyed : BOOLEAN, opts : Nat]
RoleType == [home : Games \cup {NoGame}, id : Ids, rid : Ids, status : Statuses,
             client : Clients \cup {NoClient}]

(* Every variable has the type its C++ counterpart has.                    *)
TypeOK ==
  /\ open \in [Clients -> BOOLEAN]
  /\ logins \in [Clients -> Nat] /\ creates \in [Clients -> Nat]
  /\ told \in [Clients -> SUBSET Commands]
  /\ route \in [Clients -> Games \cup {NoGame}]
  /\ up \in [Games -> Seq(TransferType)] /\ down \in [Games -> Nat]
  /\ wire \in [Games \X Games -> Seq(CallType)]
  /\ c2e \in [Games -> [Clients -> Entities \cup {NoEntity}]]
  /\ account \in [Accounts -> AccountType] /\ role \in [Roles -> RoleType]
  /\ acct2mb \in [Ids -> Entities \cup {NoEntity}]
  /\ role2mb \in [Ids -> Roles \cup {NoEntity}]
  /\ db \subseteq RequestType
  /\ accrow \in [Users -> Ids \cup {NoId}] /\ rolerow \in [Ids -> BOOLEAN]

(* The calls under way between the games.                                  *)
CallsIn(w) == UNION { {w[l][i] : i \in DOMAIN w[l]} : l \in Games \X Games }
InFlight == CallsIn(wire)

(* A role that a client plays, or that is being handed over, is the one    *)
(* the stub has registered for its role id: a player is never served by    *)
(* two role entities, whatever logins, relays and disconnections overlap.  *)
OnlyRegisteredRoleIsActive ==
  \A r \in Roles : role[r].status \in {"NORMAL", "RELAY"} => role2mb[role[r].rid] = r

(* A relay is never started towards a role that lost its registration:     *)
(* what m_account_2_mailbox names, if it is a role, m_role_2_mailbox names *)
(* too, so the entry register_account hands to a newcomer can be trusted.  *)
AccountEntryNamesRegisteredRole ==
  \A i \in Ids : acct2mb[i] \in Roles => role2mb[role[acct2mb[i]].rid] = acct2mb[i]

(* The two "start kick role" branches of update_by_relay never run: by the *)
(* time a role reports a finished relay the stub still has it registered.  *)
RelayNeverKicksRole == \A m \in InFlight : m.fn # "kick_role"

(* Where the right to relay role r is: in the account map, or carried by a *)
(* call under way, from the reply that names r to its update_by_relay.     *)
RelayRights(r) ==
  {i \in Ids : acct2mb[i] = r} \cup
  UNION { {<<l, i>> : i \in {j \in DOMAIN wire[l] :
             LET m == wire[l][j] IN
               \/ m.fn \in {"on_register_account", "on_wait_login", "update_by_relay"} /\ m.mb = r
               \/ m.fn \in {"on_relay_ready", "on_relay_login"} /\ m.to = r}} :
          l \in Games \X Games }

(* A role is promised to at most one newcomer at a time, although entries  *)
(* are overwritten by newcomers and erased by anybody's disconnection.     *)
OneRelayAtATime == \A r \in Roles : Cardinality(RelayRights(r)) <= 1

(* Every call under way is addressed to an entity that has been created,   *)
(* and that registers the function called: no step of a relay is lost to   *)
(* "call proxy func failed not find func name".                            *)
CallsFindTheirTarget ==
  \A m \in InFlight :
    /\ m.to \in Accounts => /\ account[m.to].home # NoGame
                            /\ m.fn \in {"on_register_account", "on_relay_ready",
                                         "on_wait_login", "on_relay_login"}
    /\ m.to \in Roles => /\ role[m.to].home # NoGame
                         /\ m.fn \in {"on_relay_ready", "on_relay_login",
                                      "on_register_role", "kick_role"}

(* A role passes to another client only after the client that held it has  *)
(* been sent "kick".                                                       *)
KickedBeforeReplaced ==
  [][\A r \in Roles :
       role[r].home # NoGame /\ role'[r].client # role[r].client
         => "kick" \in told[role[r].client]]_vars

(* Seen from the devices: of two clients of one user, both told that they  *)
(* are logged in, one has been sent "kick".                                *)
OneDeviceUnkicked ==
  \A c, d \in Clients :
    /\ c # d /\ UserOf[c] = UserOf[d]
    /\ "success" \in told[c] /\ "success" \in told[d]
    => "kick" \in told[c] \cup told[d]

(* What every call under way may rely on when it is delivered.  A relay is *)
(* only ever directed at an account that exists or at a registered role.   *)
Made(a)       == a \in Accounts /\ account[a].home # NoGame
Registered(r) == r \in Roles /\ role[r].home # NoGame /\ role2mb[role[r].rid] = r
Holder(e)     == Made(e) \/ Registered(e)

CallOK(m) ==
  \/ m.fn = "register_account" /\ m.to = Stub /\ m.id \in Ids /\ Made(m.mb)
  \/ m.fn = "unregister_account" /\ m.to = Stub /\ m.id \in Ids
  \/ m.fn = "register_role" /\ m.to = Stub /\ m.id \in Ids
     /\ m.rid \in Ids /\ m.mb \in Roles /\ role[m.mb].home # NoGame /\ role[m.mb].rid = m.rid
  \/ m.fn = "update_by_relay" /\ m.to = Stub /\ m.id \in Ids
     /\ m.rid \in Ids /\ m.mb \in Roles /\ role2mb[m.rid] = m.mb
  \/ m.fn = "on_register_account" /\ Made(m.to) /\ Holder(m.mb)
  \/ m.fn = "on_relay_ready" /\ Holder(m.to) /\ Made(m.mb)
  \/ m.fn = "on_wait_login" /\ Made(m.to) /\ Registered(m.mb)
  \/ m.fn = "on_relay_login" /\ Made(m.to)
  \/ m.fn = "on_relay_login" /\ Registered(m.to) /\ m.client \in Clients
  \/ m.fn = "on_register_role" /\ m.to \in Roles /\ role[m.to].home # NoGame
     /\ (m.ok => Registered(m.to))

(* The inductive invariant: the maps of the stub name entities that exist, *)
(* live roles are registered, every call under way keeps its promise, and  *)
(* requests and client entries belong to accounts that exist.              *)
CallsAreSound   == \A m \in InFlight : CallOK(m)
RoleMapIsSound    == \A i \in Ids : role2mb[i] # NoEntity =>
                       role[role2mb[i]].home # NoGame /\ role[role2mb[i]].rid = i
AccountMapIsSound == \A i \in Ids : acct2mb[i] # NoEntity => Holder(acct2mb[i])
RequestsHaveOwners == \A q \in db : Made(q.who)
ClientsHaveAccounts == \A g \in Games, c \in Clients : c2e[g][c] \in Accounts => Made(c2e[g][c])

IInv == /\ CallsAreSound /\ RoleMapIsSound /\ AccountMapIsSound
        /\ RequestsHaveOwners /\ ClientsHaveAccounts
        /\ OnlyRegisteredRoleIsActive /\ AccountEntryNamesRegisteredRole

(* A hand-over that started ends: a role in RELAY is taken over by the     *)
(* waiting client, even when that client's account has been destroyed or   *)
(* its websocket has closed in between.                                    *)
RelayEnds == \A r \in Roles : role[r].status = "RELAY" ~> role[r].status # "RELAY"

(* A client that logs in is told something (success, refused, kick or      *)
(* create_role) unless it goes away first: overlapping logins never wait   *)
(* for each other for ever.                                                *)
LoginAnswered ==
  \A c \in Clients : logins[c] > 0 ~> told[c] # {} \/ ~open[c]
-----------------------------------------------------------------------------
(* What the documentation says and the code does not do; each is refuted   *)
(* by a run of its own.                                                    *)

Quiet == /\ InFlight = {} /\ db = {}
         /\ \A g \in Games : up[g] = <<>> /\ down[g] = 0

(* "game and client call func each other, transfer by gate": when nothing  *)
(* is under way, the gate sends what the client of a live role says to the *)
(* game that holds the role.                                               *)
GateReachesRole ==
  Quiet => \A r \in Roles :
    role[r].status = "NORMAL" /\ open[role[r].client] => route[role[r].client] = role[r].home
=============================================================================
