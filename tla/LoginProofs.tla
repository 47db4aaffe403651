---------------------------- MODULE LoginProofs ----------------------------
(* Type correctness of Login, and the safety of relays (IInv is inductive) *)
(* for any games, clients, users, account ids, faults of the databases and *)
(* bounds; and of what follows from it: a role is promised to one newcomer *)
(* at a time, and passes to it only after the client that had it was       *)
(* kicked.                                                                 *)
EXTENDS Login, FiniteSetTheorems, TLAPS

(* Entity identifiers say which kind of entity they name, and for whom.    *)
LEMMA EntityFacts ==
  /\ \A a \in Accounts : a \notin Roles /\ a[2] \in Clients /\ a # NoEntity /\ a # Stub
  /\ \A r \in Roles : r \notin Accounts /\ r # NoEntity /\ r # Stub
  /\ \A c \in Clients : \A n \in 1..MaxLogin : <<"account", c, n>> \in Accounts /\ <<"account", c, n>>[2] = c
  /\ \A c \in Clients : \A n \in 1..MaxRole : <<"role", c, n>> \in Roles
BY NamesAssumption DEF Accounts, Roles, Entities

(* A call put on a connection keeps the connections well typed, wherever   *)
(* the target lives.                                                       *)
LEMMA SentType ==
  ASSUME NEW w \in [Games \X Games -> Seq(CallType)], NEW g, NEW m \in CallType
  PROVE  Sent(w, g, m) \in [Games \X Games -> Seq(CallType)]
<1> DEFINE l == <<g, HomeOf(m.to)>>
<1>1. CASE l \in Games \X Games
  <2>1. Append(w[l], m) \in Seq(CallType)  BY <1>1
  <2> QED BY <1>1, <2>1 DEF Sent
<1>2. CASE l \notin Games \X Games
  BY <1>2 DEF Sent
<1> QED BY <1>1, <1>2

(* Taking the head of a connection.                                        *)
LEMMA ReceivedType ==
  ASSUME TypeOK, NEW g \in Games, NEW h \in Games, NEW fn, Delivers(g, h, fn)
  PROVE  /\ Received(g, h) \in [Games \X Games -> Seq(CallType)]
         /\ Head(wire[<<g, h>>]) \in CallType
<1>1. wire[<<g, h>>] \in Seq(CallType) /\ wire[<<g, h>>] # <<>>
  BY DEF TypeOK, Delivers
<1>2. Tail(wire[<<g, h>>]) \in Seq(CallType) /\ Head(wire[<<g, h>>]) \in CallType
  BY <1>1
<1> QED BY <1>2 DEF Received, TypeOK

(* The calls the handlers make are well typed.                             *)
LEMMA CallTypes ==
  /\ \A a \in Accounts, i \in Ids : RegisterCall(a, i) \in CallType
  /\ \A i \in Ids : [Call("unregister_account", Stub) EXCEPT !.id = i] \in CallType
  /\ \A r \in Roles, i, j \in Ids : [Call("register_role", Stub) EXCEPT !.id = i, !.rid = j, !.mb = r] \in CallType
  /\ \A r \in Roles, i, j \in Ids : [Call("update_by_relay", Stub) EXCEPT !.id = i, !.rid = j, !.mb = r] \in CallType
  /\ \A a \in Accounts : [Call("on_register_account", a) EXCEPT !.ok = TRUE, !.mb = a] \in CallType
  /\ \A a \in Accounts, e \in Entities : [Call("on_register_account", a) EXCEPT !.mb = e] \in CallType
  /\ \A e \in Entities, a \in Accounts : [Call("on_relay_ready", e) EXCEPT !.mb = a] \in CallType
  /\ \A a \in Accounts, r \in Roles : [Call("on_wait_login", a) EXCEPT !.mb = r] \in CallType
  /\ \A a \in Accounts : Call("on_relay_login", a) \in CallType
  /\ \A r \in Roles, c \in Clients : [Call("on_relay_login", r) EXCEPT !.client = c] \in CallType
  /\ \A r \in Roles, b \in BOOLEAN : [Call("on_register_role", r) EXCEPT !.ok = b] \in CallType
  /\ \A r \in Roles : Call("kick_role", r) \in CallType
<1>1. Accounts \subseteq Entities /\ Roles \subseteq Entities  BY DEF Entities
<1> USE DEF Call, CallType, CallRecord, EntityFns, StubFns, RegisterCall
<1>2. \A a \in Accounts, i \in Ids : RegisterCall(a, i) \in CallType  BY <1>1
<1>3. \A i \in Ids : [Call("unregister_account", Stub) EXCEPT !.id = i] \in CallType  BY <1>1
<1>4. \A r \in Roles, i, j \in Ids : [Call("register_role", Stub) EXCEPT !.id = i, !.rid = j, !.mb = r] \in CallType  BY <1>1
<1>5. \A r \in Roles, i, j \in Ids : [Call("update_by_relay", Stub) EXCEPT !.id = i, !.rid = j, !.mb = r] \in CallType  BY <1>1
<1>6. \A a \in Accounts : [Call("on_register_account", a) EXCEPT !.ok = TRUE, !.mb = a] \in CallType  BY <1>1
<1>7. \A a \in Accounts, e \in Entities : [Call("on_register_account", a) EXCEPT !.mb = e] \in CallType
  <2> TAKE a \in Accounts, e \in Entities
  <2>1. a \in Entities  BY <1>1
  <2> QED BY <1>1, <2>1
<1>8. \A e \in Entities, a \in Accounts : [Call("on_relay_ready", e) EXCEPT !.mb = a] \in CallType
  <2> TAKE e \in Entities, a \in Accounts
  <2>1. a \in Entities  BY <1>1
  <2> QED BY <1>1, <2>1
<1>9. \A a \in Accounts, r \in Roles : [Call("on_wait_login", a) EXCEPT !.mb = r] \in CallType  BY <1>1
<1>10. \A a \in Accounts : Call("on_relay_login", a) \in CallType  BY <1>1
<1>11. \A r \in Roles, c \in Clients : [Call("on_relay_login", r) EXCEPT !.client = c] \in CallType  BY <1>1
<1>12. \A r \in Roles, b \in BOOLEAN : [Call("on_register_role", r) EXCEPT !.ok = b] \in CallType  BY <1>1
<1>13. \A r \in Roles : Call("kick_role", r) \in CallType  BY <1>1
<1> HIDE DEF Call, CallType, RegisterCall
<1> QED BY <1>2, <1>3, <1>4, <1>5, <1>6, <1>7, <1>8, <1>9, <1>10, <1>11, <1>12, <1>13

LEMMA InitType == Init => TypeOK
BY ConstantsAssumption, NamesAssumption DEF Init, TypeOK, AccountType, RoleType, Statuses, Commands

(* Transfer packets and requests.                                          *)
LEMMA TransferTypes ==
  ASSUME NEW c \in Clients, NEW fn \in {"login", "create_role", "disconnect_client"}
  PROVE  Transfer(fn, c) \in TransferType
BY DEF Transfer, TransferType

LEMMA RequestTypes ==
  ASSUME NEW a \in Accounts, NEW n \in Nat, NEW i \in Ids,
         NEW op \in {"load_account", "insert_account", "load_role", "insert_role"}
  PROVE  Request(a, op, n, i) \in RequestType
BY DEF Request, RequestType

LEMMA UpType ==
  ASSUME TypeOK, NEW g \in Games, NEW t \in TransferType
  PROVE  [up EXCEPT ![g] = Append(@, t)] \in [Games -> Seq(TransferType)]
BY DEF TypeOK

LEMMA TakenType ==
  ASSUME TypeOK, NEW g \in Games, up[g] # <<>>, Taken(g)
  PROVE  /\ up' \in [Games -> Seq(TransferType)]
         /\ Head(up[g]) \in TransferType /\ Sender(g) \in Clients
         /\ Current(g) \in Entities \cup {NoEntity}
<1>1. up[g] \in Seq(TransferType)  BY DEF TypeOK
<1>2. Head(up[g]) \in TransferType /\ Tail(up[g]) \in Seq(TransferType)  BY <1>1
<1>3. Sender(g) \in Clients  BY <1>2 DEF Sender, TransferType
<1> QED BY <1>2, <1>3 DEF TypeOK, Taken, Current

LEMMA IssueType ==
  ASSUME TypeOK, NEW a \in Accounts,
         NEW op \in {"load_account", "insert_account", "load_role", "insert_role"},
         Issue(a, op)
  PROVE  /\ db' \subseteq RequestType
         /\ account' \in [Accounts -> AccountType]
<1>1. account[a] \in AccountType  BY DEF TypeOK
<1>2. account[a].opts + 1 \in Nat /\ account[a].rid \in Ids  BY <1>1 DEF AccountType
<1>3. Request(a, op, account[a].opts + 1, account[a].rid) \in RequestType
  BY <1>2, RequestTypes
<1>4. [account[a] EXCEPT !.opts = @ + 1] \in AccountType  BY <1>1 DEF AccountType
<1> QED BY <1>3, <1>4 DEF Issue, TypeOK

LEMMA TellType ==
  ASSUME TypeOK, NEW cmd \in Commands, NEW c, Tell(c, cmd)
  PROVE  told' \in [Clients -> SUBSET Commands]
BY DEF Tell, TypeOK

(* Updates of one account or role.                                         *)
LEMMA AccountUpdates ==
  ASSUME TypeOK, NEW a \in Accounts
  PROVE  /\ account[a].opts \in Nat /\ account[a].id \in Ids /\ account[a].rid \in Ids
         /\ account[a].home \in Games \cup {NoGame}
         /\ \A g \in Games, i, j \in Ids, n \in Nat :
              [account EXCEPT ![a].home = g, ![a].id = i, ![a].rid = j, ![a].opts = n]
                \in [Accounts -> AccountType]
         /\ [account EXCEPT ![a].destroyed = TRUE] \in [Accounts -> AccountType]
         /\ \A i, j \in Ids : [account EXCEPT ![a].id = i, ![a].rid = j] \in [Accounts -> AccountType]
         /\ \A i, j \in Ids : [account EXCEPT ![a].id = i, ![a].rid = j, ![a].opts = @ + 1]
                               \in [Accounts -> AccountType]
<1>1. account \in [Accounts -> AccountType]  BY DEF TypeOK
<1>2. account[a] \in AccountType  BY <1>1
<1>3. account[a].opts + 1 \in Nat /\ account[a].opts \in Nat /\ account[a].id \in Ids
      /\ account[a].rid \in Ids /\ account[a].home \in Games \cup {NoGame}
  BY <1>2 DEF AccountType
<1>4. \A x \in AccountType : [account EXCEPT ![a] = x] \in [Accounts -> AccountType]  BY <1>1
<1>5. ASSUME NEW g \in Games, NEW i \in Ids, NEW j \in Ids, NEW n \in Nat
      PROVE  [account EXCEPT ![a].home = g, ![a].id = i, ![a].rid = j, ![a].opts = n]
               \in [Accounts -> AccountType]
  <2>1. [account[a] EXCEPT !.home = g, !.id = i, !.rid = j, !.opts = n] \in AccountType
    BY <1>2 DEF AccountType
  <2>2. [account EXCEPT ![a].home = g, ![a].id = i, ![a].rid = j, ![a].opts = n]
          = [account EXCEPT ![a] = [account[a] EXCEPT !.home = g, !.id = i, !.rid = j, !.opts = n]]
    BY <1>1
  <2> QED BY <1>4, <2>1, <2>2
<1>6. [account EXCEPT ![a].destroyed = TRUE] \in [Accounts -> AccountType]
  BY <1>1, <1>2 DEF AccountType
<1>7. ASSUME NEW i \in Ids, NEW j \in Ids
      PROVE  [account EXCEPT ![a].id = i, ![a].rid = j] \in [Accounts -> AccountType]
  <2>1. [account[a] EXCEPT !.id = i, !.rid = j] \in AccountType  BY <1>2 DEF AccountType
  <2>2. [account EXCEPT ![a].id = i, ![a].rid = j]
          = [account EXCEPT ![a] = [account[a] EXCEPT !.id = i, !.rid = j]]
    BY <1>1
  <2> QED BY <1>4, <2>1, <2>2
<1>8. ASSUME NEW i \in Ids, NEW j \in Ids
      PROVE  [account EXCEPT ![a].id = i, ![a].rid = j, ![a].opts = @ + 1] \in [Accounts -> AccountType]
  <2>1. [account[a] EXCEPT !.id = i, !.rid = j, !.opts = @ + 1] \in AccountType
    BY <1>2, <1>3 DEF AccountType
  <2>2. [account EXCEPT ![a].id = i, ![a].rid = j, ![a].opts = @ + 1]
          = [account EXCEPT ![a] = [account[a] EXCEPT !.id = i, !.rid = j, !.opts = @ + 1]]
    BY <1>1
  <2> QED BY <1>4, <2>1, <2>2
<1> QED BY <1>3, <1>5, <1>6, <1>7, <1>8

LEMMA RoleUpdates ==
  ASSUME TypeOK, NEW r \in Roles, NEW s \in Statuses, NEW c \in Clients
  PROVE  /\ role[r].id \in Ids /\ role[r].rid \in Ids /\ role[r].client \in Clients \cup {NoClient}
         /\ role[r].home \in Games \cup {NoGame}
         /\ [role EXCEPT ![r].status = s] \in [Roles -> RoleType]
         /\ [role EXCEPT ![r].status = s, ![r].client = c] \in [Roles -> RoleType]
<1>1. role \in [Roles -> RoleType]  BY DEF TypeOK
<1>2. role[r] \in RoleType  BY <1>1
<1> QED BY <1>1, <1>2 DEF RoleType

(* The gate's handlers keep the types.                                     *)
LEMMA GateKeepsType == ASSUME TypeOK, GateStep PROVE TypeOK'
<1>1. ASSUME NEW c \in Clients, ProcessLogin(c) PROVE TypeOK'
  <2>1. PICK g \in Games : /\ route' = [route EXCEPT ![c] = g]
                           /\ up' = [up EXCEPT ![g] = Append(@, Transfer("login", c))]
    BY <1>1 DEF ProcessLogin
  <2>2. up' \in [Games -> Seq(TransferType)]  BY <2>1, UpType, TransferTypes
  <2> QED BY <1>1, <2>1, <2>2 DEF ProcessLogin, TypeOK, stubVars, tableVars
<1>2. ASSUME NEW c \in Clients, ProcessCreateRole(c) PROVE TypeOK'
  <2>1. route[c] \in Games  BY <1>2 DEF ProcessCreateRole, TypeOK
  <2>2. up' \in [Games -> Seq(TransferType)]
    BY <1>2, <2>1, UpType, TransferTypes DEF ProcessCreateRole
  <2> QED BY <1>2, <2>2 DEF ProcessCreateRole, TypeOK, stubVars, tableVars
<1>3. ASSUME NEW c \in Clients, OnClientDisconnect(c) PROVE TypeOK'
  <2>1. up' \in [Games -> Seq(TransferType)]
    <3>1. CASE route[c] = NoGame  BY <1>3, <3>1 DEF OnClientDisconnect, TypeOK
    <3>2. CASE route[c] # NoGame
      <4>1. route[c] \in Games  BY <3>2 DEF TypeOK
      <4>2. Transfer("disconnect_client", c) \in TransferType  BY TransferTypes
      <4>3. [up EXCEPT ![route[c]] = Append(@, Transfer("disconnect_client", c))]
              \in [Games -> Seq(TransferType)]
        BY <4>1, <4>2, UpType
      <4> QED BY <1>3, <3>2, <4>3 DEF OnClientDisconnect
    <3> QED BY <3>1, <3>2
  <2> QED BY <1>3, <2>1 DEF OnClientDisconnect, TypeOK, stubVars, tableVars
<1>4. ASSUME NEW g \in Games, UpdateClientProcessInfo(g) PROVE TypeOK'
  BY <1>4 DEF UpdateClientProcessInfo, TypeOK, clientVars, stubVars, tableVars
<1> QED BY <1>1, <1>2, <1>3, <1>4 DEF GateStep

(* Transfer packets handled by a game keep the types.                      *)
LEMMA TransferKeepsType == ASSUME TypeOK, NEW g \in Games, TransferStep(g) PROVE TypeOK'
<1> USE DEF clientVars, stubVars, tableVars
<1>1. CASE CreateAccountEntity(g)
  <2>1. Taken(g) /\ up[g] # <<>>  BY <1>1 DEF CreateAccountEntity, Arrives
  <2>2. PICK n \in 1..MaxLogin, i \in Ids, j \in Ids :
          LET a == <<"account", Sender(g), n>> IN
            /\ account' = [account EXCEPT ![a].home = g, ![a].id = i, ![a].rid = j, ![a].opts = 1]
            /\ c2e' = [c2e EXCEPT ![g][Sender(g)] = a]
            /\ db' = db \cup {Request(a, "load_account", 1, NewId)}
    BY <1>1 DEF CreateAccountEntity
  <2> DEFINE a == <<"account", Sender(g), n>>
  <2>3. a \in Accounts  BY <2>1, TakenType, EntityFacts
  <2>4. Request(a, "load_account", 1, NewId) \in RequestType
    BY <2>3, RequestTypes, ConstantsAssumption
  <2>5. account' \in [Accounts -> AccountType]
    BY <2>2, <2>3, AccountUpdates
  <2>6. c2e' \in [Games -> [Clients -> Entities \cup {NoEntity}]]
    BY <2>2, <2>3 DEF TypeOK, Entities
  <2> QED BY <1>1, <2>1, <2>2, <2>4, <2>5, <2>6, TakenType DEF CreateAccountEntity, TypeOK
<1>2. CASE LoginAgain(g)
  <2>1. Taken(g) /\ up[g] # <<>>  BY <1>2 DEF LoginAgain, Arrives
  <2> QED BY <1>2, <2>1, TakenType, IssueType DEF LoginAgain, TypeOK
<1>3. CASE CreateRole(g)
  <2>1. Taken(g) /\ up[g] # <<>>  BY <1>3 DEF CreateRole, Arrives
  <2> QED BY <1>3, <2>1, TakenType, IssueType DEF CreateRole, TypeOK
<1>4. CASE DisconnectAccount(g)
  <2>1. Taken(g) /\ up[g] # <<>> /\ Current(g) \in Accounts
    BY <1>4 DEF DisconnectAccount, Arrives
  <2>2. CASE account[Current(g)].destroyed
    BY <1>4, <2>1, <2>2, TakenType DEF DisconnectAccount, TypeOK
  <2>3. CASE ~account[Current(g)].destroyed
    <3> DEFINE m == [Call("unregister_account", Stub) EXCEPT !.id = account[Current(g)].id]
    <3>1. account[Current(g)].id \in Ids
      BY <2>1 DEF TypeOK, AccountType
    <3>2. m \in CallType
      BY <3>1, CallTypes
    <3>3. Sent(wire, g, m) \in [Games \X Games -> Seq(CallType)]
      BY <3>2, SentType DEF TypeOK
    <3>4. [account EXCEPT ![Current(g)].destroyed = TRUE] \in [Accounts -> AccountType]
      BY <2>1, AccountUpdates
    <3>5. wire' = Sent(wire, g, m) /\ account' = [account EXCEPT ![Current(g)].destroyed = TRUE]
      BY <1>4, <2>3 DEF DisconnectAccount
    <3> QED BY <1>4, <2>1, <3>3, <3>4, <3>5, TakenType DEF DisconnectAccount, TypeOK
  <2> QED BY <2>2, <2>3
<1>5. CASE DisconnectRole(g)
  <2>1. Taken(g) /\ up[g] # <<>> /\ Current(g) \in Roles
    BY <1>5 DEF DisconnectRole, Arrives
  <2>2. Sender(g) \in Clients  BY <2>1, TakenType
  <2>3. role' \in [Roles -> RoleType]
    <3>1. [role EXCEPT ![Current(g)].status = "DISCONNECT"] \in [Roles -> RoleType]
      BY <2>1, <2>2, RoleUpdates DEF Statuses
    <3> QED BY <1>5, <3>1 DEF DisconnectRole, TypeOK
  <2> QED BY <1>5, <2>1, <2>3, TakenType DEF DisconnectRole, TypeOK
<1>6. CASE DropTransfer(g)
  <2>1. Taken(g) /\ up[g] # <<>>  BY <1>6 DEF DropTransfer
  <2> QED BY <1>6, <2>1, TakenType DEF DropTransfer, TypeOK
<1> QED BY <1>1, <1>2, <1>3, <1>4, <1>5, <1>6 DEF TransferStep

(* Requests executed and lost.                                             *)
LEMMA ExecuteKeepsType ==
  ASSUME TypeOK, NEW q \in db, Execute(q) \/ LoseRequest(q) PROVE TypeOK'
<1> USE DEF clientVars, stubVars, tableVars
<1>1. q \in RequestType /\ q.who \in Accounts /\ q.id \in Ids  BY DEF TypeOK, RequestType
<1>2. CASE LoseRequest(q)  BY <1>2 DEF LoseRequest, TypeOK
<1>3. CASE Execute(q)
  <2>1. UserOf[q.who[2]] \in Users  BY <1>1, EntityFacts, ConstantsAssumption
  <2>2. Found(q) \in Ids \cup {NoId}  BY <1>1, <2>1 DEF Found, TypeOK
  <2>3. \A found \in Ids \cup {NoId} : [q EXCEPT !.done = TRUE, !.found = found] \in RequestType
    BY <1>1 DEF RequestType
  <2>4. db' \subseteq RequestType
    <3>1. PICK found \in Ids \cup {NoId} :
            db' = (db \ {q}) \cup {[q EXCEPT !.done = TRUE, !.found = found]}
      BY <1>3, <2>2 DEF Execute
    <3> QED BY <2>3, <3>1 DEF TypeOK
  <2>5. accrow' \in [Users -> Ids \cup {NoId}]  BY <1>1, <1>3, <2>1 DEF Execute, TypeOK
  <2>6. rolerow' \in [Ids -> BOOLEAN]  BY <1>1, <1>3 DEF Execute, TypeOK
  <2> QED BY <1>3, <2>4, <2>5, <2>6 DEF Execute, TypeOK
<1> QED BY <1>2, <1>3

(* A login that succeeds makes a role entity of the right type.            *)
LEMMA LoginSuccessType ==
  ASSUME TypeOK, NEW a \in Accounts, LoginSuccess(a)
  PROVE  /\ role' \in [Roles -> RoleType] /\ account' \in [Accounts -> AccountType]
         /\ c2e' \in [Games -> [Clients -> Entities \cup {NoEntity}]]
         /\ wire' \in [Games \X Games -> Seq(CallType)]
<1> DEFINE g == account[a].home
           c == a[2]
<1>1. PICK n \in 1..MaxRole :
        LET r == <<"role", c, n>> IN
        /\ role' = [role EXCEPT ![r] = [home |-> g, id |-> account[a].id, rid |-> account[a].rid,
                                       status |-> "INVALID", client |-> c]]
        /\ c2e' = [c2e EXCEPT ![g][c] = r]
        /\ wire' = Sent(wire, g, [Call("register_role", Stub) EXCEPT
                                !.id = account[a].id, !.rid = account[a].rid, !.mb = r])
        /\ account' = [account EXCEPT ![a].destroyed = TRUE]
  BY DEF LoginSuccess
<1> DEFINE r == <<"role", c, n>>
<1>2. r \in Roles /\ r \in Entities /\ c \in Clients  BY EntityFacts DEF Entities
<1>3. g \in Games \cup {NoGame} /\ account[a].id \in Ids /\ account[a].rid \in Ids
  BY DEF TypeOK, AccountType
<1>4. [home |-> g, id |-> account[a].id, rid |-> account[a].rid, status |-> "INVALID", client |-> c] \in RoleType
  BY <1>2, <1>3 DEF RoleType, Statuses
<1>5. role' \in [Roles -> RoleType]  BY <1>1, <1>2, <1>4 DEF TypeOK
<1>6. c2e' \in [Games -> [Clients -> Entities \cup {NoEntity}]]
  <2>1. CASE g \in Games  BY <1>1, <1>2, <2>1 DEF TypeOK
  <2>2. CASE g \notin Games  BY <1>1, <2>2 DEF TypeOK
  <2> QED BY <2>1, <2>2
<1>7. account' \in [Accounts -> AccountType]  BY <1>1, AccountUpdates
<1>8. [Call("register_role", Stub) EXCEPT !.id = account[a].id, !.rid = account[a].rid, !.mb = r]
        \in CallType
  BY <1>2, <1>3, CallTypes
<1>9. Sent(wire, g, [Call("register_role", Stub) EXCEPT
                       !.id = account[a].id, !.rid = account[a].rid, !.mb = r])
        \in [Games \X Games -> Seq(CallType)]
  BY <1>8, SentType DEF TypeOK
<1> QED BY <1>1, <1>5, <1>6, <1>7, <1>9

(* Database answers keep the types.                                        *)
LEMMA CallbackKeepsType ==
  ASSUME TypeOK, NEW q \in db, CallbackStep(q) PROVE TypeOK'
<1> USE DEF clientVars, stubVars, tableVars
<1>1. q \in RequestType /\ q.who \in Accounts /\ q.who \in Entities /\ q.found \in Ids \cup {NoId}
  BY DEF TypeOK, RequestType, Entities
<1>2. q.who[2] \in Clients  BY <1>1, EntityFacts
<1>3. account[q.who].opts + 1 \in Nat /\ account[q.who].id \in Ids
  BY <1>1 DEF TypeOK, AccountType
<1>4. \A i \in Ids : /\ RegisterCall(q.who, i) \in CallType
                     /\ Sent(wire, account[q.who].home, RegisterCall(q.who, i))
                          \in [Games \X Games -> Seq(CallType)]
  <2> TAKE i \in Ids
  <2>1. RegisterCall(q.who, i) \in CallType
    BY <1>1, CallTypes
  <2> QED BY <2>1, SentType DEF TypeOK
<1>5. db \ {q} \subseteq RequestType  BY DEF TypeOK
<1>6. CASE OnLoadAccount(q)
  <2>1. LoadedId(q) \in Ids  BY <1>1, ConstantsAssumption DEF LoadedId
  <2>2. CASE q.found = NoId
    <3>1. Request(q.who, "insert_account", account[q.who].opts + 1, NewId) \in RequestType
      BY <1>1, <1>3, RequestTypes, ConstantsAssumption
    <3>2. [account EXCEPT ![q.who].id = LoadedId(q), ![q.who].rid = LoadedId(q),
                               ![q.who].opts = @ + 1] \in [Accounts -> AccountType]
      BY <1>1, <2>1, AccountUpdates
    <3>3. /\ db' = (db \ {q}) \cup {Request(q.who, "insert_account", account[q.who].opts + 1, NewId)}
          /\ account' = [account EXCEPT ![q.who].id = LoadedId(q), ![q.who].rid = LoadedId(q),
                               ![q.who].opts = @ + 1]
          /\ UNCHANGED wire
      BY <1>6, <2>2 DEF OnLoadAccount
    <3> QED BY <1>5, <1>6, <3>1, <3>2, <3>3 DEF OnLoadAccount, TypeOK
  <2>3. CASE q.found # NoId
    <3>1. [account EXCEPT ![q.who].id = LoadedId(q), ![q.who].rid = LoadedId(q)] \in [Accounts -> AccountType]
      BY <1>1, <2>1, AccountUpdates
    <3>2. /\ db' = db \ {q}
          /\ account' = [account EXCEPT ![q.who].id = LoadedId(q), ![q.who].rid = LoadedId(q)]
          /\ wire' = Sent(wire, account[q.who].home, RegisterCall(q.who, LoadedId(q)))
      BY <1>6, <2>3 DEF OnLoadAccount
    <3> QED BY <1>4, <1>5, <1>6, <2>1, <3>1, <3>2 DEF OnLoadAccount, TypeOK
  <2> QED BY <2>2, <2>3
<1>7. CASE OnSaveAccount(q)
  BY <1>3, <1>4, <1>5, <1>7 DEF OnSaveAccount, TypeOK
<1>8. CASE OnLoadRole(q)
  <2>1. CASE account[q.who].destroyed  BY <1>5, <1>8, <2>1 DEF OnLoadRole, TypeOK
  <2>2. CASE ~account[q.who].destroyed /\ q.found = NoId
    <3>1. Tell(q.who[2], "create_role")  BY <1>8, <2>2 DEF OnLoadRole
    <3>2. told' \in [Clients -> SUBSET Commands]  BY <3>1, TellType DEF Commands
    <3> QED BY <1>5, <1>8, <2>2, <3>2 DEF OnLoadRole, TypeOK
  <2>3. CASE ~account[q.who].destroyed /\ q.found # NoId
    <3>1. LoginSuccess(q.who) /\ UNCHANGED told  BY <1>8, <2>3 DEF OnLoadRole
    <3> QED BY <1>1, <1>5, <1>8, <3>1, LoginSuccessType DEF OnLoadRole, TypeOK
  <2> QED BY <2>1, <2>2, <2>3
<1>9. CASE OnSaveRole(q)
  BY <1>1, <1>5, <1>9, LoginSuccessType DEF OnSaveRole, TypeOK
<1> QED BY <1>6, <1>7, <1>8, <1>9 DEF CallbackStep

(* A call handled and answered: the head of a connection is replaced by m  *)
(* at the end of another, or of the same, connection.                      *)
LEMMA AnsweredType ==
  ASSUME TypeOK, NEW g \in Games, NEW h \in Games, NEW fn, Delivers(g, h, fn), NEW m \in CallType
  PROVE  Sent(Received(g, h), h, m) \in [Games \X Games -> Seq(CallType)]
BY ReceivedType, SentType

(* The stub's handlers keep the types.                                     *)
LEMMA StubKeepsType ==
  ASSUME TypeOK, NEW g \in Games, StubStep(g) PROVE TypeOK'
<1> USE DEF clientVars, stubVars, tableVars
<1> DEFINE m == Head(wire[<<g, StubGame>>])
           Connections == [Games \X Games -> Seq(CallType)]
<1>0. StubGame \in Games  BY ConstantsAssumption
<1>1. CASE StubRegisterAccount(g)
  <2>1. m \in CallType /\ m.fn = "register_account"
    BY <1>0, <1>1, ReceivedType DEF StubRegisterAccount, Delivers
  <2>2. m.id \in Ids /\ m.mb \in Accounts /\ m.mb \in Entities
    BY <2>1 DEF CallType, StubFns, Entities
  <2>3. acct2mb[m.id] \in Entities \cup {NoEntity}  BY <2>2 DEF TypeOK
  <2>4. RegisterReply(m, acct2mb[m.id]) \in CallType
    BY <2>2, <2>3, CallTypes DEF RegisterReply
  <2>5. Sent(Received(g, StubGame), StubGame, RegisterReply(m, acct2mb[m.id])) \in Connections
    BY <1>0, <1>1, <2>4, AnsweredType DEF StubRegisterAccount
  <2>6. [acct2mb EXCEPT ![m.id] = HolderAfter(m, acct2mb[m.id])] \in [Ids -> Entities \cup {NoEntity}]
    BY <2>2 DEF TypeOK, HolderAfter
  <2> QED BY <1>1, <2>5, <2>6 DEF StubRegisterAccount, TypeOK
<1>2. CASE StubUnregisterAccount(g)
  <2>1. Received(g, StubGame) \in Connections
    BY <1>0, <1>2, ReceivedType DEF StubUnregisterAccount
  <2>2. [acct2mb EXCEPT ![m.id] = NoEntity] \in [Ids -> Entities \cup {NoEntity}]
    BY DEF TypeOK
  <2> QED BY <1>2, <2>1, <2>2 DEF StubUnregisterAccount, TypeOK
<1>3. CASE StubRegisterRole(g)
  <2>1. m \in CallType /\ m.fn = "register_role"
    BY <1>0, <1>3, ReceivedType DEF StubRegisterRole, Delivers
  <2>2. m.id \in Ids /\ m.rid \in Ids /\ m.mb \in Roles /\ m.mb \in Entities
    BY <2>1 DEF CallType, StubFns, Entities
  <2>3. AcceptsRole(m) \in BOOLEAN  BY DEF AcceptsRole
  <2>4. [Call("on_register_role", m.mb) EXCEPT !.ok = AcceptsRole(m)] \in CallType
    BY <2>2, <2>3, CallTypes
  <2>5. Sent(Received(g, StubGame), StubGame,
             [Call("on_register_role", m.mb) EXCEPT !.ok = AcceptsRole(m)]) \in Connections
    BY <1>0, <1>3, <2>4, AnsweredType DEF StubRegisterRole
  <2>6. EntryAfterRole(m) \in Entities \cup {NoEntity}
    BY <2>2 DEF EntryAfterRole, TypeOK
  <2>7. [acct2mb EXCEPT ![m.id] = EntryAfterRole(m)] \in [Ids -> Entities \cup {NoEntity}]
    BY <2>6 DEF TypeOK
  <2>8. [role2mb EXCEPT ![m.rid] = m.mb] \in [Ids -> Roles \cup {NoEntity}]
    BY <2>2 DEF TypeOK
  <2> QED BY <1>3, <2>5, <2>7, <2>8 DEF StubRegisterRole, TypeOK
<1>4. CASE StubUpdateByRelay(g)
  <2>1. m \in CallType /\ m.fn = "update_by_relay"
    BY <1>0, <1>4, ReceivedType DEF StubUpdateByRelay, Delivers
  <2>2. m.id \in Ids /\ m.rid \in Ids /\ m.mb \in Roles /\ m.mb \in Entities
    BY <2>1 DEF CallType, StubFns, Entities
  <2> DEFINE current == role2mb[m.rid]
             kicked  == Sent(Received(g, StubGame), StubGame, Call("kick_role", m.mb))
  <2>3. current \in Roles \cup {NoEntity}  BY <2>2 DEF TypeOK
  <2>4. Received(g, StubGame) \in Connections
    BY <1>0, <1>4, ReceivedType DEF StubUpdateByRelay
  <2>5. kicked \in Connections
    BY <2>2, <2>4, CallTypes, SentType
  <2>6. current \in Roles => Sent(kicked, StubGame, Call("kick_role", current)) \in Connections
    BY <2>5, CallTypes, SentType
  <2>7. wire' \in Connections
    <3>1. \/ wire' = Received(g, StubGame) \/ wire' = kicked
          \/ current \in Roles /\ wire' = Sent(kicked, StubGame, Call("kick_role", current))
      BY <1>4, <2>3 DEF StubUpdateByRelay
    <3> QED BY <2>4, <2>5, <2>6, <3>1
  <2>8. acct2mb' \in [Ids -> Entities \cup {NoEntity}]
    BY <1>4, <2>2 DEF StubUpdateByRelay, TypeOK
  <2> QED BY <1>4, <2>7, <2>8 DEF StubUpdateByRelay, TypeOK
<1> QED BY <1>1, <1>2, <1>3, <1>4 DEF StubStep

(* The entities' handlers keep the types.                                  *)
LEMMA EntityKeepsType ==
  ASSUME TypeOK, NEW g \in Games, NEW h \in Games, EntityStep(g, h) PROVE TypeOK'
<1> USE DEF clientVars, stubVars, tableVars
<1> DEFINE m == Head(wire[<<g, h>>])
           Connections == [Games \X Games -> Seq(CallType)]
<1>1. CASE OnRegisterAccount(g, h)
  <2>1. m \in CallType /\ m.fn = "on_register_account" /\ Received(g, h) \in Connections
    BY <1>1, ReceivedType DEF OnRegisterAccount, Delivers
  <2>2. m.to \in Accounts /\ m.mb \in Entities  BY <2>1 DEF CallType
  <2>3. CASE m.ok
    <3>1. Issue(m.to, "load_role") /\ wire' = Received(g, h)
      BY <1>1, <2>3 DEF OnRegisterAccount
    <3> QED BY <1>1, <2>1, <2>2, <3>1, IssueType DEF OnRegisterAccount, TypeOK
  <2>4. CASE ~m.ok
    <3>1. [Call("on_relay_ready", m.mb) EXCEPT !.mb = m.to] \in CallType  BY <2>2, CallTypes
    <3>2. Sent(Received(g, h), h, [Call("on_relay_ready", m.mb) EXCEPT !.mb = m.to]) \in Connections
      BY <2>1, <3>1, SentType
    <3> QED BY <1>1, <2>4, <3>2 DEF OnRegisterAccount, TypeOK
  <2> QED BY <2>3, <2>4
<1>2. CASE AccountOnRelayReady(g, h)
  <2>1. /\ m \in CallType /\ m.fn = "on_relay_ready" /\ Received(g, h) \in Connections
        /\ m.to \in Accounts
    BY <1>2, ReceivedType DEF AccountOnRelayReady, Delivers
  <2>2. m.mb \in Accounts  BY <2>1 DEF CallType
  <2>3. Sent(Received(g, h), h, Call("on_relay_login", m.mb)) \in Connections
    BY <2>1, <2>2, CallTypes, SentType
  <2>4. wire' = Sent(Received(g, h), h, Call("on_relay_login", m.mb))
    BY <1>2 DEF AccountOnRelayReady, Answer
  <2>5. [account EXCEPT ![m.to].destroyed = TRUE] \in [Accounts -> AccountType]
    BY <2>1, AccountUpdates DEF TypeOK
  <2>6. told' \in [Clients -> SUBSET Commands]
    BY <1>2, TellType DEF AccountOnRelayReady, Commands
  <2> QED BY <1>2, <2>3, <2>4, <2>5, <2>6 DEF AccountOnRelayReady, TypeOK
<1>3. CASE RoleOnRelayReady(g, h)
  <2>1. /\ m \in CallType /\ m.fn = "on_relay_ready" /\ Received(g, h) \in Connections
        /\ m.to \in Roles
    BY <1>3, ReceivedType DEF RoleOnRelayReady, Delivers
  <2>2. m.mb \in Accounts /\ m.mb[2] \in Clients  BY <2>1, EntityFacts DEF CallType
  <2>3. Sent(Received(g, h), h, [Call("on_wait_login", m.mb) EXCEPT !.mb = m.to]) \in Connections
    BY <2>1, <2>2, CallTypes, SentType
  <2>4. [role EXCEPT ![m.to].status = "RELAY"] \in [Roles -> RoleType]
    BY <2>1, <2>2, RoleUpdates DEF Statuses
  <2>5. told' \in [Clients -> SUBSET Commands]
    BY <1>3, TellType DEF RoleOnRelayReady, KickCurrent, Commands
  <2>6. [c2e EXCEPT ![h][role[m.to].client] = NoEntity] \in [Games -> [Clients -> Entities \cup {NoEntity}]]
    BY DEF TypeOK
  <2> QED BY <1>3, <2>3, <2>4, <2>5, <2>6 DEF RoleOnRelayReady, TypeOK
<1>4. CASE OnWaitLogin(g, h)
  <2>1. m \in CallType /\ m.fn = "on_wait_login" /\ Received(g, h) \in Connections
    BY <1>4, ReceivedType DEF OnWaitLogin, Delivers
  <2>2. m.to \in Accounts /\ m.mb \in Roles /\ m.to[2] \in Clients
    BY <2>1, EntityFacts DEF CallType
  <2>3. Sent(Received(g, h), h, [Call("on_relay_login", m.mb) EXCEPT !.client = m.to[2]]) \in Connections
    BY <2>1, <2>2, CallTypes, SentType
  <2>4. wire' = Sent(Received(g, h), h, [Call("on_relay_login", m.mb) EXCEPT !.client = m.to[2]])
    BY <1>4 DEF OnWaitLogin, Answer
  <2>5. account[m.to].id \in Ids  BY <2>2 DEF TypeOK, AccountType
  <2>6. [account EXCEPT ![m.to].destroyed = TRUE] \in [Accounts -> AccountType]
    BY <2>2, AccountUpdates
  <2> QED BY <1>4, <2>3, <2>4, <2>6 DEF OnWaitLogin, TypeOK
<1>5. CASE AccountOnRelayLogin(g, h)
  <2>1. Received(g, h) \in Connections /\ m.to \in Accounts
    BY <1>5, ReceivedType DEF AccountOnRelayLogin
  <2>2. CASE account[m.to].destroyed  BY <1>5, <2>1, <2>2 DEF AccountOnRelayLogin, TypeOK
  <2>3. CASE ~account[m.to].destroyed
    <3>1. Issue(m.to, "load_role") /\ wire' = Received(g, h)
      BY <1>5, <2>3 DEF AccountOnRelayLogin
    <3> QED BY <1>5, <2>1, <3>1, IssueType DEF AccountOnRelayLogin, TypeOK
  <2> QED BY <2>2, <2>3
<1>6. CASE RoleOnRelayLogin(g, h)
  <2>1. /\ m \in CallType /\ m.fn = "on_relay_login" /\ Received(g, h) \in Connections
        /\ m.to \in Roles
    BY <1>6, ReceivedType DEF RoleOnRelayLogin, Delivers
  <2>2. m.client \in Clients  BY <2>1, EntityFacts DEF CallType
  <2>3. role[m.to].id \in Ids /\ role[m.to].rid \in Ids  BY <2>1 DEF TypeOK, RoleType
  <2>4. Sent(Received(g, h), h, [Call("update_by_relay", Stub) EXCEPT
                                   !.id = role[m.to].id, !.rid = role[m.to].rid, !.mb = m.to])
          \in Connections
    BY <2>1, <2>3, CallTypes, SentType
  <2>5. [role EXCEPT ![m.to].status = "NORMAL", ![m.to].client = m.client] \in [Roles -> RoleType]
    <3>1. "NORMAL" \in Statuses  BY DEF Statuses
    <3> HIDE DEF m
    <3> QED BY <2>1, <2>2, <3>1, RoleUpdates
  <2>6. told' \in [Clients -> SUBSET Commands]
    BY <1>6, TellType DEF RoleOnRelayLogin, Commands
  <2>7. [c2e EXCEPT ![h][m.client] = m.to] \in [Games -> [Clients -> Entities \cup {NoEntity}]]
    BY <2>1, <2>2 DEF TypeOK, Entities
  <2>8. [down EXCEPT ![h] = @ + 1] \in [Games -> Nat]  BY DEF TypeOK
  <2> QED BY <1>6, <2>4, <2>5, <2>6, <2>7, <2>8 DEF RoleOnRelayLogin, TypeOK
<1>7. CASE OnRegisterRole(g, h)
  <2>1. m \in CallType /\ m.fn = "on_register_role" /\ Received(g, h) \in Connections
    BY <1>7, ReceivedType DEF OnRegisterRole, Delivers
  <2>2. m.to \in Roles  BY <2>1 DEF CallType
  <2>3. [role EXCEPT ![m.to].status = "NORMAL"] \in [Roles -> RoleType]
    <3>1. role[m.to] \in RoleType  BY <2>2 DEF TypeOK
    <3>2. [role[m.to] EXCEPT !.status = "NORMAL"] \in RoleType  BY <3>1 DEF RoleType, Statuses
    <3> QED BY <2>2, <3>2 DEF TypeOK
  <2>4. role' \in [Roles -> RoleType]  BY <1>7, <2>3 DEF OnRegisterRole, TypeOK
  <2>5. told' \in [Clients -> SUBSET Commands]
    <3>1. /\ "success" \in Commands /\ "refused" \in Commands  BY DEF Commands
    <3>2. \/ UNCHANGED told \/ Tell(role[m.to].client, "success") \/ Tell(role[m.to].client, "refused")
      BY <1>7 DEF OnRegisterRole
    <3>3. CASE UNCHANGED told  BY <3>3 DEF TypeOK
    <3> QED BY <3>1, <3>2, <3>3, TellType
  <2> QED BY <1>7, <2>1, <2>4, <2>5 DEF OnRegisterRole, TypeOK
<1> QED BY <1>1, <1>2, <1>3, <1>4, <1>5, <1>6, <1>7 DEF EntityStep

(* Every step keeps the types.                                             *)
LEMMA NextKeepsType == TypeOK /\ [Next]_vars => TypeOK'
<1> SUFFICES ASSUME TypeOK, [Next]_vars PROVE TypeOK'  OBVIOUS
<1>1. CASE Next
  BY <1>1, GateKeepsType, TransferKeepsType, StubKeepsType, EntityKeepsType,
     ExecuteKeepsType, CallbackKeepsType DEF Next
<1>2. CASE UNCHANGED vars  BY <1>2 DEF vars, TypeOK
<1> QED BY <1>1, <1>2

(* Whatever the games, the clients, the users and the faults of the        *)
(* databases, no handler puts a value of the wrong type into the state:    *)
(* no call reaches an entity with a mailbox of a kind its handler cannot   *)
(* use, and no account is left without an id once its row is looked for.   *)
THEOREM TypeCorrect == Spec => []TypeOK
BY InitType, NextKeepsType, PTL DEF Spec

-----------------------------------------------------------------------------
(* What no step takes back: an entity that was made, the id of a role, and *)
(* the registration of a role.                                             *)
Grows ==
  /\ \A a \in Accounts : account[a].home # NoGame => account'[a].home # NoGame
  /\ \A r \in Roles : role[r].home # NoGame => role'[r].home # NoGame /\ role'[r].rid = role[r].rid
  /\ \A i \in Ids : role2mb[i] # NoEntity => role2mb'[i] = role2mb[i]

(* So what was made, registered or promised stays so.                      *)
LEMMA HoldersStay ==
  ASSUME TypeOK, Grows
  PROVE  /\ \A a : Made(a) => Made(a)'
         /\ \A r : Registered(r) => Registered(r)'
         /\ \A e : Holder(e) => Holder(e)'
<1>1. \A a : Made(a) => Made(a)'  BY DEF Made, Grows
<1>2. ASSUME NEW r, Registered(r) PROVE Registered(r)'
  <2>1. r \in Roles /\ role[r].home # NoGame /\ role2mb[role[r].rid] = r  BY <1>2 DEF Registered
  <2>2. role[r].rid \in Ids /\ r # NoEntity  BY <2>1, EntityFacts DEF TypeOK, RoleType
  <2>3. role'[r].rid = role[r].rid /\ role'[r].home # NoGame  BY <2>1 DEF Grows
  <2>4. role2mb'[role[r].rid] = role2mb[role[r].rid]  BY <2>1, <2>2 DEF Grows
  <2> QED BY <2>1, <2>3, <2>4 DEF Registered
<1> QED BY <1>1, <1>2 DEF Holder

LEMMA PromisesStay ==
  ASSUME TypeOK, Grows, NEW m, CallOK(m) PROVE CallOK(m)'
<1>1. \A a : Made(a) => Made(a)'  BY HoldersStay
<1>2. \A r : Registered(r) => Registered(r)'  BY HoldersStay
<1>3. \A e : Holder(e) => Holder(e)'  BY HoldersStay
<1>4. \A r \in Roles : r # NoEntity  BY EntityFacts
<1>5. CASE m.fn = "register_account"  BY <1>1, <1>5 DEF CallOK
<1>6. CASE m.fn = "unregister_account"  BY <1>6 DEF CallOK
<1>7. CASE m.fn = "register_role"  BY <1>7 DEF CallOK, Grows
<1>8. CASE m.fn = "update_by_relay"  BY <1>4, <1>8 DEF CallOK, Grows
<1>9. CASE m.fn = "on_register_account"  BY <1>1, <1>3, <1>9 DEF CallOK
<1>10. CASE m.fn = "on_relay_ready"  BY <1>1, <1>3, <1>10 DEF CallOK
<1>11. CASE m.fn = "on_wait_login"  BY <1>1, <1>2, <1>11 DEF CallOK
<1>12. CASE m.fn = "on_relay_login"  BY <1>1, <1>2, <1>12 DEF CallOK
<1>13. CASE m.fn = "on_register_role"  BY <1>2, <1>13 DEF CallOK, Grows
<1> QED BY <1>5, <1>6, <1>7, <1>8, <1>9, <1>10, <1>11, <1>12, <1>13 DEF CallOK

(* A part of the invariant is kept by every step that leaves its variables *)
(* alone.                                                                  *)
LEMMA PartsStay ==
  ASSUME TypeOK, IInv, Grows
  PROVE  /\ \A m \in InFlight : CallOK(m)'
         /\ UNCHANGED acct2mb => AccountMapIsSound' /\ AccountEntryNamesRegisteredRole'
         /\ UNCHANGED role2mb => RoleMapIsSound'
         /\ (\A q \in db' : q \in db \/ Made(q.who)) => RequestsHaveOwners'
         /\ UNCHANGED c2e => ClientsHaveAccounts'
         /\ UNCHANGED role => OnlyRegisteredRoleIsActive'
<1>1. \A m \in InFlight : CallOK(m)'  BY PromisesStay DEF IInv, CallsAreSound
<1>2. UNCHANGED acct2mb => AccountMapIsSound'
  <2>1. \A e : Holder(e) => Holder(e)'  BY HoldersStay
  <2> QED BY <2>1 DEF IInv, AccountMapIsSound, Holder, Made, Registered
<1>3. UNCHANGED acct2mb => AccountEntryNamesRegisteredRole'
  <2>1. \A i \in Ids : acct2mb[i] \in Roles => Registered(acct2mb[i])
    BY EntityFacts DEF IInv, AccountMapIsSound, Holder, Made
  <2> QED BY <2>1, HoldersStay DEF AccountEntryNamesRegisteredRole, Registered
<1>4. UNCHANGED role2mb => RoleMapIsSound'
  <2> SUFFICES ASSUME UNCHANGED role2mb, NEW i \in Ids, role2mb[i] # NoEntity
               PROVE  role'[role2mb[i]].home # NoGame /\ role'[role2mb[i]].rid = i
    BY DEF RoleMapIsSound
  <2>1. role2mb[i] \in Roles
    BY DEF TypeOK
  <2>2. role[role2mb[i]].home # NoGame /\ role[role2mb[i]].rid = i
    BY DEF IInv, RoleMapIsSound
  <2> QED
    BY <2>1, <2>2 DEF Grows
<1>5. (\A q \in db' : q \in db \/ Made(q.who)) => RequestsHaveOwners'
  BY HoldersStay DEF IInv, RequestsHaveOwners, Made
<1>6. UNCHANGED c2e => ClientsHaveAccounts'
  BY HoldersStay DEF IInv, ClientsHaveAccounts, Made
<1>7. UNCHANGED role => OnlyRegisteredRoleIsActive'
  BY EntityFacts DEF IInv, OnlyRegisteredRoleIsActive, Grows, TypeOK, RoleType
<1> QED BY <1>1, <1>2, <1>3, <1>4, <1>5, <1>6, <1>7

(* What is under way after a call is sent, and after one is taken.         *)
LEMMA SentCalls ==
  ASSUME NEW w \in [Games \X Games -> Seq(CallType)], NEW g, NEW m \in CallType
  PROVE  \A x \in CallsIn(Sent(w, g, m)) : x \in CallsIn(w) \/ x = m
<1> DEFINE l == <<g, HomeOf(m.to)>>
<1> SUFFICES ASSUME NEW x \in CallsIn(Sent(w, g, m)) PROVE x \in CallsIn(w) \/ x = m
  OBVIOUS
<1>1. PICK k \in Games \X Games : \E i \in DOMAIN Sent(w, g, m)[k] : x = Sent(w, g, m)[k][i]
  BY DEF CallsIn
<1>2. PICK i \in DOMAIN Sent(w, g, m)[k] : x = Sent(w, g, m)[k][i]
  BY <1>1
<1>3. CASE k = l
  <2>1. Sent(w, g, m)[k] = Append(w[k], m) /\ w[k] \in Seq(CallType)  BY <1>3 DEF Sent
  <2>2. (i \in DOMAIN w[k] /\ x = w[k][i]) \/ x = m
    BY <1>2, <2>1
  <2> QED BY <2>2 DEF CallsIn
<1>4. CASE k # l
  <2>1. Sent(w, g, m)[k] = w[k]  BY <1>4 DEF Sent
  <2> QED BY <1>2, <2>1 DEF CallsIn
<1> QED BY <1>3, <1>4

LEMMA ReceivedCalls ==
  ASSUME TypeOK, NEW g \in Games, NEW h \in Games, NEW fn, Delivers(g, h, fn)
  PROVE  /\ CallsIn(Received(g, h)) \subseteq InFlight
         /\ Head(wire[<<g, h>>]) \in InFlight
<1> DEFINE l == <<g, h>>
<1>1. wire \in [Games \X Games -> Seq(CallType)] /\ wire[l] # <<>> /\ wire[l] \in Seq(CallType)
  BY DEF TypeOK, Delivers
<1>2. Head(wire[l]) = wire[l][1] /\ 1 \in DOMAIN wire[l]  BY <1>1
<1>3. Head(wire[l]) \in InFlight  BY <1>2 DEF InFlight, CallsIn
<1>4. ASSUME NEW x \in CallsIn(Received(g, h)) PROVE x \in InFlight
  <2>0. PICK k \in Games \X Games : \E i \in DOMAIN Received(g, h)[k] : x = Received(g, h)[k][i]
    BY <1>4 DEF CallsIn
  <2>1. PICK i \in DOMAIN Received(g, h)[k] : x = Received(g, h)[k][i]  BY <2>0
  <2>2. CASE k = l
    <3>1. Received(g, h)[k] = Tail(wire[l])  BY <1>1, <2>2 DEF Received
    <3>2. i + 1 \in DOMAIN wire[l] /\ x = wire[l][i + 1]  BY <1>1, <2>1, <3>1
    <3> QED BY <3>2 DEF InFlight, CallsIn
  <2>3. CASE k # l
    <3>1. Received(g, h)[k] = wire[k]  BY <1>1, <2>3 DEF Received
    <3> QED BY <2>1, <3>1 DEF InFlight, CallsIn
  <2> QED BY <2>2, <2>3
<1> QED BY <1>3, <1>4

LEMMA AnsweredCalls ==
  ASSUME TypeOK, NEW g \in Games, NEW h \in Games, NEW fn, Delivers(g, h, fn), NEW m \in CallType
  PROVE  \A x \in CallsIn(Sent(Received(g, h), h, m)) : x \in InFlight \/ x = m
BY ReceivedType, ReceivedCalls, SentCalls

(* A step that changes neither the stub's maps nor a role keeps the        *)
(* invariant when the calls it sends and the requests it makes are sound.  *)
LEMMA QuietStep ==
  ASSUME TypeOK, IInv, Grows, UNCHANGED <<acct2mb, role2mb, role>>,
         \A x \in CallsIn(wire') : x \in InFlight \/ CallOK(x)',
         \A q \in db' : q \in db \/ Made(q.who),
         \A g \in Games, c \in Clients : c2e'[g][c] = c2e[g][c] \/ c2e'[g][c] \notin Accounts
  PROVE  IInv'
<1>1. CallsAreSound'  BY PartsStay DEF CallsAreSound, InFlight, CallsIn
<1>2. RoleMapIsSound' /\ AccountMapIsSound' /\ AccountEntryNamesRegisteredRole'
  BY PartsStay
<1>3. RequestsHaveOwners' /\ OnlyRegisteredRoleIsActive'  BY PartsStay
<1>4. ClientsHaveAccounts'
  BY HoldersStay DEF IInv, ClientsHaveAccounts, Made
<1> QED BY <1>1, <1>2, <1>3, <1>4 DEF IInv

(* Nothing is sent and nobody is made.                                     *)
LEMMA SilentStep ==
  ASSUME TypeOK, IInv, Grows, UNCHANGED <<acct2mb, role2mb, role, c2e>>,
         CallsIn(wire') \subseteq InFlight, db' \subseteq db
  PROVE  IInv'
BY QuietStep

LEMMA GateKeepsIInv == ASSUME TypeOK, IInv, GateStep PROVE IInv'
<1>1. UNCHANGED <<wire, c2e, account, role, acct2mb, role2mb, db>>
  BY DEF GateStep, ProcessLogin, ProcessCreateRole, OnClientDisconnect,
         UpdateClientProcessInfo, stubVars
<1>2. Grows  BY <1>1 DEF Grows
<1> QED BY <1>1, <1>2, SilentStep DEF InFlight

(* An account changed in anything but its home.                            *)
LEMMA HomesStay ==
  ASSUME UNCHANGED <<role, role2mb>>, \A a \in Accounts : account'[a].home = account[a].home
  PROVE  Grows
BY DEF Grows

LEMMA IssueFacts ==
  ASSUME TypeOK, NEW a \in Accounts, NEW op, Issue(a, op)
  PROVE  /\ \A b \in Accounts : account'[b].home = account[b].home
         /\ Made(a) => \A q \in db' : q \in db \/ Made(q.who)
<1>1. \A q \in db' : q \in db \/ q.who = a  BY DEF Issue, Request
<1>2. account' = [account EXCEPT ![a].opts = @ + 1]  BY DEF Issue
<1>3. \A b \in Accounts : account'[b].home = account[b].home
  BY <1>2 DEF TypeOK, AccountType
<1> QED BY <1>1, <1>3

LEMMA ChangedFacts ==
  ASSUME TypeOK, NEW a \in Accounts
  PROVE  \A b \in Accounts : [account EXCEPT ![a].destroyed = TRUE][b].home = account[b].home
BY DEF TypeOK, AccountType

LEMMA TransferKeepsIInv ==
  ASSUME TypeOK, IInv, NEW g \in Games, TransferStep(g) PROVE IInv'
<1> USE DEF stubVars
<1>1. CASE CreateAccountEntity(g)
  <2>1. up[g] # <<>> /\ Taken(g) /\ UNCHANGED <<wire, role, acct2mb, role2mb>>
    BY <1>1 DEF CreateAccountEntity, Arrives
  <2>2. Sender(g) \in Clients  BY <2>1, TakenType
  <2>3. PICK n \in 1..MaxLogin, i \in Ids, j \in Ids :
          LET a == <<"account", Sender(g), n>> IN
            /\ account[a].home = NoGame
            /\ account' = [account EXCEPT ![a].home = g, ![a].id = i, ![a].rid = j, ![a].opts = 1]
            /\ c2e' = [c2e EXCEPT ![g][Sender(g)] = a]
            /\ db' = db \cup {Request(a, "load_account", 1, NewId)}
    BY <1>1 DEF CreateAccountEntity
  <2> DEFINE a == <<"account", Sender(g), n>>
  <2>4. a \in Accounts  BY <2>2, EntityFacts
  <2>5. /\ account'[a].home = g
        /\ \A b \in Accounts : b # a => account'[b].home = account[b].home
    BY <2>3, <2>4 DEF TypeOK, AccountType
  <2>6. g # NoGame  BY ConstantsAssumption
  <2>7. Grows  BY <2>1, <2>5, <2>6 DEF Grows
  <2>8. CallsAreSound'  BY <2>1, <2>7, PartsStay DEF CallsAreSound, InFlight, CallsIn
  <2>9. /\ RoleMapIsSound' /\ AccountMapIsSound' /\ AccountEntryNamesRegisteredRole'
        /\ OnlyRegisteredRoleIsActive'
    BY <2>1, <2>7, PartsStay
  <2>10. RequestsHaveOwners'
    <3>1. \A q \in db' : q \in db \/ q.who = a  BY <2>3 DEF Request
    <3>2. \A q \in db : Made(q.who)  BY DEF IInv, RequestsHaveOwners
    <3> QED BY <2>4, <2>5, <2>6, <2>7, <3>1, <3>2, HoldersStay DEF RequestsHaveOwners, Made
  <2>11. ClientsHaveAccounts'
    <3>1. \A h \in Games, c \in Clients : c2e'[h][c] = c2e[h][c] \/ c2e'[h][c] = a
      BY <2>3 DEF TypeOK
    <3> QED BY <2>4, <2>5, <2>6, <2>7, <3>1, HoldersStay DEF IInv, ClientsHaveAccounts, Made
  <2> QED BY <2>8, <2>9, <2>10, <2>11 DEF IInv
<1>2. CASE LoginAgain(g) \/ CreateRole(g)
  <2>1. up[g] # <<>> /\ Taken(g) /\ Current(g) \in Accounts
        /\ UNCHANGED <<wire, c2e, role, acct2mb, role2mb>>
    BY <1>2 DEF LoginAgain, CreateRole, Arrives
  <2>2. Sender(g) \in Clients  BY <2>1, TakenType
  <2>3. Made(Current(g))  BY <2>1, <2>2 DEF IInv, ClientsHaveAccounts, Current
  <2>4. Issue(Current(g), "load_account") \/ Issue(Current(g), "insert_role")
    BY <1>2 DEF LoginAgain, CreateRole
  <2>5. \A b \in Accounts : account'[b].home = account[b].home  BY <2>1, <2>4, IssueFacts
  <2>6. \A q \in db' : q \in db \/ Made(q.who)  BY <2>1, <2>3, <2>4, IssueFacts
  <2>7. Grows  BY <2>1, <2>5, HomesStay
  <2> QED BY <2>1, <2>6, <2>7, QuietStep DEF InFlight
<1>3. CASE DisconnectAccount(g)
  <2>1. up[g] # <<>> /\ Taken(g) /\ Current(g) \in Accounts
        /\ UNCHANGED <<c2e, role, acct2mb, role2mb, db>>
    BY <1>3 DEF DisconnectAccount, Arrives
  <2>2. CASE account[Current(g)].destroyed
    <3>1. UNCHANGED <<account, wire>>  BY <1>3, <2>2 DEF DisconnectAccount
    <3> QED BY <2>1, <3>1, HomesStay, SilentStep DEF InFlight
  <2>3. CASE ~account[Current(g)].destroyed
    <3>1. account[Current(g)].id \in Ids  BY <2>1 DEF TypeOK, AccountType
    <3>2. PICK m : m = [Call("unregister_account", Stub) EXCEPT !.id = account[Current(g)].id]
      OBVIOUS
    <3>3. m \in CallType  BY <3>1, <3>2, CallTypes
    <3>4. m.fn = "unregister_account" /\ m.to = Stub /\ m.id \in Ids  BY <3>1, <3>2 DEF Call
    <3>5. CallOK(m)'  BY <3>4 DEF CallOK
    <3>6. wire' = Sent(wire, g, m) /\ account' = [account EXCEPT ![Current(g)].destroyed = TRUE]
      BY <1>3, <2>3, <3>2 DEF DisconnectAccount
    <3>7. \A x \in CallsIn(wire') : x \in InFlight \/ CallOK(x)'
      <4>1. \A x \in CallsIn(wire') : x \in CallsIn(wire) \/ x = m
        BY <3>3, <3>6, SentCalls DEF TypeOK
      <4> QED BY <3>5, <4>1 DEF InFlight
    <3>8. Grows  BY <2>1, <3>6, ChangedFacts, HomesStay
    <3> QED BY <2>1, <3>7, <3>8, QuietStep
  <2> QED BY <2>2, <2>3
<1>4. CASE DisconnectRole(g)
  <2>1. up[g] # <<>> /\ Taken(g) /\ Current(g) \in Roles
        /\ UNCHANGED <<wire, c2e, account, acct2mb, role2mb, db>>
    BY <1>4 DEF DisconnectRole, Arrives
  <2>2. \/ UNCHANGED role \/ role' = [role EXCEPT ![Current(g)].status = "DISCONNECT"]
    BY <1>4 DEF DisconnectRole
  <2>3. \A r \in Roles : /\ role'[r].home = role[r].home /\ role'[r].rid = role[r].rid
                         /\ role'[r].status \in {role[r].status, "DISCONNECT"}
    <3>1. role \in [Roles -> RoleType] /\ \A r \in Roles : role[r] \in RoleType  BY DEF TypeOK
    <3> HIDE DEF TypeOK
    <3> QED BY <2>1, <2>2, <3>1 DEF RoleType
  <2>4. Grows  BY <2>1, <2>3 DEF Grows
  <2>5. OnlyRegisteredRoleIsActive'  BY <2>1, <2>3 DEF IInv, OnlyRegisteredRoleIsActive
  <2>6. CallsAreSound'  BY <2>1, <2>4, PartsStay DEF CallsAreSound, InFlight, CallsIn
  <2> QED BY <2>1, <2>4, <2>5, <2>6, PartsStay DEF IInv
<1>5. CASE DropTransfer(g)
  <2>1. UNCHANGED <<wire, c2e, account, role, acct2mb, role2mb, db>>
    BY <1>5 DEF DropTransfer
  <2> QED BY <2>1, HomesStay, SilentStep DEF InFlight
<1> QED BY <1>1, <1>2, <1>3, <1>4, <1>5 DEF TransferStep

(* The head of a connection keeps its promise.                             *)
LEMMA HeadIsSound ==
  ASSUME TypeOK, IInv, NEW g \in Games, NEW h \in Games, NEW fn, Delivers(g, h, fn),
         NEW m, m = Head(wire[<<g, h>>])
  PROVE  /\ m \in CallType /\ m.fn = fn /\ CallOK(m)
         /\ Received(g, h) \in [Games \X Games -> Seq(CallType)]
         /\ CallsIn(Received(g, h)) \subseteq InFlight
BY ReceivedType, ReceivedCalls DEF IInv, CallsAreSound, Delivers

(* An answer that keeps its promise leaves every call under way sound.     *)
LEMMA AnswerIsSound ==
  ASSUME TypeOK, NEW g \in Games, NEW h \in Games, NEW fn, Delivers(g, h, fn),
         NEW x \in CallType, CallOK(x)', wire' = Sent(Received(g, h), h, x)
  PROVE  \A y \in CallsIn(wire') : y \in InFlight \/ CallOK(y)'
<1>1. \A y \in CallsIn(wire') : y \in InFlight \/ y = x  BY AnsweredCalls
<1> QED BY <1>1

LEMMA StubKeepsIInv ==
  ASSUME TypeOK, IInv, NEW g \in Games, StubStep(g) PROVE IInv'
<1> USE DEF stubVars
<1>0. StubGame \in Games  BY ConstantsAssumption
<1>1. PICK m : m = Head(wire[<<g, StubGame>>])  OBVIOUS
<1>2. CASE StubRegisterAccount(g)
  <2>1. Delivers(g, StubGame, "register_account")  BY <1>2 DEF StubRegisterAccount
  <2>2. m \in CallType /\ m.id \in Ids /\ Made(m.mb)
    BY <1>0, <1>1, <2>1, HeadIsSound DEF CallOK
  <2>3. PICK x : x = RegisterReply(m, acct2mb[m.id])  OBVIOUS
  <2>4. /\ acct2mb' = [acct2mb EXCEPT ![m.id] = m.mb]
        /\ wire' = Sent(Received(g, StubGame), StubGame, x)
        /\ UNCHANGED <<c2e, account, role, role2mb, db>>
    BY <1>1, <1>2, <2>3 DEF StubRegisterAccount, HolderAfter
  <2>5. Grows  BY <2>4, HomesStay
  <2>6. acct2mb[m.id] \in Entities \cup {NoEntity}  BY <2>2 DEF TypeOK
  <2>7. m.mb \in Accounts  BY <2>2 DEF Made
  <2>8. x \in CallType  BY <2>3, <2>6, <2>7, CallTypes DEF RegisterReply
  <2>9. Holder(m.mb) /\ (acct2mb[m.id] # NoEntity => Holder(acct2mb[m.id]))
    BY <2>2 DEF IInv, AccountMapIsSound, Holder
  <2>10. /\ x.fn = "on_register_account" /\ x.to = m.mb
         /\ x.mb = m.mb \/ (acct2mb[m.id] # NoEntity /\ x.mb = acct2mb[m.id])
    BY <2>3 DEF RegisterReply, Call
  <2>11. CallOK(x)
    BY <2>2, <2>9, <2>10 DEF CallOK
  <2>12. CallOK(x)'  BY <2>5, <2>11, PromisesStay
  <2>13. \A y \in CallsIn(wire') : y \in InFlight \/ CallOK(y)'
    BY <1>0, <2>1, <2>4, <2>8, <2>12, AnswerIsSound
  <2>14. CallsAreSound'  BY <2>5, <2>13, PartsStay DEF CallsAreSound, InFlight, CallsIn
  <2>15. \A i \in Ids : acct2mb'[i] = acct2mb[i] \/ acct2mb'[i] = m.mb
    BY <2>4 DEF TypeOK
  <2>16. AccountMapIsSound'
    BY <2>5, <2>9, <2>15, HoldersStay DEF IInv, AccountMapIsSound, Holder, Made, Registered
  <2>17. AccountEntryNamesRegisteredRole'
    BY <2>4, <2>7, <2>15, EntityFacts DEF IInv, AccountEntryNamesRegisteredRole
  <2> QED BY <2>4, <2>5, <2>14, <2>16, <2>17, PartsStay DEF IInv
<1>3. CASE StubUnregisterAccount(g)
  <2>1. Delivers(g, StubGame, "unregister_account")  BY <1>3 DEF StubUnregisterAccount
  <2>2. /\ acct2mb' = [acct2mb EXCEPT ![m.id] = NoEntity]
        /\ wire' = Received(g, StubGame)
        /\ UNCHANGED <<c2e, account, role, role2mb, db>>
    BY <1>1, <1>3 DEF StubUnregisterAccount
  <2>3. Grows  BY <2>2, HomesStay
  <2>4. CallsIn(wire') \subseteq InFlight  BY <1>0, <1>1, <2>1, <2>2, HeadIsSound
  <2>5. CallsAreSound'  BY <2>3, <2>4, PartsStay DEF CallsAreSound, InFlight, CallsIn
  <2>6. \A i \in Ids : acct2mb'[i] = acct2mb[i] \/ acct2mb'[i] = NoEntity
    BY <2>2 DEF TypeOK
  <2>7. AccountMapIsSound'
    BY <2>3, <2>6, HoldersStay DEF IInv, AccountMapIsSound, Holder, Made, Registered
  <2>8. AccountEntryNamesRegisteredRole'
    BY <2>2, <2>6, EntityFacts DEF IInv, AccountEntryNamesRegisteredRole
  <2> QED BY <2>2, <2>3, <2>5, <2>7, <2>8, PartsStay DEF IInv
<1>4. CASE StubRegisterRole(g)
  <2>1. Delivers(g, StubGame, "register_role")  BY <1>4 DEF StubRegisterRole
  <2>2. /\ m.id \in Ids /\ m.rid \in Ids /\ m.mb \in Roles /\ m.mb # NoEntity
        /\ role[m.mb].home # NoGame /\ role[m.mb].rid = m.rid
    BY <1>0, <1>1, <2>1, HeadIsSound, EntityFacts DEF CallOK
  <2>3. PICK x : x = [Call("on_register_role", m.mb) EXCEPT !.ok = AcceptsRole(m)]  OBVIOUS
  <2>4. /\ acct2mb' = [acct2mb EXCEPT ![m.id] = EntryAfterRole(m)]
        /\ role2mb' = IF AcceptsRole(m) THEN [role2mb EXCEPT ![m.rid] = m.mb] ELSE role2mb
        /\ wire' = Sent(Received(g, StubGame), StubGame, x)
        /\ UNCHANGED <<c2e, account, role, db>>
    BY <1>1, <1>4, <2>3 DEF StubRegisterRole
  <2>5. x \in CallType /\ x.fn = "on_register_role" /\ x.to = m.mb /\ x.ok = AcceptsRole(m)
    <3>1. AcceptsRole(m) \in BOOLEAN  BY DEF AcceptsRole
    <3>2. x \in CallType  BY <2>2, <2>3, <3>1, CallTypes
    <3> QED BY <2>3, <3>2 DEF Call
  <2>6. \A i \in Ids : role2mb'[i] = role2mb[i] \/ (i = m.rid /\ AcceptsRole(m) /\ role2mb'[i] = m.mb)
    BY <2>4 DEF TypeOK
  <2>7. Grows  BY <2>4, <2>6 DEF Grows, AcceptsRole
  <2>8. AcceptsRole(m) => role2mb'[m.rid] = m.mb  BY <2>2, <2>4 DEF TypeOK
  <2>9. AcceptsRole(m) => Registered(m.mb)'  BY <2>2, <2>4, <2>8 DEF Registered
  <2>10. CallOK(x)'
    <3>1. x.ok => Registered(m.mb)'  BY <2>5, <2>9
    <3>2. role'[m.mb].home # NoGame  BY <2>2, <2>4
    <3> QED BY <2>2, <2>5, <3>1, <3>2 DEF CallOK
  <2>11. \A y \in CallsIn(wire') : y \in InFlight \/ CallOK(y)'
    BY <1>0, <2>1, <2>4, <2>5, <2>10, AnswerIsSound
  <2>12. CallsAreSound'  BY <2>7, <2>11, PartsStay DEF CallsAreSound, InFlight, CallsIn
  <2>13. RoleMapIsSound'
    BY <2>2, <2>4, <2>6 DEF IInv, RoleMapIsSound
  <2>14. \A i \in Ids : acct2mb'[i] = acct2mb[i] \/ (i = m.id /\ AcceptsRole(m) /\ acct2mb'[i] = m.mb)
    <3>1. \/ EntryAfterRole(m) = acct2mb[m.id] \/ (AcceptsRole(m) /\ EntryAfterRole(m) = m.mb)
      BY DEF EntryAfterRole
    <3>2. acct2mb \in [Ids -> Entities \cup {NoEntity}]  BY DEF TypeOK
    <3>3. acct2mb' = [acct2mb EXCEPT ![m.id] = EntryAfterRole(m)]  BY <2>4
    <3> QED BY <2>2, <3>1, <3>2, <3>3
  <2>15. AccountMapIsSound'
    BY <2>7, <2>9, <2>14, HoldersStay DEF IInv, AccountMapIsSound, Holder, Made, Registered
  <2>16. AccountEntryNamesRegisteredRole'
    BY <2>15, EntityFacts DEF AccountMapIsSound, AccountEntryNamesRegisteredRole, Holder, Made, Registered
  <2> QED BY <2>4, <2>7, <2>12, <2>13, <2>15, <2>16, PartsStay DEF IInv
<1>5. CASE StubUpdateByRelay(g)
  <2>1. Delivers(g, StubGame, "update_by_relay")  BY <1>5 DEF StubUpdateByRelay
  <2>2. m.id \in Ids /\ m.rid \in Ids /\ m.mb \in Roles /\ role2mb[m.rid] = m.mb
    BY <1>0, <1>1, <2>1, HeadIsSound DEF CallOK
  <2>3. /\ acct2mb' = [acct2mb EXCEPT ![m.id] = m.mb]
        /\ wire' = Received(g, StubGame)
        /\ UNCHANGED <<c2e, account, role, role2mb, db>>
    <3>1. /\ role2mb[Head(wire[<<g, StubGame>>]).rid] = Head(wire[<<g, StubGame>>]).mb
          /\ Head(wire[<<g, StubGame>>]).mb # NoEntity
      BY <1>1, <2>2, EntityFacts
    <3>2. acct2mb' = [acct2mb EXCEPT ![m.id] = m.mb]
      BY <1>1, <1>5, <2>2 DEF StubUpdateByRelay
    <3>3. wire' = Received(g, StubGame)
      BY <1>5, <3>1 DEF StubUpdateByRelay
    <3> QED BY <1>5, <3>2, <3>3 DEF StubUpdateByRelay
  <2>4. Grows  BY <2>3, HomesStay
  <2>5. CallsIn(wire') \subseteq InFlight  BY <1>0, <1>1, <2>1, <2>3, HeadIsSound
  <2>6. CallsAreSound'  BY <2>4, <2>5, PartsStay DEF CallsAreSound, InFlight, CallsIn
  <2>7. \A i \in Ids : acct2mb'[i] = acct2mb[i] \/ (i = m.id /\ acct2mb'[i] = m.mb)
    BY <2>3 DEF TypeOK
  <2>8. Registered(m.mb)
    BY <2>2, EntityFacts DEF IInv, RoleMapIsSound, Registered
  <2>9. AccountMapIsSound'
    BY <2>4, <2>7, <2>8, HoldersStay DEF IInv, AccountMapIsSound, Holder, Made, Registered
  <2>10. AccountEntryNamesRegisteredRole'
    BY <2>9, EntityFacts DEF AccountMapIsSound, AccountEntryNamesRegisteredRole, Holder, Made, Registered
  <2> QED BY <2>3, <2>4, <2>6, <2>9, <2>10, PartsStay DEF IInv
<1> QED BY <1>2, <1>3, <1>4, <1>5 DEF StubStep

LEMMA EntityKeepsIInv ==
  ASSUME TypeOK, IInv, NEW g \in Games, NEW h \in Games, EntityStep(g, h) PROVE IInv'
<1> USE DEF stubVars
<1>1. PICK m : m = Head(wire[<<g, h>>])  OBVIOUS
<1>2. CASE OnRegisterAccount(g, h)
  <2>1. Delivers(g, h, "on_register_account")  BY <1>2 DEF OnRegisterAccount
  <2>2. /\ m \in CallType /\ CallsIn(Received(g, h)) \subseteq InFlight
        /\ Made(m.to) /\ Holder(m.mb) /\ m.to \in Accounts /\ m.mb \in Entities
    BY <1>1, <2>1, HeadIsSound DEF CallOK, CallType
  <2>3. UNCHANGED <<c2e, role, acct2mb, role2mb>>  BY <1>2 DEF OnRegisterAccount
  <2>4. CASE m.ok
    <3>1. wire' = Received(g, h) /\ Issue(m.to, "load_role")
      BY <1>1, <1>2, <2>4 DEF OnRegisterAccount
    <3>2. Grows  BY <2>2, <2>3, <3>1, IssueFacts, HomesStay
    <3>3. \A q \in db' : q \in db \/ Made(q.who)  BY <2>2, <3>1, IssueFacts
    <3> QED BY <2>2, <2>3, <3>1, <3>2, <3>3, QuietStep
  <2>5. CASE ~m.ok
    <3>1. PICK x : x = [Call("on_relay_ready", m.mb) EXCEPT !.mb = m.to]  OBVIOUS
    <3>2. wire' = Sent(Received(g, h), h, x) /\ UNCHANGED <<account, db>>
      BY <1>1, <1>2, <2>5, <3>1 DEF OnRegisterAccount
    <3>3. x \in CallType  BY <2>2, <3>1, CallTypes
    <3>4. CallOK(x)  BY <2>2, <3>1 DEF CallOK, Call
    <3>5. Grows  BY <2>3, <3>2, HomesStay
    <3>6. CallOK(x)'  BY <3>4, <3>5, PromisesStay
    <3>7. \A y \in CallsIn(wire') : y \in InFlight \/ CallOK(y)'
      BY <2>1, <3>2, <3>3, <3>6, AnswerIsSound
    <3> QED BY <2>3, <3>2, <3>5, <3>7, QuietStep
  <2> QED BY <2>4, <2>5
<1>3. CASE AccountOnRelayReady(g, h)
  <2>1. Delivers(g, h, "on_relay_ready")  BY <1>3 DEF AccountOnRelayReady
  <2>2. Made(m.mb) /\ m.mb \in Accounts /\ m.to \in Accounts
    BY <1>1, <1>3, <2>1, HeadIsSound DEF CallOK, Made, AccountOnRelayReady
  <2>3. PICK x : x = Call("on_relay_login", m.mb)  OBVIOUS
  <2>4. /\ wire' = Sent(Received(g, h), h, x)
        /\ account' = [account EXCEPT ![m.to].destroyed = TRUE]
        /\ UNCHANGED <<c2e, role, acct2mb, role2mb, db>>
    BY <1>1, <1>3, <2>3 DEF AccountOnRelayReady, Answer
  <2>5. x \in CallType  BY <2>2, <2>3, CallTypes
  <2>6. Grows  BY <2>2, <2>4, ChangedFacts, HomesStay
  <2>7. CallOK(x)  BY <2>2, <2>3 DEF CallOK, Call
  <2>8. CallOK(x)'  BY <2>6, <2>7, PromisesStay
  <2>9. \A y \in CallsIn(wire') : y \in InFlight \/ CallOK(y)'
    BY <2>1, <2>4, <2>5, <2>8, AnswerIsSound
  <2> QED BY <2>4, <2>6, <2>9, QuietStep
<1>4. CASE RoleOnRelayReady(g, h)
  <2>1. Delivers(g, h, "on_relay_ready")  BY <1>4 DEF RoleOnRelayReady
  <2>2. Made(m.mb) /\ m.mb \in Accounts /\ m.to \in Roles /\ Registered(m.to)
    <3>1. Holder(m.to) /\ Made(m.mb)  BY <1>1, <2>1, HeadIsSound DEF CallOK
    <3>2. m.to \in Roles  BY <1>1, <1>4 DEF RoleOnRelayReady
    <3> QED BY <3>1, <3>2, EntityFacts DEF Holder, Made
  <2>3. PICK x : x = [Call("on_wait_login", m.mb) EXCEPT !.mb = m.to]  OBVIOUS
  <2>4. /\ role' = [role EXCEPT ![m.to].status = "RELAY"]
        /\ wire' = Sent(Received(g, h), h, x)
        /\ c2e' = [c2e EXCEPT ![h][role[m.to].client] = NoEntity]
        /\ UNCHANGED <<account, acct2mb, role2mb, db>>
    BY <1>1, <1>4, <2>3 DEF RoleOnRelayReady
  <2>5. \A r \in Roles : role'[r].home = role[r].home /\ role'[r].rid = role[r].rid
                         /\ (r # m.to => role'[r].status = role[r].status)
    <3>1. role \in [Roles -> RoleType] /\ \A r \in Roles : role[r] \in RoleType  BY DEF TypeOK
    <3> QED BY <2>4, <3>1 DEF RoleType
  <2>6. Grows  BY <2>4, <2>5 DEF Grows
  <2>7. x \in CallType  BY <2>2, <2>3, CallTypes
  <2>8. CallOK(x)  BY <2>2, <2>3 DEF CallOK, Call
  <2>9. CallOK(x)'  BY <2>6, <2>8, PromisesStay
  <2>10. \A y \in CallsIn(wire') : y \in InFlight \/ CallOK(y)'
    BY <2>1, <2>4, <2>7, <2>9, AnswerIsSound
  <2>11. CallsAreSound'  BY <2>6, <2>10, PartsStay DEF CallsAreSound, InFlight, CallsIn
  <2>12. OnlyRegisteredRoleIsActive'
    BY <2>2, <2>4, <2>5 DEF IInv, OnlyRegisteredRoleIsActive, Registered
  <2>13. ClientsHaveAccounts'
    <3>1. \A f \in Games, c \in Clients : c2e'[f][c] = c2e[f][c] \/ c2e'[f][c] = NoEntity
      BY <2>4 DEF TypeOK
    <3> QED BY <2>4, <3>1, EntityFacts DEF IInv, ClientsHaveAccounts, Made
  <2> QED BY <2>4, <2>6, <2>11, <2>12, <2>13, PartsStay DEF IInv
<1>5. CASE OnWaitLogin(g, h)
  <2>1. Delivers(g, h, "on_wait_login")  BY <1>5 DEF OnWaitLogin
  <2>2. /\ Made(m.to) /\ m.to \in Accounts /\ m.to[2] \in Clients
        /\ m.mb \in Roles /\ Registered(m.mb)
    BY <1>1, <2>1, HeadIsSound, EntityFacts DEF CallOK, Made, Registered
  <2>3. PICK x : x = [Call("on_relay_login", m.mb) EXCEPT !.client = m.to[2]]  OBVIOUS
  <2>4. /\ wire' = Sent(Received(g, h), h, x)
        /\ account' = [account EXCEPT ![m.to].destroyed = TRUE]
        /\ UNCHANGED <<c2e, role, acct2mb, role2mb, db>>
    BY <1>1, <1>5, <2>3 DEF OnWaitLogin, Answer
  <2>5. x \in CallType  BY <2>2, <2>3, CallTypes
  <2>6. Grows  BY <2>2, <2>4, ChangedFacts, HomesStay
  <2>7. CallOK(x)  BY <2>2, <2>3 DEF CallOK, Call
  <2>8. CallOK(x)'  BY <2>6, <2>7, PromisesStay
  <2>9. \A y \in CallsIn(wire') : y \in InFlight \/ CallOK(y)'
    BY <2>1, <2>4, <2>5, <2>8, AnswerIsSound
  <2> QED BY <2>4, <2>6, <2>9, QuietStep
<1>6. CASE AccountOnRelayLogin(g, h)
  <2>1. Delivers(g, h, "on_relay_login")  BY <1>6 DEF AccountOnRelayLogin
  <2>2. CallsIn(Received(g, h)) \subseteq InFlight /\ m.to \in Accounts /\ Made(m.to)
    <3>1. m.to \in Accounts  BY <1>1, <1>6 DEF AccountOnRelayLogin
    <3>2. CallsIn(Received(g, h)) \subseteq InFlight /\ (Made(m.to) \/ Registered(m.to))
      BY <1>1, <2>1, HeadIsSound DEF CallOK
    <3> QED BY <3>1, <3>2, EntityFacts DEF Registered
  <2>3. wire' = Received(g, h) /\ UNCHANGED <<c2e, role, acct2mb, role2mb>>
    BY <1>6 DEF AccountOnRelayLogin
  <2>4. UNCHANGED <<account, db>> \/ Issue(m.to, "load_role")
    BY <1>1, <1>6 DEF AccountOnRelayLogin
  <2>5. \A b \in Accounts : account'[b].home = account[b].home  BY <2>2, <2>4, IssueFacts
  <2>6. \A q \in db' : q \in db \/ Made(q.who)  BY <2>2, <2>4, IssueFacts
  <2>7. Grows  BY <2>3, <2>5, HomesStay
  <2> QED BY <2>2, <2>3, <2>6, <2>7, QuietStep
<1>7. CASE RoleOnRelayLogin(g, h)
  <2>1. Delivers(g, h, "on_relay_login")  BY <1>7 DEF RoleOnRelayLogin
  <2>2. m.to \in Roles /\ Registered(m.to) /\ m.client \in Clients
    <3>1. m.to \in Roles  BY <1>1, <1>7 DEF RoleOnRelayLogin
    <3>2. Made(m.to) \/ (Registered(m.to) /\ m.client \in Clients)
      BY <1>1, <2>1, HeadIsSound DEF CallOK
    <3> QED BY <3>1, <3>2, EntityFacts DEF Made
  <2>3. PICK x : x = [Call("update_by_relay", Stub) EXCEPT 
                         !.id = role[m.to].id, !.rid = role[m.to].rid, !.mb = m.to]
    OBVIOUS
  <2>4. /\ role' = [role EXCEPT ![m.to].status = "NORMAL", ![m.to].client = m.client]
        /\ wire' = Sent(Received(g, h), h, x)
        /\ c2e' = [c2e EXCEPT ![h][m.client] = m.to]
        /\ UNCHANGED <<account, acct2mb, role2mb, db>>
    BY <1>1, <1>7, <2>3 DEF RoleOnRelayLogin
  <2>5. \A r \in Roles : role'[r].home = role[r].home /\ role'[r].rid = role[r].rid
                         /\ (r # m.to => role'[r].status = role[r].status)
    <3>1. role \in [Roles -> RoleType] /\ \A r \in Roles : role[r] \in RoleType  BY DEF TypeOK
    <3> QED BY <2>4, <3>1 DEF RoleType
  <2>6. Grows  BY <2>4, <2>5 DEF Grows
  <2>7. role[m.to].id \in Ids /\ role[m.to].rid \in Ids  BY <2>2 DEF TypeOK, RoleType
  <2>8. x \in CallType  BY <2>2, <2>3, <2>7, CallTypes
  <2>9. CallOK(x)  BY <2>2, <2>3, <2>7 DEF CallOK, Call, Registered
  <2>10. CallOK(x)'  BY <2>6, <2>9, PromisesStay
  <2>11. \A y \in CallsIn(wire') : y \in InFlight \/ CallOK(y)'
    BY <2>1, <2>4, <2>8, <2>10, AnswerIsSound
  <2>12. CallsAreSound'  BY <2>6, <2>11, PartsStay DEF CallsAreSound, InFlight, CallsIn
  <2>13. OnlyRegisteredRoleIsActive'
    BY <2>2, <2>4, <2>5 DEF IInv, OnlyRegisteredRoleIsActive, Registered
  <2>14. ClientsHaveAccounts'
    <3>1. \A f \in Games, c \in Clients : c2e'[f][c] = c2e[f][c] \/ c2e'[f][c] = m.to
      BY <2>4 DEF TypeOK
    <3> QED BY <2>2, <2>4, <3>1, EntityFacts DEF IInv, ClientsHaveAccounts, Made
  <2> QED BY <2>4, <2>6, <2>12, <2>13, <2>14, PartsStay DEF IInv
<1>8. CASE OnRegisterRole(g, h)
  <2>1. Delivers(g, h, "on_register_role")  BY <1>8 DEF OnRegisterRole
  <2>2. CallsIn(Received(g, h)) \subseteq InFlight /\ m.to \in Roles /\ (m.ok => Registered(m.to))
    BY <1>1, <2>1, HeadIsSound DEF CallOK
  <2>3. /\ wire' = Received(g, h) /\ UNCHANGED <<c2e, account, acct2mb, role2mb, db>>
        /\ UNCHANGED role \/ (m.ok /\ role' = [role EXCEPT ![m.to].status = "NORMAL"])
    BY <1>1, <1>8 DEF OnRegisterRole
  <2>4. CASE UNCHANGED role  BY <2>2, <2>3, <2>4, HomesStay, SilentStep
  <2>5. CASE m.ok /\ role' = [role EXCEPT ![m.to].status = "NORMAL"]
    <3>1. \A r \in Roles : role'[r].home = role[r].home /\ role'[r].rid = role[r].rid
                           /\ (r # m.to => role'[r].status = role[r].status)
      <4>1. role \in [Roles -> RoleType] /\ \A r \in Roles : role[r] \in RoleType  BY DEF TypeOK
      <4> QED BY <2>5, <4>1 DEF RoleType
    <3>2. Grows  BY <2>3, <3>1 DEF Grows
    <3>3. CallsAreSound'  BY <2>2, <2>3, <3>2, PartsStay DEF CallsAreSound, InFlight, CallsIn
    <3>4. OnlyRegisteredRoleIsActive'
      BY <2>2, <2>3, <2>5, <3>1 DEF IInv, OnlyRegisteredRoleIsActive, Registered
    <3> QED BY <2>3, <3>2, <3>3, <3>4, PartsStay DEF IInv
  <2> QED BY <2>3, <2>4, <2>5
<1> QED BY <1>2, <1>3, <1>4, <1>5, <1>6, <1>7, <1>8 DEF EntityStep

(* A login that succeeds: the new role is registered with nobody yet.      *)
LEMMA LoginSuccessKeepsIInv ==
  ASSUME TypeOK, IInv, NEW a \in Accounts, Made(a), LoginSuccess(a),
         UNCHANGED <<acct2mb, role2mb>>, db' \subseteq db
  PROVE  IInv'
<1> DEFINE g == account[a].home
           c == a[2]
<1>1. PICK n \in 1..MaxRole :
        LET r == <<"role", c, n>> IN
        /\ role[r].home = NoGame
        /\ role' = [role EXCEPT ![r] = [home |-> g, id |-> account[a].id, rid |-> account[a].rid,
                                       status |-> "INVALID", client |-> c]]
        /\ c2e' = [c2e EXCEPT ![g][c] = r]
        /\ wire' = Sent(wire, g, [Call("register_role", Stub) EXCEPT
                                   !.id = account[a].id, !.rid = account[a].rid, !.mb = r])
        /\ account' = [account EXCEPT ![a].destroyed = TRUE]
  BY DEF LoginSuccess
<1>2. PICK r : r = <<"role", c, n>>  OBVIOUS
<1>3. r \in Roles /\ c \in Clients  BY <1>2, EntityFacts
<1>4. g # NoGame /\ account[a].id \in Ids /\ account[a].rid \in Ids  BY DEF Made, TypeOK, AccountType
<1>5. /\ role'[r] = [home |-> g, id |-> account[a].id, rid |-> account[a].rid,
                  status |-> "INVALID", client |-> c]
      /\ \A s \in Roles : s # r => role'[s] = role[s]
  BY <1>1, <1>2, <1>3 DEF TypeOK
<1>6. role[r].home = NoGame  BY <1>1, <1>2
<1>7. \A b \in Accounts : account'[b].home = account[b].home  BY <1>1, ChangedFacts
<1>8. Grows  BY <1>5, <1>6, <1>7 DEF Grows
<1>9. PICK x : x = [Call("register_role", Stub) EXCEPT
                      !.id = account[a].id, !.rid = account[a].rid, !.mb = r]  OBVIOUS
<1>10. x \in CallType /\ wire' = Sent(wire, g, x)  BY <1>1, <1>2, <1>3, <1>4, <1>9, CallTypes
<1>11. x.fn = "register_role" /\ x.to = Stub /\ x.id = account[a].id /\ x.rid = account[a].rid /\ x.mb = r
  BY <1>9 DEF Call
<1>12. CallOK(x)'
  <2>1. role'[r].home = g /\ role'[r].rid = account[a].rid  BY <1>5
  <2> QED BY <1>3, <1>4, <1>11, <2>1 DEF CallOK
<1>13. CallsAreSound'
  <2>1. \A y \in CallsIn(wire') : y \in InFlight \/ y = x
    BY <1>10, SentCalls DEF TypeOK, InFlight
  <2> QED BY <1>8, <1>12, <2>1, PartsStay DEF CallsAreSound, InFlight, CallsIn
<1>14. OnlyRegisteredRoleIsActive'
  <2>1. \A s \in Roles : role'[s].status \in {"NORMAL", "RELAY"} => s # r
    BY <1>5
  <2> QED BY <1>5, <2>1 DEF IInv, OnlyRegisteredRoleIsActive
<1>15. ClientsHaveAccounts'
  <2>1. \A f \in Games, d \in Clients : c2e'[f][d] = c2e[f][d] \/ c2e'[f][d] = r
    BY <1>1, <1>2 DEF TypeOK
  <2> QED BY <1>3, <1>8, <2>1, EntityFacts, HoldersStay DEF IInv, ClientsHaveAccounts, Made
<1> QED BY <1>8, <1>13, <1>14, <1>15, PartsStay DEF IInv

(* A registration sent by an account that exists.                          *)
LEMMA RegisterIsSound ==
  ASSUME TypeOK, NEW a \in Accounts, Made(a), NEW i \in Ids, NEW x, x = RegisterCall(a, i)
  PROVE  x \in CallType /\ CallOK(x)
BY CallTypes DEF RegisterCall, Call, CallOK

LEMMA CallbackKeepsIInv ==
  ASSUME TypeOK, IInv, NEW q \in db, CallbackStep(q) PROVE IInv'
<1> USE DEF stubVars
<1>1. q.who \in Accounts /\ q.found \in Ids \cup {NoId}  BY DEF TypeOK, RequestType
<1>2. Made(q.who)  BY DEF IInv, RequestsHaveOwners
<1>3. CASE OnLoadAccount(q)
  <2>1. UNCHANGED <<c2e, role, acct2mb, role2mb>>  BY <1>3 DEF OnLoadAccount
  <2>2. \A b \in Accounts : account'[b].home = account[b].home
    <3>1. CASE q.found = NoId
      <4>1. account' = [account EXCEPT ![q.who].id = LoadedId(q), ![q.who].rid = LoadedId(q),
                                       ![q.who].opts = @ + 1]
        BY <1>3, <3>1 DEF OnLoadAccount
      <4> QED BY <1>1, <4>1 DEF TypeOK, AccountType
    <3>2. CASE q.found # NoId
      <4>1. account' = [account EXCEPT ![q.who].id = LoadedId(q), ![q.who].rid = LoadedId(q)]
        BY <1>3, <3>2 DEF OnLoadAccount
      <4> QED BY <1>1, <4>1 DEF TypeOK, AccountType
    <3> QED BY <3>1, <3>2
  <2>3. Grows  BY <2>1, <2>2, HomesStay
  <2>4. \A p \in db' : p \in db \/ Made(p.who)
    <3>1. \A p \in db' : p \in db \/ p.who = q.who  BY <1>3 DEF OnLoadAccount, Request
    <3> QED BY <1>2, <3>1
  <2>5. CASE q.found = NoId
    <3>1. UNCHANGED wire  BY <1>3, <2>5 DEF OnLoadAccount
    <3> QED BY <2>1, <2>3, <2>4, <3>1, QuietStep DEF InFlight
  <2>6. CASE q.found # NoId
    <3>1. LoadedId(q) \in Ids  BY <1>1, <2>6 DEF LoadedId
    <3>2. PICK x : x = RegisterCall(q.who, LoadedId(q))  OBVIOUS
    <3>3. wire' = Sent(wire, account[q.who].home, x)  BY <1>3, <2>6, <3>2 DEF OnLoadAccount
    <3>4. x \in CallType /\ CallOK(x)  BY <1>1, <1>2, <3>1, <3>2, RegisterIsSound
    <3>5. CallOK(x)'  BY <2>3, <3>4, PromisesStay
    <3>6. \A y \in CallsIn(wire') : y \in InFlight \/ CallOK(y)'
      <4>1. \A y \in CallsIn(wire') : y \in CallsIn(wire) \/ y = x
        BY <3>3, <3>4, SentCalls DEF TypeOK
      <4> QED BY <3>5, <4>1 DEF InFlight
    <3> QED BY <2>1, <2>3, <2>4, <3>6, QuietStep
  <2> QED BY <2>5, <2>6
<1>4. CASE OnSaveAccount(q)
  <2>1. UNCHANGED <<c2e, account, role, acct2mb, role2mb>> /\ db' \subseteq db
    BY <1>4 DEF OnSaveAccount
  <2>2. Grows  BY <2>1, HomesStay
  <2>3. account[q.who].id \in Ids  BY <1>1 DEF TypeOK, AccountType
  <2>4. PICK x : x = RegisterCall(q.who, account[q.who].id)  OBVIOUS
  <2>5. wire' = Sent(wire, account[q.who].home, x)  BY <1>4, <2>4 DEF OnSaveAccount
  <2>6. x \in CallType /\ CallOK(x)  BY <1>1, <1>2, <2>3, <2>4, RegisterIsSound
  <2>7. CallOK(x)'  BY <2>2, <2>6, PromisesStay
  <2>8. \A y \in CallsIn(wire') : y \in InFlight \/ CallOK(y)'
    <3>1. \A y \in CallsIn(wire') : y \in CallsIn(wire) \/ y = x
      BY <2>5, <2>6, SentCalls DEF TypeOK
    <3> QED BY <2>7, <3>1 DEF InFlight
  <2> QED BY <2>1, <2>2, <2>8, QuietStep
<1>5. CASE OnLoadRole(q)
  <2>1. UNCHANGED <<acct2mb, role2mb>> /\ db' \subseteq db  BY <1>5 DEF OnLoadRole
  <2>2. UNCHANGED <<role, c2e, wire, account>> \/ LoginSuccess(q.who)  BY <1>5 DEF OnLoadRole
  <2>3. CASE UNCHANGED <<role, c2e, wire, account>>
    BY <2>1, <2>3, HomesStay, SilentStep DEF InFlight
  <2>4. CASE LoginSuccess(q.who)
    BY <1>1, <1>2, <2>1, <2>4, LoginSuccessKeepsIInv
  <2> QED BY <2>2, <2>3, <2>4
<1>6. CASE OnSaveRole(q)
  <2>1. UNCHANGED <<acct2mb, role2mb>> /\ db' \subseteq db /\ LoginSuccess(q.who)
    BY <1>6 DEF OnSaveRole
  <2> QED BY <1>1, <1>2, <2>1, LoginSuccessKeepsIInv
<1> QED BY <1>3, <1>4, <1>5, <1>6 DEF CallbackStep

LEMMA ExecuteKeepsIInv ==
  ASSUME TypeOK, IInv, NEW q \in db, Execute(q) \/ LoseRequest(q) PROVE IInv'
<1>1. UNCHANGED <<wire, c2e, account, role, acct2mb, role2mb>>
  BY DEF Execute, LoseRequest, stubVars
<1>2. \A p \in db' : \E o \in db : p.who = o.who
  <2>1. q \in RequestType  BY DEF TypeOK
  <2>2. \A p \in db' : p \in db \/ \E f : p = [q EXCEPT !.done = TRUE, !.found = f]
    BY DEF Execute, LoseRequest
  <2>3. \A f : [q EXCEPT !.done = TRUE, !.found = f].who = q.who
    BY <2>1 DEF RequestType
  <2> QED BY <2>2, <2>3
<1>3. Grows  BY <1>1, HomesStay
<1>4. \A p \in db' : p \in db \/ Made(p.who)  BY <1>2 DEF IInv, RequestsHaveOwners
<1> QED BY <1>1, <1>3, <1>4, QuietStep DEF InFlight

LEMMA InitIInv == Init => IInv
<1> SUFFICES ASSUME Init PROVE IInv  OBVIOUS
<1>1. InFlight = {}  BY DEF Init, InFlight, CallsIn
<1>2. \A r \in Roles : role[r].status = "INVALID"  BY DEF Init
<1>3. \A i \in Ids : acct2mb[i] = NoEntity /\ role2mb[i] = NoEntity  BY DEF Init
<1>4. \A g \in Games, c \in Clients : c2e[g][c] = NoEntity  BY DEF Init
<1> QED BY <1>1, <1>2, <1>3, <1>4, EntityFacts
       DEF Init, IInv, CallsAreSound, RoleMapIsSound, AccountMapIsSound, RequestsHaveOwners,
           ClientsHaveAccounts, OnlyRegisteredRoleIsActive, AccountEntryNamesRegisteredRole

LEMMA NextKeepsIInv == TypeOK /\ IInv /\ [Next]_vars => IInv'
<1> SUFFICES ASSUME TypeOK, IInv, [Next]_vars PROVE IInv'  OBVIOUS
<1>1. CASE Next
  BY <1>1, GateKeepsIInv, TransferKeepsIInv, StubKeepsIInv, EntityKeepsIInv,
     ExecuteKeepsIInv, CallbackKeepsIInv DEF Next
<1>2. CASE UNCHANGED vars
  BY <1>2, HomesStay, SilentStep DEF vars, InFlight
<1> QED BY <1>1, <1>2

(* What the handlers rely on always holds: the maps of roll_stub name      *)
(* entities that exist and roles they registered, and every call under way *)
(* finds what its sender promised.                                         *)
THEOREM CallsKeepTheirPromise == Spec => []IInv
BY TypeCorrect, InitIInv, NextKeepsIInv, PTL DEF Spec

(* Only the role the stub registered is ever played or handed over.        *)
THEOREM ActiveRoleIsRegistered == Spec => []OnlyRegisteredRoleIsActive
<1>1. IInv => OnlyRegisteredRoleIsActive  BY DEF IInv
<1> QED BY <1>1, CallsKeepTheirPromise, PTL

(* register_account never hands a newcomer a role that lost its            *)
(* registration.                                                           *)
THEOREM EntryIsRegistered == Spec => []AccountEntryNamesRegisteredRole
<1>1. IInv => AccountEntryNamesRegisteredRole  BY DEF IInv
<1> QED BY <1>1, CallsKeepTheirPromise, PTL

(* update_by_relay never takes its "start kick role" branches.             *)
THEOREM RelayKicksNoRole == Spec => []RelayNeverKicksRole
<1>1. IInv => RelayNeverKicksRole  BY DEF IInv, CallsAreSound, CallOK, RelayNeverKicksRole
<1> QED BY <1>1, CallsKeepTheirPromise, PTL

(* Every call under way finds an entity that exists and has the function.  *)
THEOREM CallsAreReceived == Spec => []CallsFindTheirTarget
<1>1. IInv => CallsFindTheirTarget
  BY EntityFacts DEF IInv, CallsAreSound, CallOK, Made, Registered, Holder, CallsFindTheirTarget
<1> QED BY <1>1, CallsKeepTheirPromise, PTL

-----------------------------------------------------------------------------
(* The calls that carry the right to relay role r.                         *)
Carries(m, r) ==
  \/ m.fn \in {"on_register_account", "on_wait_login", "update_by_relay"} /\ m.mb = r
  \/ m.fn \in {"on_relay_ready", "on_relay_login"} /\ m.to = r

(* The places of w that hold one, and whether map f and w hold at most one *)
(* between them, or none.                                                  *)
PlacesOf(w, r) ==
  {p \in (Games \X Games) \X (Nat \ {0}) :
     p[2] \in DOMAIN w[p[1]] /\ Carries(w[p[1]][p[2]], r)}
NoneFor(w, f, r) == PlacesOf(w, r) = {} /\ \A i \in Ids : f[i] # r
OneFor(w, f, r) ==
  /\ \A i, k \in Ids : f[i] = r /\ f[k] = r => i = k
  /\ \A i \in Ids : f[i] = r => PlacesOf(w, r) = {}
  /\ \A p, q \in PlacesOf(w, r) : p = q

RightsAreUnique == \A r \in Roles : OneFor(wire, acct2mb, r)

Wires == [Games \X Games -> Seq(CallType)]
NoGain(f, e, r) == \A i \in Ids : e[i] = r => f[i] = r

-----------------------------------------------------------------------------
(* A call that is sent takes the last place of one connection.             *)
LEMMA SentPlaces ==
  ASSUME NEW w \in Wires, NEW g, NEW m \in CallType, NEW r
  PROVE  /\ ~Carries(m, r) => PlacesOf(Sent(w, g, m), r) = PlacesOf(w, r)
         /\ PlacesOf(w, r) = {} =>
              \A p, q \in PlacesOf(Sent(w, g, m), r) : p = q
<1> DEFINE l == <<g, HomeOf(m.to)>>
           v == Sent(w, g, m)
<1>1. \A k \in Games \X Games :
        /\ k # l => v[k] = w[k]
        /\ k = l => v[k] = Append(w[k], m)
        /\ w[k] \in Seq(CallType)
  BY DEF Sent, Wires
<1>2. \A k \in Games \X Games :
        /\ k = l => /\ DOMAIN v[k] = 1..(Len(w[k]) + 1)
                    /\ v[k][Len(w[k]) + 1] = m
                    /\ \A j \in DOMAIN w[k] : v[k][j] = w[k][j]
        /\ DOMAIN w[k] = 1..Len(w[k]) /\ Len(w[k]) \in Nat
  BY <1>1
<1>3. \A p \in PlacesOf(w, r) : p \in PlacesOf(v, r)
  BY <1>1, <1>2 DEF PlacesOf
<1>4. \A p \in PlacesOf(v, r) :
        p \in PlacesOf(w, r) \/ (p = <<l, Len(w[l]) + 1>> /\ Carries(m, r))
  <2> SUFFICES ASSUME NEW p \in PlacesOf(v, r), p \notin PlacesOf(w, r)
               PROVE  p = <<l, Len(w[l]) + 1>> /\ Carries(m, r)
    OBVIOUS
  <2>1. PICK k \in Games \X Games, j \in Nat \ {0} : p = <<k, j>>
    BY DEF PlacesOf
  <2>2. j \in DOMAIN v[k] /\ Carries(v[k][j], r)
    BY <2>1 DEF PlacesOf
  <2>3. ~(j \in DOMAIN w[k] /\ Carries(w[k][j], r))
    BY <2>1 DEF PlacesOf
  <2>4. k = l
    BY <1>1, <2>2, <2>3
  <2>5. j = Len(w[k]) + 1
    BY <1>2, <2>2, <2>3, <2>4
  <2> QED
    BY <1>2, <2>1, <2>2, <2>4, <2>5
<1> QED
  BY <1>3, <1>4

(* A call that is received leaves the first place of its connection, and   *)
(* the others move up.                                                     *)
LEMMA ReceivedPlaces ==
  ASSUME TypeOK, NEW g \in Games, NEW h \in Games, NEW fn, Delivers(g, h, fn), NEW r,
         \A p, q \in PlacesOf(wire, r) : p = q
  PROVE  /\ \A p, q \in PlacesOf(Received(g, h), r) : p = q
         /\ PlacesOf(wire, r) = {} => PlacesOf(Received(g, h), r) = {}
         /\ Carries(Head(wire[<<g, h>>]), r) =>
              /\ PlacesOf(Received(g, h), r) = {}
              /\ PlacesOf(wire, r) # {}
<1> DEFINE l == <<g, h>>
           v == Received(g, h)
           Old(p) == IF p[1] = l THEN <<l, p[2] + 1>> ELSE p
<1>1. wire[l] \in Seq(CallType) /\ wire[l] # <<>> /\ l \in Games \X Games
  BY DEF TypeOK, Delivers
<1>2. /\ v[l] = Tail(wire[l])
      /\ \A k \in Games \X Games : k # l => v[k] = wire[k]
  BY <1>1 DEF TypeOK, Received
<1>3. \A j \in DOMAIN v[l] : j \in Nat \ {0} /\ j + 1 \in DOMAIN wire[l] /\ v[l][j] = wire[l][j + 1]
  BY <1>1, <1>2
<1>4. \A p \in PlacesOf(v, r) : Old(p) \in PlacesOf(wire, r) /\ Old(p) # <<l, 1>>
  <2> SUFFICES ASSUME NEW p \in PlacesOf(v, r)
               PROVE  Old(p) \in PlacesOf(wire, r) /\ Old(p) # <<l, 1>>
    OBVIOUS
  <2>1. PICK k \in Games \X Games, j \in Nat \ {0} : p = <<k, j>>
    BY DEF PlacesOf
  <2>2. j \in DOMAIN v[k] /\ Carries(v[k][j], r)
    BY <2>1 DEF PlacesOf
  <2>3. CASE k = l
    <3>1. Old(p) = <<l, j + 1>> /\ j + 1 \in Nat \ {0} /\ j + 1 # 1
      BY <2>1, <2>3
    <3>2. j + 1 \in DOMAIN wire[l] /\ Carries(wire[l][j + 1], r)
      BY <1>3, <2>2, <2>3
    <3> QED
      BY <1>1, <3>1, <3>2 DEF PlacesOf
  <2>4. CASE k # l
    <3>1. Old(p) = <<k, j>>
      BY <2>1, <2>4
    <3> QED
      BY <1>2, <2>1, <2>2, <2>4, <3>1 DEF PlacesOf
  <2> QED
    BY <2>3, <2>4
<1>5. \A p, q \in PlacesOf(v, r) : Old(p) = Old(q) => p = q
  <2> SUFFICES ASSUME NEW p \in PlacesOf(v, r), NEW q \in PlacesOf(v, r), Old(p) = Old(q)
               PROVE  p = q
    OBVIOUS
  <2>1. PICK k \in Games \X Games, j \in Nat \ {0} : p = <<k, j>>
    BY DEF PlacesOf
  <2>2. PICK n \in Games \X Games, i \in Nat \ {0} : q = <<n, i>>
    BY DEF PlacesOf
  <2>3. Old(p)[1] = k /\ Old(q)[1] = n
    BY <2>1, <2>2
  <2>4. Old(p)[2] = (IF k = l THEN j + 1 ELSE j) /\ Old(q)[2] = (IF n = l THEN i + 1 ELSE i)
    BY <2>1, <2>2
  <2> QED
    BY <2>1, <2>2, <2>3, <2>4
<1>6. Carries(Head(wire[l]), r) => <<l, 1>> \in PlacesOf(wire, r)
  BY <1>1 DEF PlacesOf
<1>7. PlacesOf(wire, r) = {} => PlacesOf(v, r) = {}
  <2> HIDE DEF v, Old
  <2> QED
    BY <1>4
<1>8. \A p, q \in PlacesOf(v, r) : p = q
  <2> HIDE DEF v, Old
  <2> QED
    BY <1>4, <1>5
<1>9. Carries(Head(wire[l]), r) => PlacesOf(v, r) = {}
  <2> HIDE DEF v, Old
  <2> QED
    BY <1>4, <1>6
<1> QED
  BY <1>6, <1>7, <1>8, <1>9

-----------------------------------------------------------------------------
(* What a handler can do to the rights of a role: nothing to them but take *)
(* a call that has none, pass the right of the call it takes on, ...       *)
LEMMA SendsNoRight ==
  ASSUME NEW w \in Wires, NEW g, NEW m \in CallType, NEW f, NEW e, NEW r,
         OneFor(w, f, r), NoGain(f, e, r), ~Carries(m, r)
  PROVE  OneFor(Sent(w, g, m), e, r)
<1>1. PlacesOf(Sent(w, g, m), r) = PlacesOf(w, r)
  BY SentPlaces
<1> QED
  BY <1>1 DEF OneFor, NoGain

LEMMA SendsTheRight ==
  ASSUME NEW w \in Wires, NEW g, NEW m \in CallType, NEW f, NEW e, NEW r,
         NoneFor(w, f, r), NoGain(f, e, r)
  PROVE  OneFor(Sent(w, g, m), e, r)
<1>1. \A p, q \in PlacesOf(Sent(w, g, m), r) : p = q
  BY SentPlaces DEF NoneFor
<1>2. \A i \in Ids : e[i] # r
  BY DEF NoneFor, NoGain
<1> QED
  BY <1>1, <1>2 DEF OneFor

LEMMA TakesACall ==
  ASSUME TypeOK, NEW g \in Games, NEW h \in Games, NEW fn, Delivers(g, h, fn),
         NEW f, NEW e, NEW r, OneFor(wire, f, r), NoGain(f, e, r)
  PROVE  /\ OneFor(Received(g, h), e, r)
         /\ Carries(Head(wire[<<g, h>>]), r) => NoneFor(Received(g, h), f, r)
<1>1. \A p, q \in PlacesOf(wire, r) : p = q
  BY DEF OneFor
<1>2. \A p, q \in PlacesOf(Received(g, h), r) : p = q
  BY <1>1, ReceivedPlaces
<1>3. PlacesOf(wire, r) = {} => PlacesOf(Received(g, h), r) = {}
  BY <1>1, ReceivedPlaces
<1>4. Carries(Head(wire[<<g, h>>]), r) =>
        PlacesOf(Received(g, h), r) = {} /\ PlacesOf(wire, r) # {}
  BY <1>1, ReceivedPlaces
<1> QED
  BY <1>2, <1>3, <1>4 DEF OneFor, NoneFor, NoGain

LEMMA PassesOn ==
  ASSUME TypeOK, NEW g \in Games, NEW h \in Games, NEW fn, Delivers(g, h, fn),
         NEW m \in CallType, NEW r, OneFor(wire, acct2mb, r),
         Carries(m, r) => Carries(Head(wire[<<g, h>>]), r)
  PROVE  OneFor(Sent(Received(g, h), h, m), acct2mb, r)
<1>1. Received(g, h) \in Wires
  BY ReceivedType DEF Wires
<1>2. NoGain(acct2mb, acct2mb, r)
  BY DEF NoGain
<1>3. /\ OneFor(Received(g, h), acct2mb, r)
      /\ Carries(Head(wire[<<g, h>>]), r) => NoneFor(Received(g, h), acct2mb, r)
  BY <1>2, TakesACall
<1>4. CASE Carries(m, r)
  BY <1>1, <1>2, <1>3, <1>4, SendsTheRight
<1>5. CASE ~Carries(m, r)
  BY <1>1, <1>2, <1>3, <1>5, SendsNoRight
<1> QED
  BY <1>4, <1>5

(* A role that somebody has a right to is registered: so an accepted       *)
(* register_role gives the first right to its role.                        *)
LEMMA RightsAreRegistered ==
  ASSUME TypeOK, IInv, NEW r \in Roles, ~NoneFor(wire, acct2mb, r)
  PROVE  role[r].home # NoGame /\ role2mb[role[r].rid] = r
<1>1. CASE \E i \in Ids : acct2mb[i] = r
  <2>1. Holder(r)
    BY <1>1, EntityFacts DEF IInv, AccountMapIsSound
  <2> QED
    BY <2>1, EntityFacts DEF Holder, Made, Registered
<1>2. CASE PlacesOf(wire, r) # {}
  <2>1. PICK k \in Games \X Games : \E j \in DOMAIN wire[k] : Carries(wire[k][j], r)
    BY <1>2 DEF PlacesOf
  <2>0. PICK j \in DOMAIN wire[k] : Carries(wire[k][j], r)
    BY <2>1
  <2> DEFINE m == wire[k][j]
  <2>2. CallOK(m)
    BY <2>0 DEF IInv, CallsAreSound, InFlight, CallsIn
  <2>3. CASE m.fn = "update_by_relay"
    <3>1. m.mb = r /\ m.rid \in Ids /\ role2mb[m.rid] = r
      BY <2>0, <2>2, <2>3 DEF Carries, CallOK
    <3>2. role[r].home # NoGame /\ role[r].rid = m.rid
      BY <3>1, EntityFacts DEF IInv, RoleMapIsSound
    <3> QED
      BY <3>1, <3>2
  <2>4. CASE m.fn # "update_by_relay"
    <3>1. Holder(r)
      BY <2>0, <2>2, <2>4, EntityFacts DEF Carries, CallOK, Holder
    <3> QED
      BY <3>1, EntityFacts DEF Holder, Made, Registered
  <2> QED
    BY <2>3, <2>4
<1> QED
  BY <1>1, <1>2 DEF NoneFor

-----------------------------------------------------------------------------
(* The steps that touch neither the account map nor a call that carries a  *)
(* right.                                                                  *)
LEMMA SilentKeepsRights ==
  ASSUME RightsAreUnique, UNCHANGED <<wire, acct2mb>> PROVE RightsAreUnique'
BY DEF RightsAreUnique, OneFor, PlacesOf

LEMMA SaysKeepsRights ==
  ASSUME TypeOK, RightsAreUnique, UNCHANGED acct2mb, NEW g, NEW m \in CallType,
         wire' = Sent(wire, g, m),
         m.fn \in {"register_account", "unregister_account", "register_role"}
  PROVE  RightsAreUnique'
<1> SUFFICES ASSUME NEW r \in Roles PROVE OneFor(wire', acct2mb', r)
  BY DEF RightsAreUnique, OneFor, PlacesOf
<1>1. ~Carries(m, r)
  BY DEF Carries
<1>2. wire \in Wires /\ OneFor(wire, acct2mb, r) /\ NoGain(acct2mb, acct2mb, r)
  BY DEF TypeOK, Wires, RightsAreUnique, NoGain
<1> QED
  BY <1>1, <1>2, SendsNoRight

LEMMA LoginSuccessKeepsRights ==
  ASSUME TypeOK, RightsAreUnique, NEW a \in Accounts, LoginSuccess(a), UNCHANGED acct2mb
  PROVE  RightsAreUnique'
<1>1. PICK n \in 1..MaxRole :
        wire' = Sent(wire, account[a].home,
                     [Call("register_role", Stub) EXCEPT
                        !.id = account[a].id, !.rid = account[a].rid, !.mb = <<"role", a[2], n>>])
  BY DEF LoginSuccess
<1>2. account[a].id \in Ids /\ account[a].rid \in Ids /\ <<"role", a[2], n>> \in Roles
  BY EntityFacts, AccountUpdates
<1>3. PICK m : m = [Call("register_role", Stub) EXCEPT
                      !.id = account[a].id, !.rid = account[a].rid, !.mb = <<"role", a[2], n>>]
  OBVIOUS
<1>4. m \in CallType /\ m.fn = "register_role"
  BY <1>2, <1>3, CallTypes DEF Call
<1> QED
  BY <1>1, <1>3, <1>4, SaysKeepsRights

LEMMA GateAndTransferKeepRights ==
  ASSUME TypeOK, RightsAreUnique, GateStep \/ \E g \in Games : TransferStep(g)
  PROVE  RightsAreUnique'
<1>1. CASE GateStep
  <2>1. UNCHANGED <<wire, acct2mb>>
    BY <1>1 DEF GateStep, ProcessLogin, ProcessCreateRole, OnClientDisconnect,
                UpdateClientProcessInfo, stubVars
  <2> QED
    BY <2>1, SilentKeepsRights
<1>2. ASSUME NEW g \in Games, DisconnectAccount(g) PROVE RightsAreUnique'
  <2> DEFINE a == Current(g)
  <2>1. a \in Accounts /\ UNCHANGED acct2mb
    BY <1>2 DEF DisconnectAccount, stubVars
  <2>2. CASE account[a].destroyed
    BY <1>2, <2>1, <2>2, SilentKeepsRights DEF DisconnectAccount
  <2>3. CASE ~account[a].destroyed
    <3>1. PICK m : m = [Call("unregister_account", Stub) EXCEPT !.id = account[a].id]
      OBVIOUS
    <3>2. m \in CallType /\ m.fn = "unregister_account"
      BY <2>1, <3>1, AccountUpdates, CallTypes DEF Call
    <3>3. wire' = Sent(wire, g, m)
      BY <1>2, <2>3, <3>1 DEF DisconnectAccount
    <3> QED
      BY <2>1, <3>2, <3>3, SaysKeepsRights
  <2> QED
    BY <2>2, <2>3
<1>3. ASSUME NEW g \in Games, TransferStep(g), ~DisconnectAccount(g) PROVE RightsAreUnique'
  <2>1. UNCHANGED <<wire, acct2mb>>
    BY <1>3 DEF TransferStep, CreateAccountEntity, LoginAgain, CreateRole, DisconnectRole,
                DropTransfer, stubVars
  <2> QED
    BY <2>1, SilentKeepsRights
<1> QED
  BY <1>1, <1>2, <1>3

LEMMA CallbacksKeepRights ==
  ASSUME TypeOK, RightsAreUnique, NEW q \in db, CallbackStep(q)
  PROVE  RightsAreUnique'
<1>1. q.who \in Accounts /\ q.found \in Ids \cup {NoId}
  BY DEF TypeOK, RequestType
<1>2. UNCHANGED acct2mb
  BY DEF CallbackStep, OnLoadAccount, OnSaveAccount, OnLoadRole, OnSaveRole, stubVars
<1>3. ASSUME NEW i \in Ids, wire' = Sent(wire, account[q.who].home, RegisterCall(q.who, i))
      PROVE  RightsAreUnique'
  <2>1. PICK m : m = RegisterCall(q.who, i)
    OBVIOUS
  <2>2. m \in CallType /\ m.fn = "register_account"
    BY <1>1, <2>1, CallTypes DEF RegisterCall, Call
  <2> QED
    BY <1>2, <1>3, <2>1, <2>2, SaysKeepsRights
<1>4. CASE OnLoadAccount(q)
  <2>1. CASE q.found = NoId
    BY <1>2, <1>4, <2>1, SilentKeepsRights DEF OnLoadAccount
  <2>2. CASE q.found # NoId
    <3>1. LoadedId(q) \in Ids
      BY <1>1, <2>2 DEF LoadedId
    <3> QED
      BY <1>3, <1>4, <2>2, <3>1 DEF OnLoadAccount
  <2> QED
    BY <2>1, <2>2
<1>5. CASE OnSaveAccount(q)
  <2>1. account[q.who].id \in Ids
    BY <1>1, AccountUpdates
  <2> QED
    BY <1>3, <1>5, <2>1 DEF OnSaveAccount
<1>6. CASE OnLoadRole(q)
  <2>1. UNCHANGED wire \/ LoginSuccess(q.who)
    BY <1>6 DEF OnLoadRole
  <2> QED
    BY <1>1, <1>2, <2>1, SilentKeepsRights, LoginSuccessKeepsRights
<1>7. CASE OnSaveRole(q)
  BY <1>1, <1>2, <1>7, LoginSuccessKeepsRights DEF OnSaveRole
<1> QED
  BY <1>4, <1>5, <1>6, <1>7 DEF CallbackStep

-----------------------------------------------------------------------------
(* The stub: register_account moves the right from the entry it overwrites *)
(* into its reply, register_role gives the first right to a role, and      *)
(* update_by_relay puts the right it carries back into the entry.          *)
LEMMA StubKeepsRights ==
  ASSUME TypeOK, IInv, RightsAreUnique, NEW g \in Games, StubStep(g)
  PROVE  RightsAreUnique'
<1> SUFFICES ASSUME NEW r \in Roles PROVE OneFor(wire', acct2mb', r)
  BY DEF RightsAreUnique, OneFor, PlacesOf
<1>0. StubGame \in Games /\ r \notin Accounts /\ r # NoEntity
  BY ConstantsAssumption, EntityFacts
<1>1. PICK m : m = Head(wire[<<g, StubGame>>])
  OBVIOUS
<1>2. OneFor(wire, acct2mb, r) /\ acct2mb \in [Ids -> Entities \cup {NoEntity}]
  BY DEF RightsAreUnique, TypeOK
<1>3. CASE StubRegisterAccount(g)
  <2>1. Delivers(g, StubGame, "register_account")
    BY <1>3 DEF StubRegisterAccount
  <2>2. m.id \in Ids /\ m.mb \in Accounts
    BY <1>0, <1>1, <2>1, HeadIsSound DEF CallOK, Made
  <2>12. Received(g, StubGame) \in Wires
    BY <1>0, <2>1, ReceivedType DEF Wires
  <2>3. PICK x : x = RegisterReply(m, acct2mb[m.id])
    OBVIOUS
  <2>4. /\ acct2mb' = [acct2mb EXCEPT ![m.id] = m.mb]
        /\ wire' = Sent(Received(g, StubGame), StubGame, x)
    BY <1>1, <1>3, <2>3 DEF StubRegisterAccount, HolderAfter
  <2>5. acct2mb[m.id] \in Entities \cup {NoEntity}
    BY <1>2, <2>2
  <2>6. x \in CallType
    BY <2>2, <2>3, <2>5, CallTypes DEF RegisterReply
  <2>7. x.fn = "on_register_account" /\ x.mb \in {m.mb, acct2mb[m.id]}
    BY <2>3 DEF RegisterReply, Call
  <2>8. NoGain(acct2mb, acct2mb', r) /\ NoGain(acct2mb', acct2mb', r) /\ acct2mb'[m.id] # r
    BY <1>0, <1>2, <2>2, <2>4 DEF NoGain
  <2>9. OneFor(Received(g, StubGame), acct2mb', r)
    BY <1>0, <1>2, <2>1, <2>8, TakesACall
  <2>10. CASE acct2mb[m.id] = r
    <3>1. PlacesOf(wire, r) = {} /\ \A i \in Ids : acct2mb[i] = r => i = m.id
      BY <1>2, <2>2, <2>10 DEF OneFor
    <3>2. PlacesOf(Received(g, StubGame), r) = {}
      BY <1>0, <2>1, <3>1, ReceivedPlaces
    <3>3. NoneFor(Received(g, StubGame), acct2mb', r)
      BY <2>8, <3>1, <3>2 DEF NoneFor, NoGain
    <3> QED
      BY <2>4, <2>6, <2>8, <2>12, <3>3, SendsTheRight
  <2>11. CASE acct2mb[m.id] # r
    <3>1. ~Carries(x, r)
      BY <1>0, <2>2, <2>7, <2>11 DEF Carries
    <3> QED
      BY <2>4, <2>6, <2>8, <2>9, <2>12, <3>1, SendsNoRight
  <2> QED
    BY <2>10, <2>11
<1>4. CASE StubUnregisterAccount(g)
  <2>1. Delivers(g, StubGame, "unregister_account") /\ wire' = Received(g, StubGame)
    BY <1>4 DEF StubUnregisterAccount
  <2>2. acct2mb' = [acct2mb EXCEPT ![m.id] = NoEntity]
    BY <1>1, <1>4 DEF StubUnregisterAccount
  <2>3. NoGain(acct2mb, acct2mb', r)
    BY <1>0, <1>2, <2>2 DEF NoGain
  <2> QED
    BY <1>0, <1>2, <2>1, <2>3, TakesACall
<1>5. CASE StubRegisterRole(g)
  <2>1. Delivers(g, StubGame, "register_role")
    BY <1>5 DEF StubRegisterRole
  <2>2. m.id \in Ids /\ m.rid \in Ids /\ m.mb \in Roles /\ role[m.mb].rid = m.rid
    BY <1>0, <1>1, <2>1, HeadIsSound DEF CallOK
  <2>9. Received(g, StubGame) \in Wires
    BY <1>0, <2>1, ReceivedType DEF Wires
  <2>3. PICK x : x = [Call("on_register_role", m.mb) EXCEPT !.ok = AcceptsRole(m)]
    OBVIOUS
  <2>4. /\ acct2mb' = [acct2mb EXCEPT ![m.id] = EntryAfterRole(m)]
        /\ wire' = Sent(Received(g, StubGame), StubGame, x)
    BY <1>1, <1>5, <2>3 DEF StubRegisterRole
  <2>5. x \in CallType /\ x.fn = "on_register_role"
    <3>1. AcceptsRole(m) \in BOOLEAN
      BY DEF AcceptsRole
    <3> QED
      BY <2>2, <2>3, <3>1, CallTypes DEF Call
  <2>6. ~Carries(x, r)
    BY <2>5 DEF Carries
  <2>7. OneFor(Received(g, StubGame), acct2mb', r)
    <3>1. CASE AcceptsRole(m) /\ m.mb = r
      <4>1. role2mb[role[r].rid] # r
        BY <1>0, <2>2, <3>1 DEF AcceptsRole
      <4>2. NoneFor(wire, acct2mb, r)
        BY <4>1, RightsAreRegistered
      <4>3. PlacesOf(Received(g, StubGame), r) = {}
        BY <1>0, <1>2, <2>1, <4>2, ReceivedPlaces DEF NoneFor, OneFor
      <4>4. \A i \in Ids : acct2mb'[i] = r => i = m.id
        BY <1>2, <2>4, <4>2 DEF NoneFor
      <4> QED
        BY <4>3, <4>4 DEF OneFor
    <3>2. CASE ~(AcceptsRole(m) /\ m.mb = r)
      <4>1. EntryAfterRole(m) = r => acct2mb[m.id] = r
        BY <3>2 DEF EntryAfterRole
      <4>2. NoGain(acct2mb, acct2mb', r)
        BY <1>2, <2>4, <4>1 DEF NoGain
      <4> QED
        BY <1>0, <1>2, <2>1, <4>2, TakesACall
    <3> QED
      BY <3>1, <3>2
  <2>8. NoGain(acct2mb', acct2mb', r)
    BY DEF NoGain
  <2> QED
    BY <2>4, <2>5, <2>6, <2>7, <2>8, <2>9, SendsNoRight
<1>6. CASE StubUpdateByRelay(g)
  <2>1. Delivers(g, StubGame, "update_by_relay")
    BY <1>6 DEF StubUpdateByRelay
  <2>2. /\ m.fn = "update_by_relay" /\ m.id \in Ids /\ m.mb \in Roles
        /\ role2mb[m.rid] = m.mb
    BY <1>0, <1>1, <2>1, HeadIsSound DEF CallOK
  <2>3. acct2mb' = [acct2mb EXCEPT ![m.id] = m.mb]
    BY <1>1, <1>6, <2>2 DEF StubUpdateByRelay
  <2>4. wire' = Received(g, StubGame)
    <3>1. /\ role2mb[Head(wire[<<g, StubGame>>]).rid] = Head(wire[<<g, StubGame>>]).mb
          /\ Head(wire[<<g, StubGame>>]).mb # NoEntity
      BY <1>1, <2>2, EntityFacts
    <3> QED
      BY <1>6, <3>1 DEF StubUpdateByRelay
  <2>5. CASE m.mb = r
    <3>1. Carries(m, r)
      BY <2>2, <2>5 DEF Carries
    <3>2. NoGain(acct2mb, acct2mb, r)
      BY DEF NoGain
    <3>3. NoneFor(Received(g, StubGame), acct2mb, r)
      BY <1>0, <1>1, <1>2, <2>1, <3>1, <3>2, TakesACall
    <3>4. \A i \in Ids : acct2mb'[i] = r => i = m.id
      BY <1>2, <2>3, <3>3 DEF NoneFor
    <3> QED
      BY <2>4, <3>3, <3>4 DEF OneFor, NoneFor
  <2>6. CASE m.mb # r
    <3>1. NoGain(acct2mb, acct2mb', r)
      BY <1>2, <2>3, <2>6 DEF NoGain
    <3> QED
      BY <1>0, <1>2, <2>1, <2>4, <3>1, TakesACall
  <2> QED
    BY <2>5, <2>6
<1> QED
  BY <1>3, <1>4, <1>5, <1>6 DEF StubStep

(* The entities: each handler of the relay passes the right of the call it *)
(* takes on in the call it makes, or drops it.                             *)
LEMMA EntityKeepsRights ==
  ASSUME TypeOK, IInv, RightsAreUnique, NEW g \in Games, NEW h \in Games, EntityStep(g, h)
  PROVE  RightsAreUnique'
<1> SUFFICES ASSUME NEW r \in Roles PROVE OneFor(wire', acct2mb', r)
  BY DEF RightsAreUnique, OneFor, PlacesOf
<1>1. PICK m : m = Head(wire[<<g, h>>])
  OBVIOUS
<1>2. OneFor(wire, acct2mb, r) /\ NoGain(acct2mb, acct2mb, r) /\ r \notin Accounts
  BY EntityFacts DEF RightsAreUnique, NoGain
<1>3. UNCHANGED acct2mb
  BY DEF EntityStep, OnRegisterAccount, AccountOnRelayReady, RoleOnRelayReady, OnWaitLogin,
         AccountOnRelayLogin, RoleOnRelayLogin, OnRegisterRole, stubVars
<1>4. ASSUME NEW fn, Delivers(g, h, fn), wire' = Received(g, h)
      PROVE  OneFor(wire', acct2mb', r)
  BY <1>2, <1>3, <1>4, TakesACall
<1>5. ASSUME NEW fn, Delivers(g, h, fn), NEW x \in CallType,
             wire' = Sent(Received(g, h), h, x), Carries(x, r) => Carries(m, r)
      PROVE  OneFor(wire', acct2mb', r)
  <2>1. OneFor(Sent(Received(g, h), h, x), acct2mb, r)
    BY <1>1, <1>2, <1>5, PassesOn
  <2> QED
    BY <1>3, <1>5, <2>1
<1>6. CASE OnRegisterAccount(g, h)
  <2>1. Delivers(g, h, "on_register_account")
    BY <1>6 DEF OnRegisterAccount
  <2>2. m.fn = "on_register_account" /\ m.to \in Accounts /\ m.mb \in Entities
    BY <1>1, <2>1, HeadIsSound DEF CallType
  <2>3. CASE m.ok
    <3>1. wire' = Received(g, h)
      BY <1>1, <1>6, <2>3 DEF OnRegisterAccount
    <3> QED
      BY <1>4, <2>1, <3>1
  <2>4. CASE ~m.ok
    <3>1. PICK x : x = [Call("on_relay_ready", m.mb) EXCEPT !.mb = m.to]
      OBVIOUS
    <3>2. wire' = Sent(Received(g, h), h, x)
      BY <1>1, <1>6, <2>4, <3>1 DEF OnRegisterAccount
    <3>3. x \in CallType
      BY <2>2, <3>1, CallTypes
    <3>4. Carries(x, r) => Carries(m, r)
      BY <2>2, <3>1 DEF Carries, Call
    <3> QED
      BY <1>5, <2>1, <3>2, <3>3, <3>4
  <2> QED
    BY <2>3, <2>4
<1>7. CASE AccountOnRelayReady(g, h)
  <2>1. Delivers(g, h, "on_relay_ready")
    BY <1>7 DEF AccountOnRelayReady
  <2>2. m.mb \in Accounts
    BY <1>1, <2>1, HeadIsSound DEF CallType
  <2>3. PICK x : x = Call("on_relay_login", m.mb)
    OBVIOUS
  <2>4. wire' = Sent(Received(g, h), h, x)
    BY <1>1, <1>7, <2>3 DEF AccountOnRelayReady, Answer
  <2>5. x \in CallType
    BY <2>2, <2>3, CallTypes
  <2>6. Carries(x, r) => Carries(m, r)
    BY <1>2, <2>2, <2>3 DEF Carries, Call
  <2> QED
    BY <1>5, <2>1, <2>4, <2>5, <2>6
<1>8. CASE RoleOnRelayReady(g, h)
  <2>1. Delivers(g, h, "on_relay_ready")
    BY <1>8 DEF RoleOnRelayReady
  <2>2. m.fn = "on_relay_ready" /\ m.mb \in Accounts
    BY <1>1, <2>1, HeadIsSound DEF CallType
  <2>3. m.to \in Roles
    BY <1>1, <1>8 DEF RoleOnRelayReady
  <2>4. PICK x : x = [Call("on_wait_login", m.mb) EXCEPT !.mb = m.to]
    OBVIOUS
  <2>5. wire' = Sent(Received(g, h), h, x)
    BY <1>1, <1>8, <2>4 DEF RoleOnRelayReady
  <2>6. x \in CallType
    BY <2>2, <2>3, <2>4, CallTypes
  <2>7. Carries(x, r) => Carries(m, r)
    BY <2>2, <2>4 DEF Carries, Call
  <2> QED
    BY <1>5, <2>1, <2>5, <2>6, <2>7
<1>9. CASE OnWaitLogin(g, h)
  <2>1. Delivers(g, h, "on_wait_login")
    BY <1>9 DEF OnWaitLogin
  <2>2. m.fn = "on_wait_login" /\ m.to \in Accounts /\ m.mb \in Roles
    BY <1>1, <2>1, HeadIsSound DEF CallType
  <2>3. m.to[2] \in Clients
    BY <2>2, EntityFacts
  <2>4. PICK x : x = [Call("on_relay_login", m.mb) EXCEPT !.client = m.to[2]]
    OBVIOUS
  <2>5. wire' = Sent(Received(g, h), h, x)
    BY <1>1, <1>9, <2>4 DEF OnWaitLogin, Answer
  <2>6. x \in CallType
    BY <2>2, <2>3, <2>4, CallTypes
  <2>7. Carries(x, r) => Carries(m, r)
    BY <2>2, <2>4 DEF Carries, Call
  <2> QED
    BY <1>5, <2>1, <2>5, <2>6, <2>7
<1>10. CASE AccountOnRelayLogin(g, h)
  <2>1. Delivers(g, h, "on_relay_login") /\ wire' = Received(g, h)
    BY <1>10 DEF AccountOnRelayLogin
  <2> QED
    BY <1>4, <2>1
<1>11. CASE RoleOnRelayLogin(g, h)
  <2>1. Delivers(g, h, "on_relay_login")
    BY <1>11 DEF RoleOnRelayLogin
  <2>2. m.fn = "on_relay_login"
    BY <1>1, <2>1, HeadIsSound
  <2>3. m.to \in Roles
    BY <1>1, <1>11 DEF RoleOnRelayLogin
  <2>4. PICK x : x = [Call("update_by_relay", Stub) EXCEPT
                        !.id = role[m.to].id, !.rid = role[m.to].rid, !.mb = m.to]
    OBVIOUS
  <2>5. wire' = Sent(Received(g, h), h, x)
    BY <1>1, <1>11, <2>4 DEF RoleOnRelayLogin
  <2>6. role[m.to].id \in Ids /\ role[m.to].rid \in Ids
    BY <2>3 DEF TypeOK, RoleType
  <2>7. x \in CallType
    BY <2>3, <2>4, <2>6, CallTypes
  <2>8. Carries(x, r) => Carries(m, r)
    BY <2>2, <2>4 DEF Carries, Call
  <2> QED
    BY <1>5, <2>1, <2>5, <2>7, <2>8
<1>12. CASE OnRegisterRole(g, h)
  <2>1. Delivers(g, h, "on_register_role") /\ wire' = Received(g, h)
    BY <1>12 DEF OnRegisterRole
  <2> QED
    BY <1>4, <2>1
<1> QED
  BY <1>6, <1>7, <1>8, <1>9, <1>10, <1>11, <1>12 DEF EntityStep

-----------------------------------------------------------------------------
LEMMA InitRights == Init => RightsAreUnique
<1> SUFFICES ASSUME Init, NEW r \in Roles PROVE OneFor(wire, acct2mb, r)
  BY DEF RightsAreUnique
<1>1. \A l \in Games \X Games : DOMAIN wire[l] = {}
  BY DEF Init
<1>2. PlacesOf(wire, r) = {}
  BY <1>1 DEF PlacesOf
<1>3. \A i \in Ids : acct2mb[i] # r
  BY EntityFacts DEF Init
<1> QED
  BY <1>2, <1>3 DEF OneFor

LEMMA NextKeepsRights == TypeOK /\ IInv /\ RightsAreUnique /\ [Next]_vars => RightsAreUnique'
<1> SUFFICES ASSUME TypeOK, IInv, RightsAreUnique, [Next]_vars PROVE RightsAreUnique'
  OBVIOUS
<1>1. ASSUME NEW q \in db, Execute(q) \/ LoseRequest(q) PROVE RightsAreUnique'
  <2>1. UNCHANGED <<wire, acct2mb>>
    BY <1>1 DEF Execute, LoseRequest, stubVars
  <2> QED
    BY <2>1, SilentKeepsRights
<1>2. CASE Next
  BY <1>1, <1>2, GateAndTransferKeepRights, StubKeepsRights, EntityKeepsRights,
     CallbacksKeepRights DEF Next
<1>3. CASE UNCHANGED vars
  BY <1>3, SilentKeepsRights DEF vars
<1> QED
  BY <1>2, <1>3

(* At most one entry or one call, never both: at most one right.           *)
LEMMA RightsAreCounted == TypeOK /\ RightsAreUnique => OneRelayAtATime
<1> SUFFICES ASSUME TypeOK, RightsAreUnique, NEW r \in Roles
             PROVE  Cardinality(RelayRights(r)) <= 1
  BY DEF OneRelayAtATime
<1> DEFINE Held == {i \in Ids : acct2mb[i] = r}
<1>1. OneFor(wire, acct2mb, r)
  BY DEF RightsAreUnique
<1>2. \A x \in RelayRights(r) : x \in Held \/ x \in PlacesOf(wire, r)
  <2> SUFFICES ASSUME NEW x \in RelayRights(r), x \notin Held PROVE x \in PlacesOf(wire, r)
    OBVIOUS
  <2>1. PICK l \in Games \X Games :
          \E i \in DOMAIN wire[l] : x = <<l, i>> /\ Carries(wire[l][i], r)
    BY DEF RelayRights, Carries
  <2>2. PICK i \in DOMAIN wire[l] : x = <<l, i>> /\ Carries(wire[l][i], r)
    BY <2>1
  <2>3. wire[l] \in Seq(CallType)
    BY DEF TypeOK
  <2>4. i \in Nat \ {0}
    BY <2>3
  <2> QED
    BY <2>2, <2>4 DEF PlacesOf
<1>3. \A x, y \in RelayRights(r) : x = y
  BY <1>1, <1>2 DEF OneFor
<1>4. CASE RelayRights(r) = {}
  BY <1>4, FS_EmptySet
<1>5. CASE RelayRights(r) # {}
  <2>1. PICK x : x \in RelayRights(r)
    BY <1>5
  <2>2. RelayRights(r) = {x}
    BY <1>3, <2>1
  <2>3. Cardinality({x}) = 1
    BY FS_Singleton
  <2>4. Cardinality(RelayRights(r)) = 1
    BY <2>2, <2>3
  <2> QED
    BY <2>4
<1> QED
  BY <1>4, <1>5

(* However logins, relays and disconnections of a user overlap, a role is  *)
(* promised to one newcomer at a time: the right to take it over is in one *)
(* entry of the account map or in one call under way, from the reply of    *)
(* register_account to the role's update_by_relay.                         *)
THEOREM RelayIsPromisedOnce == Spec => []OneRelayAtATime
<1>1. Spec => []RightsAreUnique
  BY TypeCorrect, CallsKeepTheirPromise, InitRights, NextKeepsRights, PTL DEF Spec
<1> QED
  BY <1>1, TypeCorrect, RightsAreCounted, PTL

-----------------------------------------------------------------------------
(* What the clients have been told: the client of a role that is being     *)
(* handed over has been sent "kick" once the hand-over is under way, and a *)
(* client that was told "success" and not "kick" plays a registered role.  *)
RolesHaveClients == \A r \in Roles : role[r].home # NoGame => role[r].client \in Clients

KickSent(m) ==
  /\ m.fn = "on_wait_login" => "kick" \in told[role[m.mb].client]
  /\ m.fn = "on_relay_login" /\ m.to \in Roles => "kick" \in told[role[m.to].client]
KicksAreSent == \A m \in InFlight : KickSent(m)

Plays(c) == \E r \in Roles : Registered(r) /\ role[r].client = c
UnkickedPlay == \A c \in Clients : "success" \in told[c] => "kick" \in told[c] \/ Plays(c)

KickInv == RolesHaveClients /\ KicksAreSent /\ UnkickedPlay

(* What every step but the end of a hand-over leaves alone: the client and *)
(* the registration of a role that was made, and what was told.            *)
RolesStay ==
  /\ \A r \in Roles : role[r].home # NoGame =>
       role'[r].home # NoGame /\ role'[r].rid = role[r].rid /\ role'[r].client = role[r].client
  /\ \A r \in Roles : role[r].home = NoGame /\ role'[r].home # NoGame => role'[r].client \in Clients
  /\ \A i \in Ids : role2mb[i] # NoEntity => role2mb'[i] = role2mb[i]
ToldGrows == \A c \in Clients : told[c] \subseteq told'[c]

LEMMA RegisteredStay ==
  ASSUME TypeOK, RolesStay
  PROVE  \A r : Registered(r) => Registered(r)' /\ role'[r].client = role[r].client
<1> SUFFICES ASSUME NEW r, Registered(r)
             PROVE  Registered(r)' /\ role'[r].client = role[r].client
  OBVIOUS
<1>1. r \in Roles /\ role[r].home # NoGame /\ role2mb[role[r].rid] = r
  BY DEF Registered
<1>2. role[r].rid \in Ids /\ r # NoEntity
  BY <1>1, EntityFacts DEF TypeOK, RoleType
<1>3. role'[r].rid = role[r].rid /\ role'[r].home # NoGame /\ role'[r].client = role[r].client
  BY <1>1 DEF RolesStay
<1>4. role2mb'[role[r].rid] = role2mb[role[r].rid]
  BY <1>1, <1>2 DEF RolesStay
<1> QED
  BY <1>1, <1>3, <1>4 DEF Registered

(* The role a call of a hand-over is about.                                *)
LEMMA HandOverIsRegistered ==
  ASSUME IInv, NEW m \in InFlight
  PROVE  /\ m.fn = "on_wait_login" => Registered(m.mb)
         /\ m.fn = "on_relay_login" /\ m.to \in Roles => Registered(m.to)
<1>1. CallOK(m)
  BY DEF IInv, CallsAreSound
<1>2. m.fn = "on_wait_login" => Registered(m.mb)
  BY <1>1 DEF CallOK
<1>3. m.fn = "on_relay_login" /\ m.to \in Roles => Registered(m.to)
  BY <1>1, EntityFacts DEF CallOK, Made
<1> QED
  BY <1>2, <1>3

(* A step keeps the invariant when the calls it adds keep it and whoever   *)
(* it tells "success" plays a role.                                        *)
LEMMA KickStep ==
  ASSUME TypeOK, TypeOK', IInv, KickInv, RolesStay, ToldGrows,
         \A x \in CallsIn(wire') : x \in InFlight \/ KickSent(x)',
         \A c \in Clients : "success" \in told'[c] => "success" \in told[c] \/ Plays(c)'
  PROVE  KickInv'
<1>1. \A r : Registered(r) => Registered(r)' /\ role'[r].client = role[r].client
  BY RegisteredStay
<1>2. RolesHaveClients'
  BY DEF KickInv, RolesHaveClients, RolesStay
<1>3. ASSUME NEW x \in InFlight PROVE KickSent(x)'
  <2>1. KickSent(x)
    BY DEF KickInv, KicksAreSent
  <2>2. ASSUME NEW r, Registered(r), "kick" \in told[role[r].client]
        PROVE  "kick" \in told'[role'[r].client]
    <3>1. role'[r].client = role[r].client /\ role[r].client \in Clients
      BY <1>1, <2>2 DEF KickInv, RolesHaveClients, Registered
    <3> QED
      BY <2>2, <3>1 DEF ToldGrows
  <2> QED
    BY <2>1, <2>2, HandOverIsRegistered DEF KickSent
<1>4. KicksAreSent'
  BY <1>3 DEF KicksAreSent, InFlight, CallsIn
<1>5. ASSUME NEW c \in Clients, Plays(c) PROVE Plays(c)'
  BY <1>1, <1>5 DEF Plays
<1>6. UnkickedPlay'
  BY <1>5 DEF KickInv, UnkickedPlay, ToldGrows
<1> QED
  BY <1>2, <1>4, <1>6 DEF KickInv

(* Most calls are about no hand-over.                                      *)
Plain(m) == m.fn # "on_wait_login" /\ (m.fn = "on_relay_login" => m.to \in Accounts)

LEMMA PlainKickSent == \A m : Plain(m) => KickSent(m) /\ KickSent(m)'
BY EntityFacts DEF Plain, KickSent

LEMMA QuietKickStep ==
  ASSUME TypeOK, TypeOK', IInv, KickInv, UNCHANGED <<role, role2mb, told>>,
         \A x \in CallsIn(wire') : x \in InFlight \/ Plain(x)
  PROVE  KickInv'
<1>1. RolesStay /\ ToldGrows
  BY DEF RolesStay, ToldGrows
<1>2. \A x \in CallsIn(wire') : x \in InFlight \/ KickSent(x)'
  BY PlainKickSent
<1> QED
  BY <1>1, <1>2, KickStep

LEMMA SentPlain ==
  ASSUME TypeOK, NEW g, NEW m \in CallType, Plain(m), wire' = Sent(wire, g, m)
  PROVE  \A x \in CallsIn(wire') : x \in InFlight \/ Plain(x)
BY SentCalls DEF TypeOK, InFlight

LEMMA AnsweredPlain ==
  ASSUME TypeOK, NEW g \in Games, NEW h \in Games, NEW fn, Delivers(g, h, fn), NEW m \in CallType,
         Plain(m), wire' = Sent(Received(g, h), h, m)
  PROVE  \A x \in CallsIn(wire') : x \in InFlight \/ Plain(x)
BY AnsweredCalls

LEMMA TakenPlain ==
  ASSUME TypeOK, NEW g \in Games, NEW h \in Games, NEW fn, Delivers(g, h, fn), wire' = Received(g, h)
  PROVE  \A x \in CallsIn(wire') : x \in InFlight \/ Plain(x)
BY ReceivedCalls

LEMMA GateAndTransferKick ==
  ASSUME TypeOK, TypeOK', IInv, KickInv, GateStep \/ \E g \in Games : TransferStep(g)
  PROVE  KickInv'
<1>1. CASE GateStep
  <2>1. UNCHANGED <<wire, role, role2mb, told>>
    BY <1>1 DEF GateStep, ProcessLogin, ProcessCreateRole, OnClientDisconnect,
                UpdateClientProcessInfo, stubVars
  <2> QED
    BY <2>1, QuietKickStep DEF InFlight
<1>2. ASSUME NEW g \in Games, DisconnectAccount(g) PROVE KickInv'
  <2> DEFINE a == Current(g)
  <2>1. a \in Accounts /\ UNCHANGED <<role, role2mb, told>>
    BY <1>2 DEF DisconnectAccount, stubVars
  <2>2. CASE account[a].destroyed
    <3>1. UNCHANGED wire
      BY <1>2, <2>2 DEF DisconnectAccount
    <3> QED
      BY <2>1, <3>1, QuietKickStep DEF InFlight
  <2>3. CASE ~account[a].destroyed
    <3>1. PICK m : m = [Call("unregister_account", Stub) EXCEPT !.id = account[a].id]
      OBVIOUS
    <3>2. m \in CallType /\ Plain(m)
      BY <2>1, <3>1, AccountUpdates, CallTypes DEF Call, Plain
    <3>3. wire' = Sent(wire, g, m)
      BY <1>2, <2>3, <3>1 DEF DisconnectAccount
    <3> QED
      BY <2>1, <3>2, <3>3, SentPlain, QuietKickStep
  <2> QED
    BY <2>2, <2>3
<1>3. ASSUME NEW g \in Games, DisconnectRole(g) PROVE KickInv'
  <2>1. Current(g) \in Roles /\ UNCHANGED <<wire, role2mb, told>>
    BY <1>3 DEF DisconnectRole, stubVars
  <2>2. UNCHANGED role \/ role' = [role EXCEPT ![Current(g)].status = "DISCONNECT"]
    BY <1>3 DEF DisconnectRole
  <2>3. \A r \in Roles : /\ role'[r].home = role[r].home /\ role'[r].rid = role[r].rid
                         /\ role'[r].client = role[r].client
    <3>1. role \in [Roles -> RoleType]
      BY DEF TypeOK
    <3> QED
      BY <2>1, <2>2, <3>1 DEF RoleType
  <2>4. RolesStay /\ ToldGrows
    BY <2>1, <2>3 DEF RolesStay, ToldGrows
  <2> QED
    BY <2>1, <2>4, KickStep DEF InFlight
<1>4. ASSUME NEW g \in Games, TransferStep(g), ~DisconnectAccount(g), ~DisconnectRole(g)
      PROVE  KickInv'
  <2>1. UNCHANGED <<wire, role, role2mb, told>>
    BY <1>4 DEF TransferStep, CreateAccountEntity, LoginAgain, CreateRole, DropTransfer, stubVars
  <2> QED
    BY <2>1, QuietKickStep DEF InFlight
<1> QED
  BY <1>1, <1>2, <1>3, <1>4

(* A role entity that is made has the client of its account.               *)
LEMMA LoginSuccessKick ==
  ASSUME TypeOK, TypeOK', IInv, KickInv, NEW a \in Accounts, LoginSuccess(a),
         UNCHANGED <<role2mb, told>>
  PROVE  KickInv'
<1>1. PICK n \in 1..MaxRole :
        LET r == <<"role", a[2], n>> IN
        /\ role[r].home = NoGame
        /\ role' = [role EXCEPT ![r] = [home |-> account[a].home, id |-> account[a].id,
                                        rid |-> account[a].rid, status |-> "INVALID", client |-> a[2]]]
        /\ wire' = Sent(wire, account[a].home,
                        [Call("register_role", Stub) EXCEPT
                           !.id = account[a].id, !.rid = account[a].rid, !.mb = r])
  BY DEF LoginSuccess
<1>2. PICK r : r = <<"role", a[2], n>>
  OBVIOUS
<1>3. r \in Roles /\ a[2] \in Clients /\ account[a].id \in Ids /\ account[a].rid \in Ids
  BY <1>2, EntityFacts, AccountUpdates
<1>4. PICK m : m = [Call("register_role", Stub) EXCEPT
                      !.id = account[a].id, !.rid = account[a].rid, !.mb = r]
  OBVIOUS
<1>5. m \in CallType /\ Plain(m)
  BY <1>3, <1>4, CallTypes DEF Call, Plain
<1>6. \A x \in CallsIn(wire') : x \in InFlight \/ KickSent(x)'
  BY <1>1, <1>2, <1>4, <1>5, SentPlain, PlainKickSent
<1>7. /\ role[r].home = NoGame /\ role'[r].client = a[2]
      /\ \A s \in Roles : s # r => role'[s] = role[s]
  BY <1>1, <1>2, <1>3 DEF TypeOK
<1>8. RolesStay /\ ToldGrows
  BY <1>3, <1>7 DEF RolesStay, ToldGrows
<1> QED
  BY <1>6, <1>8, KickStep

LEMMA CallbacksKick ==
  ASSUME TypeOK, TypeOK', IInv, KickInv, NEW q \in db, CallbackStep(q)
  PROVE  KickInv'
<1>1. q.who \in Accounts /\ q.who[2] \in Clients /\ q.found \in Ids \cup {NoId}
  BY EntityFacts DEF TypeOK, RequestType
<1>2. UNCHANGED role2mb
  BY DEF CallbackStep, OnLoadAccount, OnSaveAccount, OnLoadRole, OnSaveRole, stubVars
<1>3. ASSUME NEW i \in Ids, wire' = Sent(wire, account[q.who].home, RegisterCall(q.who, i)),
             UNCHANGED <<role, told>>
      PROVE  KickInv'
  <2>1. PICK m : m = RegisterCall(q.who, i)
    OBVIOUS
  <2>2. m \in CallType /\ Plain(m)
    BY <1>1, <2>1, CallTypes DEF RegisterCall, Call, Plain
  <2> QED
    BY <1>2, <1>3, <2>1, <2>2, SentPlain, QuietKickStep
<1>4. CASE OnLoadAccount(q)
  <2>1. UNCHANGED <<role, told>>
    BY <1>4 DEF OnLoadAccount
  <2>2. CASE q.found = NoId
    <3>1. UNCHANGED wire
      BY <1>4, <2>2 DEF OnLoadAccount
    <3> QED
      BY <1>2, <2>1, <3>1, QuietKickStep DEF InFlight
  <2>3. CASE q.found # NoId
    <3>1. LoadedId(q) \in Ids
      BY <1>1, <2>3 DEF LoadedId
    <3> QED
      BY <1>3, <1>4, <2>1, <2>3, <3>1 DEF OnLoadAccount
  <2> QED
    BY <2>2, <2>3
<1>5. CASE OnSaveAccount(q)
  <2>1. account[q.who].id \in Ids
    BY <1>1, AccountUpdates
  <2> QED
    BY <1>3, <1>5, <2>1 DEF OnSaveAccount
<1>6. CASE OnLoadRole(q)
  <2>1. CASE UNCHANGED <<told, role, wire>>
    BY <1>2, <2>1, QuietKickStep DEF InFlight
  <2>2. CASE Tell(q.who[2], "create_role") /\ UNCHANGED <<role, wire>>
    <3>1. \A c \in Clients : told'[c] = told[c] \/ told'[c] = told[c] \cup {"create_role"}
      BY <1>1, <2>2 DEF Tell, TypeOK
    <3>2. RolesStay /\ ToldGrows
      BY <1>2, <2>2, <3>1 DEF RolesStay, ToldGrows
    <3> QED
      BY <2>2, <3>1, <3>2, KickStep DEF InFlight
  <2>3. CASE LoginSuccess(q.who) /\ UNCHANGED told
    BY <1>1, <1>2, <2>3, LoginSuccessKick
  <2> QED
    BY <1>6, <2>1, <2>2, <2>3 DEF OnLoadRole
<1>7. CASE OnSaveRole(q)
  BY <1>1, <1>2, <1>7, LoginSuccessKick DEF OnSaveRole
<1> QED
  BY <1>4, <1>5, <1>6, <1>7 DEF CallbackStep

LEMMA StubKick ==
  ASSUME TypeOK, TypeOK', IInv, KickInv, NEW g \in Games, StubStep(g)
  PROVE  KickInv'
<1>0. StubGame \in Games
  BY ConstantsAssumption
<1>1. PICK m : m = Head(wire[<<g, StubGame>>])
  OBVIOUS
<1>2. CASE StubRegisterAccount(g)
  <2>1. Delivers(g, StubGame, "register_account")
    BY <1>2 DEF StubRegisterAccount
  <2>2. m.id \in Ids /\ m.mb \in Accounts
    BY <1>0, <1>1, <2>1, HeadIsSound DEF CallOK, Made
  <2>3. PICK x : x = RegisterReply(m, acct2mb[m.id])
    OBVIOUS
  <2>4. /\ wire' = Sent(Received(g, StubGame), StubGame, x)
        /\ UNCHANGED <<role, role2mb, told>>
    BY <1>1, <1>2, <2>3 DEF StubRegisterAccount
  <2>5. acct2mb[m.id] \in Entities \cup {NoEntity}
    BY <2>2 DEF TypeOK
  <2>6. x \in CallType
    BY <2>2, <2>3, <2>5, CallTypes DEF RegisterReply
  <2>7. Plain(x)
    BY <2>3 DEF RegisterReply, Call, Plain
  <2> QED
    BY <1>0, <2>1, <2>4, <2>6, <2>7, AnsweredPlain, QuietKickStep
<1>3. CASE StubUnregisterAccount(g)
  <2>1. Delivers(g, StubGame, "unregister_account") /\ wire' = Received(g, StubGame)
    BY <1>3 DEF StubUnregisterAccount
  <2>2. UNCHANGED <<role, role2mb, told>>
    BY <1>3 DEF StubUnregisterAccount
  <2> QED
    BY <1>0, <2>1, <2>2, TakenPlain, QuietKickStep
<1>4. CASE StubRegisterRole(g)
  <2>1. Delivers(g, StubGame, "register_role")
    BY <1>4 DEF StubRegisterRole
  <2>2. m.rid \in Ids /\ m.mb \in Roles
    BY <1>0, <1>1, <2>1, HeadIsSound DEF CallOK
  <2>3. PICK x : x = [Call("on_register_role", m.mb) EXCEPT !.ok = AcceptsRole(m)]
    OBVIOUS
  <2>4. /\ wire' = Sent(Received(g, StubGame), StubGame, x)
        /\ role2mb' = IF AcceptsRole(m) THEN [role2mb EXCEPT ![m.rid] = m.mb] ELSE role2mb
        /\ UNCHANGED <<role, told>>
    BY <1>1, <1>4, <2>3 DEF StubRegisterRole
  <2>5. x \in CallType /\ Plain(x)
    <3>1. AcceptsRole(m) \in BOOLEAN
      BY DEF AcceptsRole
    <3> QED
      BY <2>2, <2>3, <3>1, CallTypes DEF Call, Plain
  <2>6. \A y \in CallsIn(wire') : y \in InFlight \/ KickSent(y)'
    BY <1>0, <2>1, <2>4, <2>5, AnsweredPlain, PlainKickSent
  <2>7. \A i \in Ids : role2mb[i] # NoEntity => role2mb'[i] = role2mb[i]
    BY <2>2, <2>4 DEF AcceptsRole, TypeOK
  <2>8. RolesStay /\ ToldGrows
    BY <2>4, <2>7 DEF RolesStay, ToldGrows
  <2> QED
    BY <2>4, <2>6, <2>8, KickStep
<1>5. CASE StubUpdateByRelay(g)
  <2>1. Delivers(g, StubGame, "update_by_relay")
    BY <1>5 DEF StubUpdateByRelay
  <2>2. m.mb \in Roles /\ role2mb[m.rid] = m.mb
    BY <1>0, <1>1, <2>1, HeadIsSound DEF CallOK
  <2>3. wire' = Received(g, StubGame) /\ UNCHANGED <<role, role2mb, told>>
    <3>1. /\ role2mb[Head(wire[<<g, StubGame>>]).rid] = Head(wire[<<g, StubGame>>]).mb
          /\ Head(wire[<<g, StubGame>>]).mb # NoEntity
      BY <1>1, <2>2, EntityFacts
    <3> QED
      BY <1>5, <3>1 DEF StubUpdateByRelay
  <2> QED
    BY <1>0, <2>1, <2>3, TakenPlain, QuietKickStep
<1> QED
  BY <1>2, <1>3, <1>4, <1>5 DEF StubStep

LEMMA NoPlaceNoCall ==
  ASSUME NEW w \in Wires, NEW r, PlacesOf(w, r) = {}, NEW m \in CallsIn(w)
  PROVE  ~Carries(m, r)
<1>1. PICK k \in Games \X Games : \E i \in DOMAIN w[k] : m = w[k][i]
  BY DEF CallsIn
<1>2. PICK i \in DOMAIN w[k] : m = w[k][i]
  BY <1>1
<1>3. i \in Nat \ {0}
  BY <1>2 DEF Wires
<1> SUFFICES ASSUME Carries(m, r) PROVE <<k, i>> \in PlacesOf(w, r)
  OBVIOUS
<1> QED
  BY <1>2, <1>3 DEF PlacesOf

(* The end of a hand-over: nobody else has a right to the role, so no call *)
(* under way speaks of the client that leaves it.                          *)
LEMMA HandOverEnds ==
  ASSUME TypeOK, TypeOK', IInv, RightsAreUnique, KickInv,
         NEW g \in Games, NEW h \in Games, RoleOnRelayLogin(g, h)
  PROVE  /\ KickInv'
         /\ \A r \in Roles : role'[r].client # role[r].client => "kick" \in told[role[r].client]
<1>1. PICK m : m = Head(wire[<<g, h>>])
  OBVIOUS
<1>2. Delivers(g, h, "on_relay_login")
  BY DEF RoleOnRelayLogin
<1>3. m \in CallType /\ m.fn = "on_relay_login" /\ CallOK(m) /\ m \in InFlight
  BY <1>1, <1>2, HeadIsSound, ReceivedCalls
<1>4. PICK s \in Roles : s = m.to
  BY <1>1 DEF RoleOnRelayLogin
<1>5. Registered(s) /\ m.client \in Clients
  BY <1>3, <1>4, EntityFacts DEF CallOK, Made
<1>6. PICK x : x = [Call("update_by_relay", Stub) EXCEPT
                      !.id = role[s].id, !.rid = role[s].rid, !.mb = s]
  OBVIOUS
<1>7. /\ role' = [role EXCEPT ![s].status = "NORMAL", ![s].client = m.client]
      /\ wire' = Sent(Received(g, h), h, x)
      /\ told' = [told EXCEPT ![m.client] = @ \cup {"success"}]
      /\ UNCHANGED role2mb
  BY <1>1, <1>4, <1>6 DEF RoleOnRelayLogin, Tell, stubVars
<1>8. /\ \A r \in Roles : /\ role'[r].home = role[r].home /\ role'[r].rid = role[r].rid
                          /\ r # s => role'[r].client = role[r].client
      /\ role'[s].client = m.client
  <2>1. role \in [Roles -> RoleType]
    BY DEF TypeOK
  <2> QED
    BY <1>7, <2>1 DEF RoleType
<1>9. /\ \A c \in Clients : told[c] \subseteq told'[c]
      /\ \A c \in Clients : "success" \in told'[c] => "success" \in told[c] \/ c = m.client
  BY <1>5, <1>7 DEF TypeOK
<1>10. KickSent(m) /\ "kick" \in told[role[s].client]
  BY <1>3, <1>4 DEF KickInv, KicksAreSent, KickSent
<1>11. \A r : Registered(r) <=> Registered(r)'
  BY <1>7, <1>8 DEF Registered
<1>12. RolesHaveClients'
  BY <1>5, <1>8 DEF KickInv, RolesHaveClients
<1>13. PlacesOf(Received(g, h), s) = {}
  <2>1. OneFor(wire, acct2mb, s) /\ NoGain(acct2mb, acct2mb, s)
    BY DEF RightsAreUnique, NoGain
  <2>2. Carries(m, s)
    BY <1>3, <1>4 DEF Carries
  <2>3. NoneFor(Received(g, h), acct2mb, s)
    BY <1>1, <1>2, <2>1, <2>2, TakesACall
  <2> QED
    BY <2>3 DEF NoneFor
<1>14. ASSUME NEW y \in CallsIn(Received(g, h)) PROVE KickSent(y)'
  <2>1. ~Carries(y, s)
    <3>1. Received(g, h) \in Wires
      BY <1>2, ReceivedType DEF Wires
    <3> QED
      BY <1>13, <3>1, NoPlaceNoCall
  <2>2. y \in InFlight /\ KickSent(y)
    BY <1>2, ReceivedCalls DEF KickInv, KicksAreSent
  <2>3. ASSUME NEW r, r # s, Registered(r), "kick" \in told[role[r].client]
        PROVE  "kick" \in told'[role'[r].client]
    <3>1. role'[r].client = role[r].client /\ role[r].client \in Clients
      BY <1>8, <2>3 DEF KickInv, RolesHaveClients, Registered
    <3> QED
      BY <1>9, <2>3, <3>1
  <2>4. /\ y.fn = "on_wait_login" => Registered(y.mb) /\ y.mb # s
        /\ y.fn = "on_relay_login" /\ y.to \in Roles => Registered(y.to) /\ y.to # s
    BY <2>1, <2>2, HandOverIsRegistered DEF Carries
  <2> QED
    BY <2>2, <2>3, <2>4 DEF KickSent
<1>15. KicksAreSent'
  <2>1. role[s].id \in Ids /\ role[s].rid \in Ids
    BY DEF TypeOK, RoleType
  <2>2. x \in CallType /\ Plain(x)
    BY <1>6, <2>1, CallTypes DEF Call, Plain
  <2>3. Received(g, h) \in [Games \X Games -> Seq(CallType)]
    BY <1>2, ReceivedType
  <2>4. \A y \in CallsIn(wire') : y \in CallsIn(Received(g, h)) \/ y = x
    BY <1>7, <2>2, <2>3, SentCalls
  <2>5. \A y \in CallsIn(wire') : KickSent(y)'
    BY <1>14, <2>2, <2>4, PlainKickSent
  <2> QED
    BY <2>5 DEF KicksAreSent, InFlight, CallsIn
<1>16. UnkickedPlay'
  <2> SUFFICES ASSUME NEW c \in Clients, "success" \in told'[c], "kick" \notin told'[c]
               PROVE  Plays(c)'
    BY DEF UnkickedPlay
  <2>1. CASE c = m.client
    BY <1>5, <1>8, <1>11, <2>1 DEF Plays
  <2>2. CASE c # m.client
    <3>1. "success" \in told[c] /\ "kick" \notin told[c]
      BY <1>9, <2>2
    <3>2. PICK r \in Roles : Registered(r) /\ role[r].client = c
      BY <3>1 DEF KickInv, UnkickedPlay, Plays
    <3>3. r # s
      BY <1>10, <3>1, <3>2
    <3> QED
      BY <1>8, <1>11, <3>2, <3>3 DEF Plays
  <2> QED
    BY <2>1, <2>2
<1> QED
  BY <1>8, <1>10, <1>12, <1>15, <1>16 DEF KickInv

LEMMA EntityKick ==
  ASSUME TypeOK, TypeOK', IInv, RightsAreUnique, KickInv,
         NEW g \in Games, NEW h \in Games, EntityStep(g, h)
  PROVE  KickInv'
<1>1. PICK m : m = Head(wire[<<g, h>>])
  OBVIOUS
<1>2. CASE OnRegisterAccount(g, h)
  <2>1. Delivers(g, h, "on_register_account")
    BY <1>2 DEF OnRegisterAccount
  <2>2. m.to \in Accounts /\ m.mb \in Entities
    BY <1>1, <2>1, HeadIsSound DEF CallType
  <2>3. UNCHANGED <<role, role2mb, told>>
    BY <1>2 DEF OnRegisterAccount, stubVars
  <2>4. CASE m.ok
    <3>1. wire' = Received(g, h)
      BY <1>1, <1>2, <2>4 DEF OnRegisterAccount
    <3> QED
      BY <2>1, <2>3, <3>1, TakenPlain, QuietKickStep
  <2>5. CASE ~m.ok
    <3>1. PICK x : x = [Call("on_relay_ready", m.mb) EXCEPT !.mb = m.to]
      OBVIOUS
    <3>2. wire' = Sent(Received(g, h), h, x)
      BY <1>1, <1>2, <2>5, <3>1 DEF OnRegisterAccount
    <3>3. x \in CallType /\ Plain(x)
      BY <2>2, <3>1, CallTypes DEF Call, Plain
    <3> QED
      BY <2>1, <2>3, <3>2, <3>3, AnsweredPlain, QuietKickStep
  <2> QED
    BY <2>4, <2>5
<1>3. CASE AccountOnRelayReady(g, h)
  <2>1. Delivers(g, h, "on_relay_ready")
    BY <1>3 DEF AccountOnRelayReady
  <2>2. m.mb \in Accounts
    BY <1>1, <2>1, HeadIsSound DEF CallType
  <2>3. PICK x : x = Call("on_relay_login", m.mb)
    OBVIOUS
  <2>4. /\ wire' = Sent(Received(g, h), h, x) /\ UNCHANGED <<role, role2mb>>
        /\ m.to \in Accounts /\ told' = [told EXCEPT ![m.to[2]] = @ \cup {"refused"}]
    BY <1>1, <1>3, <2>3 DEF AccountOnRelayReady, Answer, Tell, stubVars
  <2>5. x \in CallType /\ Plain(x)
    BY <2>2, <2>3, CallTypes DEF Call, Plain
  <2>6. \A y \in CallsIn(wire') : y \in InFlight \/ KickSent(y)'
    BY <2>1, <2>4, <2>5, AnsweredPlain, PlainKickSent
  <2>7. \A c \in Clients : told'[c] = told[c] \/ told'[c] = told[c] \cup {"refused"}
    BY <2>4 DEF TypeOK
  <2>8. RolesStay /\ ToldGrows
    BY <2>4, <2>7 DEF RolesStay, ToldGrows
  <2>9. \A c \in Clients : "success" \in told'[c] => "success" \in told[c]
    BY <2>7
  <2> QED
    BY <2>6, <2>8, <2>9, KickStep
<1>4. CASE RoleOnRelayReady(g, h)
  <2>1. Delivers(g, h, "on_relay_ready")
    BY <1>4 DEF RoleOnRelayReady
  <2>2. m.fn = "on_relay_ready" /\ m.mb \in Accounts /\ CallOK(m)
    BY <1>1, <2>1, HeadIsSound DEF CallType
  <2>3. PICK s \in Roles : s = m.to
    BY <1>1, <1>4 DEF RoleOnRelayReady
  <2>4. PICK x : x = [Call("on_wait_login", m.mb) EXCEPT !.mb = s]
    OBVIOUS
  <2>5. /\ wire' = Sent(Received(g, h), h, x) /\ UNCHANGED role2mb
        /\ role' = [role EXCEPT ![s].status = "RELAY"]
        /\ told' = [told EXCEPT ![role[s].client] = @ \cup {"kick"}]
    BY <1>1, <1>4, <2>3, <2>4 DEF RoleOnRelayReady, KickCurrent, Tell, stubVars
  <2>6. x \in CallType /\ x.fn = "on_wait_login" /\ x.mb = s
    BY <2>2, <2>3, <2>4, CallTypes DEF Call
  <2>7. Registered(s)
    BY <2>2, <2>3, EntityFacts DEF CallOK, Holder, Made
  <2>8. role[s].client \in Clients
    BY <2>7 DEF KickInv, RolesHaveClients, Registered
  <2>9. \A r \in Roles : /\ role'[r].home = role[r].home /\ role'[r].rid = role[r].rid
                         /\ role'[r].client = role[r].client
    <3>1. role \in [Roles -> RoleType]
      BY DEF TypeOK
    <3> QED
      BY <2>5, <3>1 DEF RoleType
  <2>10. /\ "kick" \in told'[role[s].client]
         /\ \A c \in Clients : told'[c] = told[c] \/ told'[c] = told[c] \cup {"kick"}
    BY <2>5, <2>8 DEF TypeOK
  <2>11. KickSent(x)'
    BY <2>6, <2>9, <2>10 DEF KickSent
  <2>12. \A y \in CallsIn(wire') : y \in InFlight \/ KickSent(y)'
    BY <2>1, <2>5, <2>6, <2>11, AnsweredCalls
  <2>13. RolesStay /\ ToldGrows
    BY <2>5, <2>9, <2>10 DEF RolesStay, ToldGrows
  <2>14. \A c \in Clients : "success" \in told'[c] => "success" \in told[c]
    BY <2>10
  <2> QED
    BY <2>12, <2>13, <2>14, KickStep
<1>5. CASE OnWaitLogin(g, h)
  <2>1. Delivers(g, h, "on_wait_login")
    BY <1>5 DEF OnWaitLogin
  <2>2. /\ m.fn = "on_wait_login" /\ m.to \in Accounts /\ m.mb \in Roles
        /\ m \in InFlight /\ Registered(m.mb)
    BY <1>1, <2>1, HeadIsSound, ReceivedCalls, HandOverIsRegistered DEF CallType
  <2>3. m.to[2] \in Clients
    BY <2>2, EntityFacts
  <2>4. PICK x : x = [Call("on_relay_login", m.mb) EXCEPT !.client = m.to[2]]
    OBVIOUS
  <2>5. wire' = Sent(Received(g, h), h, x) /\ UNCHANGED <<role, role2mb, told>>
    BY <1>1, <1>5, <2>4 DEF OnWaitLogin, Answer, stubVars
  <2>6. x \in CallType /\ x.fn = "on_relay_login" /\ x.to = m.mb
    BY <2>2, <2>3, <2>4, CallTypes DEF Call
  <2>7. "kick" \in told[role[m.mb].client]
    BY <2>2 DEF KickInv, KicksAreSent, KickSent
  <2>8. KickSent(x)'
    BY <2>5, <2>6, <2>7 DEF KickSent
  <2>9. \A y \in CallsIn(wire') : y \in InFlight \/ KickSent(y)'
    BY <2>1, <2>5, <2>6, <2>8, AnsweredCalls
  <2>10. RolesStay /\ ToldGrows
    BY <2>5 DEF RolesStay, ToldGrows
  <2> QED
    BY <2>5, <2>9, <2>10, KickStep
<1>6. CASE AccountOnRelayLogin(g, h)
  <2>1. Delivers(g, h, "on_relay_login") /\ wire' = Received(g, h) /\ UNCHANGED <<role, role2mb, told>>
    BY <1>6 DEF AccountOnRelayLogin, stubVars
  <2> QED
    BY <2>1, TakenPlain, QuietKickStep
<1>7. CASE RoleOnRelayLogin(g, h)
  BY <1>7, HandOverEnds
<1>8. CASE OnRegisterRole(g, h)
  <2>1. Delivers(g, h, "on_register_role") /\ wire' = Received(g, h) /\ UNCHANGED role2mb
    BY <1>8 DEF OnRegisterRole, stubVars
  <2>2. m.fn = "on_register_role" /\ CallOK(m)
    BY <1>1, <2>1, HeadIsSound
  <2>3. PICK s \in Roles : s = m.to /\ role[s].home # NoGame /\ (m.ok => Registered(s))
    BY <2>2 DEF CallOK
  <2>4. role[s].client \in Clients
    BY <2>3 DEF KickInv, RolesHaveClients
  <2>5. /\ UNCHANGED role \/ role' = [role EXCEPT ![s].status = "NORMAL"]
        /\ \/ UNCHANGED told
           \/ m.ok /\ told' = [told EXCEPT ![role[s].client] = @ \cup {"success"}]
           \/ told' = [told EXCEPT ![role[s].client] = @ \cup {"refused"}]
    BY <1>1, <1>8, <2>3 DEF OnRegisterRole, Tell
  <2>6. \A r \in Roles : /\ role'[r].home = role[r].home /\ role'[r].rid = role[r].rid
                         /\ role'[r].client = role[r].client
    <3>1. role \in [Roles -> RoleType]
      BY DEF TypeOK
    <3> QED
      BY <2>5, <3>1 DEF RoleType
  <2>7. /\ \A c \in Clients : told[c] \subseteq told'[c]
        /\ \A c \in Clients : "success" \in told'[c] =>
             "success" \in told[c] \/ (m.ok /\ c = role[s].client)
    <3>1. PICK d \in Clients : d = role[s].client
      BY <2>4
    <3>2. told \in [Clients -> SUBSET Commands]
      BY DEF TypeOK
    <3>3. CASE m.ok /\ told' = [told EXCEPT ![d] = @ \cup {"success"}]
      BY <3>1, <3>2, <3>3
    <3>4. CASE told' = [told EXCEPT ![d] = @ \cup {"refused"}]
      BY <3>2, <3>4
    <3> QED
      BY <2>5, <3>1, <3>3, <3>4
  <2>8. RolesStay /\ ToldGrows
    BY <2>1, <2>6, <2>7 DEF RolesStay, ToldGrows
  <2>9. m.ok => Registered(s)' /\ role'[s].client = role[s].client
    BY <2>3, <2>8, RegisteredStay
  <2>10. \A c \in Clients : "success" \in told'[c] => "success" \in told[c] \/ Plays(c)'
    BY <2>7, <2>9 DEF Plays
  <2>11. \A y \in CallsIn(wire') : y \in InFlight \/ KickSent(y)'
    BY <2>1, TakenPlain, PlainKickSent
  <2> QED
    BY <2>8, <2>10, <2>11, KickStep
<1> QED
  BY <1>2, <1>3, <1>4, <1>5, <1>6, <1>7, <1>8 DEF EntityStep

LEMMA InitKick == Init => KickInv
<1> SUFFICES ASSUME Init PROVE KickInv
  OBVIOUS
<1>1. RolesHaveClients
  BY DEF Init, RolesHaveClients
<1>2. InFlight = {}
  BY DEF Init, InFlight, CallsIn
<1>3. UnkickedPlay
  BY DEF Init, UnkickedPlay
<1> QED
  BY <1>1, <1>2, <1>3 DEF KickInv, KicksAreSent

LEMMA NextKick ==
  TypeOK /\ TypeOK' /\ IInv /\ RightsAreUnique /\ KickInv /\ [Next]_vars => KickInv'
<1> SUFFICES ASSUME TypeOK, TypeOK', IInv, RightsAreUnique, KickInv, [Next]_vars PROVE KickInv'
  OBVIOUS
<1>1. ASSUME NEW q \in db, Execute(q) \/ LoseRequest(q) PROVE KickInv'
  <2>1. UNCHANGED <<wire, role, role2mb, told>>
    BY <1>1 DEF Execute, LoseRequest, stubVars
  <2> QED
    BY <2>1, QuietKickStep DEF InFlight
<1>2. CASE Next
  BY <1>1, <1>2, GateAndTransferKick, StubKick, EntityKick, CallbacksKick DEF Next
<1>3. CASE UNCHANGED vars
  <2>1. UNCHANGED <<wire, role, role2mb, told>>
    BY <1>3 DEF vars, stubVars
  <2> QED
    BY <2>1, QuietKickStep DEF InFlight
<1> QED
  BY <1>2, <1>3

(* Only the end of a hand-over gives a role that was made another client.  *)
LEMMA ClientStays ==
  ASSUME TypeOK, IInv, Next, NEW r \in Roles, role[r].home # NoGame,
         role'[r].client # role[r].client
  PROVE  \E g, h \in Games : RoleOnRelayLogin(g, h)
<1> SUFFICES ASSUME \A g, h \in Games : ~RoleOnRelayLogin(g, h)
             PROVE  FALSE
  OBVIOUS
<1>1. role \in [Roles -> RoleType]
  BY DEF TypeOK
<1>2. \A s, t : role' # [role EXCEPT ![s].status = t]
  BY <1>1 DEF RoleType
<1>3. role' # role
  OBVIOUS
<1>4. ~GateStep
  BY <1>3 DEF GateStep, ProcessLogin, ProcessCreateRole, OnClientDisconnect, UpdateClientProcessInfo
<1>5. \A g \in Games : ~TransferStep(g) /\ ~StubStep(g)
  BY <1>2, <1>3 DEF TransferStep, CreateAccountEntity, LoginAgain, CreateRole, DisconnectAccount,
     DisconnectRole, DropTransfer, StubStep, StubRegisterAccount, StubUnregisterAccount,
     StubRegisterRole, StubUpdateByRelay
<1>6. ASSUME NEW g \in Games, NEW h \in Games PROVE ~EntityStep(g, h)
  <2>1. ~OnRegisterAccount(g, h) /\ ~AccountOnRelayReady(g, h) /\ ~AccountOnRelayLogin(g, h)
    BY <1>3 DEF OnRegisterAccount, AccountOnRelayReady, AccountOnRelayLogin
  <2>2. ~OnWaitLogin(g, h)
    BY <1>3 DEF OnWaitLogin
  <2>3. ~RoleOnRelayReady(g, h)
    BY <1>2 DEF RoleOnRelayReady
  <2>4. ~OnRegisterRole(g, h)
    BY <1>2, <1>3 DEF OnRegisterRole
  <2> QED
    BY <2>1, <2>2, <2>3, <2>4 DEF EntityStep
<1>7. \A q \in db : ~Execute(q) /\ ~LoseRequest(q)
  BY <1>3 DEF Execute, LoseRequest
<1>8. ASSUME NEW a, LoginSuccess(a) PROVE FALSE
  <2>1. PICK s, v : role[s].home = NoGame /\ role' = [role EXCEPT ![s] = v]
    BY <1>8 DEF LoginSuccess
  <2> QED
    BY <1>1, <2>1
<1>9. \A q \in db : ~CallbackStep(q)
  BY <1>3, <1>8 DEF CallbackStep, OnLoadAccount, OnSaveAccount, OnLoadRole, OnSaveRole
<1> QED
  BY <1>4, <1>5, <1>6, <1>7, <1>9 DEF Next

LEMMA ReplacedWasKicked ==
  ASSUME TypeOK, TypeOK', IInv, RightsAreUnique, KickInv, [Next]_vars
  PROVE  [\A r \in Roles :
            role[r].home # NoGame /\ role'[r].client # role[r].client
              => "kick" \in told[role[r].client]]_vars
<1> SUFFICES ASSUME Next, NEW r \in Roles, role[r].home # NoGame, role'[r].client # role[r].client
             PROVE  "kick" \in told[role[r].client]
  OBVIOUS
<1>1. PICK g \in Games, h \in Games : RoleOnRelayLogin(g, h)
  BY ClientStays
<1> QED
  BY <1>1, HandOverEnds

LEMMA KickIsInvariant == Spec => [](TypeOK /\ IInv /\ RightsAreUnique /\ KickInv)
<1>1. Init => RightsAreUnique /\ KickInv
  BY InitRights, InitKick
<1>2. TypeOK /\ IInv /\ RightsAreUnique /\ KickInv /\ [Next]_vars => RightsAreUnique' /\ KickInv'
  BY NextKeepsType, NextKeepsRights, NextKick
<1> QED
  BY <1>1, <1>2, TypeCorrect, CallsKeepTheirPromise, PTL DEF Spec

(* A role passes from one client to another only after the client it       *)
(* leaves has been sent "kick".                                            *)
THEOREM ReplacedClientWasKicked == Spec => KickedBeforeReplaced
<1>1. TypeOK /\ TypeOK' /\ IInv /\ RightsAreUnique /\ KickInv /\ [Next]_vars =>
        [\A r \in Roles : role[r].home # NoGame /\ role'[r].client # role[r].client
                            => "kick" \in told[role[r].client]]_vars
  BY ReplacedWasKicked
<1> QED
  BY <1>1, KickIsInvariant, PTL DEF Spec, KickedBeforeReplaced

(* A device that was told it is logged in, and was not kicked, plays a     *)
(* role that the stub has registered.                                      *)
THEOREM UnkickedDevicePlays == Spec => []UnkickedPlay
BY KickIsInvariant, PTL DEF KickInv

(* The clients of one user play roles of one id.  A failed query breaks    *)
(* it: on_load_account_callback takes the empty answer for a new user.     *)
OneRoleIdPerUser ==
  \A r, s \in Roles :
    Registered(r) /\ Registered(s) /\ UserOf[role[r].client] = UserOf[role[s].client]
      => role[r].rid = role[s].rid

LEMMA UnkickedDevicesDiffer == UnkickedPlay /\ OneRoleIdPerUser => OneDeviceUnkicked
<1> SUFFICES ASSUME UnkickedPlay, OneRoleIdPerUser,
                    NEW c \in Clients, NEW d \in Clients, c # d, UserOf[c] = UserOf[d],
                    "success" \in told[c], "success" \in told[d],
                    "kick" \notin told[c], "kick" \notin told[d]
             PROVE  FALSE
  BY DEF OneDeviceUnkicked
<1>1. PICK r \in Roles : Registered(r) /\ role[r].client = c
  BY DEF UnkickedPlay, Plays
<1>2. PICK s \in Roles : Registered(s) /\ role[s].client = d
  BY DEF UnkickedPlay, Plays
<1>3. role[r].rid = role[s].rid
  BY <1>1, <1>2 DEF OneRoleIdPerUser
<1> QED
  BY <1>1, <1>2, <1>3 DEF Registered

(* Of the devices of a user who has one role id, two are never both logged *)
(* in and not kicked: their roles would be registered for the same id.     *)
THEOREM OneDeviceOfAUser == Spec /\ []OneRoleIdPerUser => []OneDeviceUnkicked
BY UnkickedDevicePlays, UnkickedDevicesDiffer, PTL

(* create_account gives every account the id 1: while no other id is in    *)
(* use, two devices of a user are never both logged in and not kicked.     *)
THEOREM OneDeviceIsUnkicked ==
  ASSUME Ids = {NewId} PROVE Spec => []OneDeviceUnkicked
<1>1. TypeOK => OneRoleIdPerUser
  <2> SUFFICES ASSUME TypeOK, NEW r \in Roles, NEW s \in Roles PROVE role[r].rid = role[s].rid
    BY DEF OneRoleIdPerUser
  <2>1. role[r].rid \in Ids /\ role[s].rid \in Ids
    BY DEF TypeOK, RoleType
  <2> QED
    BY <2>1
<1> QED
  BY <1>1, TypeCorrect, OneDeviceOfAUser, PTL
=============================================================================
