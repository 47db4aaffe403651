-------------------------- MODULE NetThreadsProofs --------------------------
(***************************************************************************)
(* The safety of the hand-over between the two threads, for any number of  *)
(* connections and any bounds.                                             *)
(***************************************************************************)
EXTENDS NetThreads, TLAPS

(* What each thread has taken it has given up before it takes more.        *)
Stages ==
  /\ logicAt = "swap" => inits = Zero /\ reads = Zero /\ closes = Zero
  /\ netAt # "finish" => sending = Zero
  /\ netAt # "unpack" => todo = {}
  /\ todo \subseteq sockets

(* The packets handled are those handed back.                              *)
HandledGoBack ==
  \A s \in Sockets : handled[s] = dones[s] + finishReadPackets[s] + released[s]

(* Nothing of a socket is left behind it: when the logic thread has taken  *)
(* its close it has taken its packets, and when it has closed it, it has   *)
(* handled them.                                                           *)
NothingIsLeftBehind ==
  \A s \in Sockets :
    /\ closes[s] + dels[s] + deleteSockets[s] + freed[s] > 0
         => readPackets[s] = 0 /\ waitInit[s] = 0
    /\ dels[s] + deleteSockets[s] + freed[s] > 0 => reads[s] = 0 /\ inits[s] = 0

(* The start of a handler travels before its packets and its close.        *)
StartedFirst ==
  \A s \in Sockets :
    /\ s \in sockets \/ waitDelete[s] > 0 \/ readPackets[s] > 0
         => waitInit[s] + inits[s] > 0 \/ handler[s] = "open"
    /\ reads[s] + closes[s] > 0 => inits[s] > 0 \/ handler[s] = "open"

IInv ==
  /\ TypeOK /\ Stages
  /\ EverySocketHasOnePlace /\ EveryPacketHasOnePlace
  /\ HandledGoBack /\ NothingIsLeftBehind /\ StartedFirst

(* A socket whose close the logic thread has taken is nowhere else.        *)
LEMMA ClosingIsItsOnePlace ==
  ASSUME NEW s \in Sockets, Held(s) + freed[s] <= 1, closes[s] > 0,
         waitDelete[s] \in Nat, closes[s] \in Nat, dels[s] \in Nat,
         deleteSockets[s] \in Nat, freed[s] \in Nat
  PROVE  s \notin sockets /\ waitDelete[s] = 0 /\ freed[s] = 0 /\ closes[s] = 1
<1> DEFINE new == IF s \in newSockets THEN 1 ELSE 0
           own == IF s \in sockets THEN 1 ELSE 0
<1>1. new \in Nat /\ own \in Nat
  OBVIOUS
<1>2. new + own + waitDelete[s] + closes[s] + dels[s] + deleteSockets[s] + freed[s] <= 1
  BY DEF Held
<1>3. s \notin sockets
  BY DEF Held
<1> HIDE DEF new, own
<1>4. waitDelete[s] = 0 /\ freed[s] = 0
  BY <1>1, <1>2
<1>5. closes[s] <= 1 /\ closes[s] >= 1
  BY <1>1, <1>2
<1>6. closes[s] = 1
  BY <1>5
<1> QED
  BY <1>3, <1>4, <1>6

-----------------------------------------------------------------------------
(* No count goes below zero and every stage has its name.                  *)
LEMMA TypeStays == IInv /\ [Next]_vars => TypeOK'
<1> SUFFICES ASSUME IInv, [Next]_vars  PROVE  TypeOK'
  OBVIOUS
<1> USE DEF IInv, TypeOK, Bag
<1>1. ASSUME NEW t \in Sockets, OnAccept(t)  PROVE  TypeOK'
  BY <1>1
    DEF OnAccept, sharedVars, readVars, writeVars, socketVars, logicVars, handVars,
        readHist, writeHist, Stages, NetStages, LogicStages
<1>2. ASSUME NEW t \in Sockets, OnRead(t)  PROVE  TypeOK'
  BY <1>2
    DEF OnRead, AddOne, sharedVars, readVars, writeVars, socketVars, logicVars,
        handVars, writeHist, Stages, NetStages, LogicStages
<1>3. ASSUME NEW t \in Sockets, OnBroken(t)  PROVE  TypeOK'
  BY <1>3
    DEF OnBroken, DelSocket, AddOne, readVars, writeVars, logicVars, handVars,
        readHist, writeHist, Stages, NetStages, LogicStages
<1>4. ASSUME NEW t \in Sockets, AddSocket(t)  PROVE  TypeOK'
  BY <1>4
    DEF AddSocket, AddOne, readVars, writeVars, logicVars, handVars, readHist,
        writeHist, Stages, NetStages, LogicStages
<1>5. ASSUME NEW t \in Sockets, Unpack(t)  PROVE  TypeOK'
  BY <1>5
    DEF Unpack, Whole, writeVars, socketVars, logicVars, handVars, writeHist,
        Stages, NetStages, LogicStages
<1>6. ASSUME NEW t \in Sockets, KickOne(t)  PROVE  TypeOK'
  BY <1>6
    DEF KickOne, KickFinds, DelSocket, AddOne, TakeOne, readVars, writeVars,
        logicVars, handVars, readHist, writeHist, Stages, NetStages, LogicStages
<1>7. ASSUME NEW t \in Sockets, HandleInit(t)  PROVE  TypeOK'
  BY <1>7
    DEF HandleInit, TakeOne, netVars, sharedVars, readVars, writeVars, socketVars,
        readHist, writeHist, Stages, NetStages, LogicStages
<1>8. ASSUME NEW t \in Sockets, HandlePacket(t)  PROVE  TypeOK'
  BY <1>8
    DEF HandlePacket, AddOne, TakeOne, Zero, netVars, sharedVars, readVars,
        writeVars, socketVars, writeHist, Stages, NetStages, LogicStages
<1>9. ASSUME NEW t \in Sockets, HandleClose(t)  PROVE  TypeOK'
  BY <1>9
    DEF HandleClose, CloseIsDue, Zero, AddOne, TakeOne, netVars, sharedVars,
        readVars, writeVars, socketVars, readHist, writeHist, Stages, NetStages,
        LogicStages
<1>10. ASSUME NEW t \in Sockets, Say(t)  PROVE  TypeOK'
  BY <1>10
    DEF Say, AddOne, netVars, sharedVars, readVars, writeVars, socketVars, handVars,
        readHist, Stages, NetStages, LogicStages
<1>11. ASSUME NEW t \in Sockets, KickSocket(t)  PROVE  TypeOK'
  BY <1>11
    DEF KickSocket, AddOne, netVars, sharedVars, readVars, writeVars, socketVars,
        handVars, readHist, writeHist, Stages, NetStages, LogicStages
<1>12. ASSUME NEW t \in Sockets, StartConnect(t)  PROVE  TypeOK'
  BY <1>12
    DEF StartConnect, AddOne, readVars, writeVars, logicVars, handVars, readHist,
        writeHist, Stages, NetStages, LogicStages
<1>13. CASE EventsDone
  BY <1>13
    DEF EventsDone, sharedVars, readVars, writeVars, socketVars, logicVars,
        handVars, readHist, writeHist, Stages, NetStages, LogicStages
<1>14. CASE NewDone
  BY <1>14
    DEF NewDone, sharedVars, readVars, writeVars, socketVars, logicVars, handVars,
        readHist, writeHist, Stages, NetStages, LogicStages
<1>15. CASE TakeKicks
  BY <1>15
    DEF TakeKicks, Zero, readVars, writeVars, logicVars, handVars, readHist,
        writeHist, Stages, NetStages, LogicStages
<1>16. CASE ReleasePackets
  BY <1>16
    DEF ReleasePackets, Plus, Zero, writeVars, socketVars, logicVars, handVars,
        writeHist, Stages, NetStages, LogicStages
<1>17. CASE TakeWrites
  BY <1>17
    DEF TakeWrites, Zero, readVars, socketVars, logicVars, handVars, readHist,
        writeHist, Stages, NetStages, LogicStages
<1>18. CASE FinishWrites
  BY <1>18
    DEF FinishWrites, Plus, Zero, readVars, socketVars, logicVars, handVars,
        readHist, writeHist, Stages, NetStages, LogicStages
<1>19. CASE ReleaseSockets
  BY <1>19
    DEF ReleaseSockets, Plus, Zero, readVars, writeVars, logicVars, handVars,
        readHist, writeHist, Stages, NetStages, LogicStages
<1>20. CASE SwapNetToLogic
  BY <1>20
    DEF SwapNetToLogic, Emptied, Plus, Zero, netVars, readHist, Stages, NetStages,
        LogicStages
<1>21. CASE SwapLogicToNet
  BY <1>21
    DEF SwapLogicToNet, HandOver, Plus, Zero, netVars, readHist, writeHist, Stages,
        NetStages, LogicStages
<1>22. CASE UNCHANGED vars
  BY <1>22
    DEF vars, netVars, sharedVars, readVars, writeVars, socketVars, logicVars,
        handVars, readHist, writeHist, Stages, NetStages, LogicStages
<1> QED
  BY <1>1, <1>2, <1>3, <1>4, <1>5, <1>6, <1>7, <1>8, <1>9, <1>10, <1>11, <1>12,
      <1>13, <1>14, <1>15, <1>16, <1>17, <1>18, <1>19, <1>20, <1>21, <1>22
    DEF Next, NetEvent, NetThread, LogicThread, Handler

(* The stages of the two threads.                                           *)
LEMMA StagesStay == IInv /\ [Next]_vars => Stages'
<1> SUFFICES ASSUME IInv, [Next]_vars  PROVE  Stages'
  OBVIOUS
<1> USE DEF IInv, TypeOK, Bag
<1>1. ASSUME NEW t \in Sockets, OnAccept(t)  PROVE  Stages'
  BY <1>1
    DEF OnAccept, sharedVars, readVars, writeVars, socketVars, logicVars, handVars,
        readHist, writeHist, Stages, NetStages
<1>2. ASSUME NEW t \in Sockets, OnRead(t)  PROVE  Stages'
  BY <1>2
    DEF OnRead, AddOne, sharedVars, readVars, writeVars, socketVars, logicVars,
        handVars, writeHist, Stages, NetStages
<1>3. ASSUME NEW t \in Sockets, OnBroken(t)  PROVE  Stages'
  BY <1>3
    DEF OnBroken, DelSocket, AddOne, readVars, writeVars, logicVars, handVars,
        readHist, writeHist, Stages, NetStages
<1>4. ASSUME NEW t \in Sockets, AddSocket(t)  PROVE  Stages'
  BY <1>4
    DEF AddSocket, AddOne, readVars, writeVars, logicVars, handVars, readHist,
        writeHist, Stages, NetStages
<1>5. ASSUME NEW t \in Sockets, Unpack(t)  PROVE  Stages'
  BY <1>5
    DEF Unpack, Whole, writeVars, socketVars, logicVars, handVars, writeHist,
        Stages, NetStages
<1>6. ASSUME NEW t \in Sockets, KickOne(t)  PROVE  Stages'
  BY <1>6
    DEF KickOne, KickFinds, DelSocket, AddOne, TakeOne, readVars, writeVars,
        logicVars, handVars, readHist, writeHist, Stages, NetStages
<1>7. ASSUME NEW t \in Sockets, HandleInit(t)  PROVE  Stages'
  BY <1>7
    DEF HandleInit, TakeOne, netVars, sharedVars, readVars, writeVars, socketVars,
        readHist, writeHist, Stages, NetStages
<1>8. ASSUME NEW t \in Sockets, HandlePacket(t)  PROVE  Stages'
  BY <1>8
    DEF HandlePacket, AddOne, TakeOne, Zero, netVars, sharedVars, readVars,
        writeVars, socketVars, writeHist, Stages, NetStages
<1>9. ASSUME NEW t \in Sockets, HandleClose(t)  PROVE  Stages'
  BY <1>9
    DEF HandleClose, CloseIsDue, Zero, AddOne, TakeOne, netVars, sharedVars,
        readVars, writeVars, socketVars, readHist, writeHist, Stages, NetStages
<1>10. ASSUME NEW t \in Sockets, Say(t)  PROVE  Stages'
  BY <1>10
    DEF Say, AddOne, netVars, sharedVars, readVars, writeVars, socketVars, handVars,
        readHist, Stages, NetStages
<1>11. ASSUME NEW t \in Sockets, KickSocket(t)  PROVE  Stages'
  BY <1>11
    DEF KickSocket, AddOne, netVars, sharedVars, readVars, writeVars, socketVars,
        handVars, readHist, writeHist, Stages, NetStages
<1>12. ASSUME NEW t \in Sockets, StartConnect(t)  PROVE  Stages'
  BY <1>12
    DEF StartConnect, AddOne, readVars, writeVars, logicVars, handVars, readHist,
        writeHist, Stages, NetStages
<1>13. CASE EventsDone
  BY <1>13
    DEF EventsDone, sharedVars, readVars, writeVars, socketVars, logicVars,
        handVars, readHist, writeHist, Stages, NetStages
<1>14. CASE NewDone
  BY <1>14
    DEF NewDone, sharedVars, readVars, writeVars, socketVars, logicVars, handVars,
        readHist, writeHist, Stages, NetStages
<1>15. CASE TakeKicks
  BY <1>15
    DEF TakeKicks, Zero, readVars, writeVars, logicVars, handVars, readHist,
        writeHist, Stages, NetStages
<1>16. CASE ReleasePackets
  BY <1>16
    DEF ReleasePackets, Plus, Zero, writeVars, socketVars, logicVars, handVars,
        writeHist, Stages, NetStages
<1>17. CASE TakeWrites
  BY <1>17
    DEF TakeWrites, Zero, readVars, socketVars, logicVars, handVars, readHist,
        writeHist, Stages, NetStages
<1>18. CASE FinishWrites
  BY <1>18
    DEF FinishWrites, Plus, Zero, readVars, socketVars, logicVars, handVars,
        readHist, writeHist, Stages, NetStages
<1>19. CASE ReleaseSockets
  BY <1>19
    DEF ReleaseSockets, Plus, Zero, readVars, writeVars, logicVars, handVars,
        readHist, writeHist, Stages, NetStages
<1>20. CASE SwapNetToLogic
  BY <1>20
    DEF SwapNetToLogic, Emptied, Plus, Zero, netVars, readHist, Stages, NetStages
<1>21. CASE SwapLogicToNet
  BY <1>21
    DEF SwapLogicToNet, HandOver, Plus, Zero, netVars, readHist, writeHist, Stages,
        NetStages
<1>22. CASE UNCHANGED vars
  BY <1>22
    DEF vars, netVars, sharedVars, readVars, writeVars, socketVars, logicVars,
        handVars, readHist, writeHist, Stages, NetStages
<1> QED
  BY <1>1, <1>2, <1>3, <1>4, <1>5, <1>6, <1>7, <1>8, <1>9, <1>10, <1>11, <1>12,
      <1>13, <1>14, <1>15, <1>16, <1>17, <1>18, <1>19, <1>20, <1>21, <1>22
    DEF Next, NetEvent, NetThread, LogicThread, Handler

(* A socket moves from one place to one other.                             *)
LEMMA SocketsStay == IInv /\ [Next]_vars => EverySocketHasOnePlace'
<1> SUFFICES ASSUME IInv, [Next]_vars  PROVE  EverySocketHasOnePlace'
  OBVIOUS
<1> USE DEF IInv, TypeOK, Bag
<1>1. ASSUME NEW t \in Sockets, OnAccept(t)  PROVE  EverySocketHasOnePlace'
  <2>1. /\ Held(t) = 0 /\ freed[t] = 0 /\ newSockets' = newSockets \cup {t}
        /\ UNCHANGED <<sockets, waitDelete, closes, dels, deleteSockets, freed>>
    BY <1>1 DEF OnAccept, sharedVars, readVars, writeVars, socketVars, logicVars, handVars
  <2>2. \A s \in Sockets : s # t => Held(s)' = Held(s)
    BY <2>1 DEF Held
  <2>3. Held(t)' \in Nat /\ Held(t)' <= 1
    <3> DEFINE own == IF t \in sockets THEN 1 ELSE 0
               rest == waitDelete[t] + closes[t] + dels[t] + deleteSockets[t]
    <3>1. own \in Nat /\ rest \in Nat
      OBVIOUS
    <3>2. Held(t) >= own + rest
      BY <3>1 DEF Held
    <3>3. Held(t)' = 1 + own + rest
      BY <2>1, <3>1 DEF Held
    <3> HIDE DEF own, rest
    <3> QED
      BY <2>1, <3>1, <3>2, <3>3
  <2>4. \A s \in Sockets : Held(s) + freed[s] <= 1
    BY DEF EverySocketHasOnePlace
  <2>5. \A s \in Sockets : Held(s)' + freed[s] <= 1
    <3> HIDE DEF IInv, TypeOK, Bag
    <3> QED
      BY <2>1, <2>2, <2>3, <2>4
  <2> QED
    BY <2>1, <2>5 DEF EverySocketHasOnePlace
<1>2. ASSUME NEW t \in Sockets, OnRead(t)  PROVE  EverySocketHasOnePlace'
  BY <1>2
    DEF OnRead, AddOne, sharedVars, readVars, writeVars, socketVars, logicVars,
        handVars, writeHist, Stages, EverySocketHasOnePlace, Held
<1>3. ASSUME NEW t \in Sockets, OnBroken(t)  PROVE  EverySocketHasOnePlace'
  BY <1>3
    DEF OnBroken, DelSocket, AddOne, readVars, writeVars, logicVars, handVars,
        readHist, writeHist, Stages, EverySocketHasOnePlace, Held
<1>4. ASSUME NEW t \in Sockets, AddSocket(t)  PROVE  EverySocketHasOnePlace'
  BY <1>4
    DEF AddSocket, AddOne, readVars, writeVars, logicVars, handVars, readHist,
        writeHist, Stages, EverySocketHasOnePlace, Held
<1>5. ASSUME NEW t \in Sockets, Unpack(t)  PROVE  EverySocketHasOnePlace'
  BY <1>5
    DEF Unpack, Whole, writeVars, socketVars, logicVars, handVars, writeHist,
        Stages, EverySocketHasOnePlace, Held
<1>6. ASSUME NEW t \in Sockets, KickOne(t)  PROVE  EverySocketHasOnePlace'
  BY <1>6
    DEF KickOne, KickFinds, DelSocket, AddOne, TakeOne, readVars, writeVars,
        logicVars, handVars, readHist, writeHist, Stages, EverySocketHasOnePlace,
        Held
<1>7. ASSUME NEW t \in Sockets, HandleInit(t)  PROVE  EverySocketHasOnePlace'
  BY <1>7
    DEF HandleInit, TakeOne, netVars, sharedVars, readVars, writeVars, socketVars,
        readHist, writeHist, Stages, EverySocketHasOnePlace, Held
<1>8. ASSUME NEW t \in Sockets, HandlePacket(t)  PROVE  EverySocketHasOnePlace'
  BY <1>8
    DEF HandlePacket, AddOne, TakeOne, Zero, netVars, sharedVars, readVars,
        writeVars, socketVars, writeHist, Stages, EverySocketHasOnePlace, Held
<1>9. ASSUME NEW t \in Sockets, HandleClose(t)  PROVE  EverySocketHasOnePlace'
  BY <1>9
    DEF HandleClose, CloseIsDue, Zero, AddOne, TakeOne, netVars, sharedVars,
        readVars, writeVars, socketVars, readHist, writeHist, Stages,
        EverySocketHasOnePlace, Held
<1>10. ASSUME NEW t \in Sockets, Say(t)  PROVE  EverySocketHasOnePlace'
  BY <1>10
    DEF Say, AddOne, netVars, sharedVars, readVars, writeVars, socketVars, handVars,
        readHist, Stages, EverySocketHasOnePlace, Held
<1>11. ASSUME NEW t \in Sockets, KickSocket(t)  PROVE  EverySocketHasOnePlace'
  BY <1>11
    DEF KickSocket, AddOne, netVars, sharedVars, readVars, writeVars, socketVars,
        handVars, readHist, writeHist, Stages, EverySocketHasOnePlace, Held
<1>12. ASSUME NEW t \in Sockets, StartConnect(t)  PROVE  EverySocketHasOnePlace'
  BY <1>12
    DEF StartConnect, AddOne, readVars, writeVars, logicVars, handVars, readHist,
        writeHist, Stages, EverySocketHasOnePlace, Held
<1>13. CASE EventsDone
  BY <1>13
    DEF EventsDone, sharedVars, readVars, writeVars, socketVars, logicVars,
        handVars, readHist, writeHist, Stages, EverySocketHasOnePlace, Held
<1>14. CASE NewDone
  BY <1>14
    DEF NewDone, sharedVars, readVars, writeVars, socketVars, logicVars, handVars,
        readHist, writeHist, Stages, EverySocketHasOnePlace, Held
<1>15. CASE TakeKicks
  BY <1>15
    DEF TakeKicks, Zero, readVars, writeVars, logicVars, handVars, readHist,
        writeHist, Stages, EverySocketHasOnePlace, Held
<1>16. CASE ReleasePackets
  BY <1>16
    DEF ReleasePackets, Plus, Zero, writeVars, socketVars, logicVars, handVars,
        writeHist, Stages, EverySocketHasOnePlace, Held
<1>17. CASE TakeWrites
  BY <1>17
    DEF TakeWrites, Zero, readVars, socketVars, logicVars, handVars, readHist,
        writeHist, Stages, EverySocketHasOnePlace, Held
<1>18. CASE FinishWrites
  BY <1>18
    DEF FinishWrites, Plus, Zero, readVars, socketVars, logicVars, handVars,
        readHist, writeHist, Stages, EverySocketHasOnePlace, Held
<1>19. CASE ReleaseSockets
  BY <1>19
    DEF ReleaseSockets, Plus, Zero, readVars, writeVars, logicVars, handVars,
        readHist, writeHist, Stages, EverySocketHasOnePlace, Held
<1>20. CASE SwapNetToLogic
  BY <1>20
    DEF SwapNetToLogic, Emptied, Plus, Zero, netVars, readHist, Stages,
        EverySocketHasOnePlace, Held
<1>21. CASE SwapLogicToNet
  BY <1>21
    DEF SwapLogicToNet, HandOver, Plus, Zero, netVars, readHist, writeHist, Stages,
        EverySocketHasOnePlace, Held
<1>22. CASE UNCHANGED vars
  BY <1>22
    DEF vars, netVars, sharedVars, readVars, writeVars, socketVars, logicVars,
        handVars, readHist, writeHist, Stages, EverySocketHasOnePlace, Held
<1> QED
  BY <1>1, <1>2, <1>3, <1>4, <1>5, <1>6, <1>7, <1>8, <1>9, <1>10, <1>11, <1>12,
      <1>13, <1>14, <1>15, <1>16, <1>17, <1>18, <1>19, <1>20, <1>21, <1>22
    DEF Next, NetEvent, NetThread, LogicThread, Handler

(* And so does a packet.                                                    *)
LEMMA PacketsStay == IInv /\ [Next]_vars => EveryPacketHasOnePlace'
<1> SUFFICES ASSUME IInv, [Next]_vars  PROVE  EveryPacketHasOnePlace'
  OBVIOUS
<1> USE DEF IInv, TypeOK, Bag
<1>1. ASSUME NEW t \in Sockets, OnAccept(t)  PROVE  EveryPacketHasOnePlace'
  BY <1>1
    DEF OnAccept, sharedVars, readVars, writeVars, socketVars, logicVars, handVars,
        readHist, writeHist, Stages, EveryPacketHasOnePlace
<1>2. ASSUME NEW t \in Sockets, OnRead(t)  PROVE  EveryPacketHasOnePlace'
  BY <1>2
    DEF OnRead, AddOne, sharedVars, readVars, writeVars, socketVars, logicVars,
        handVars, writeHist, Stages, EveryPacketHasOnePlace
<1>3. ASSUME NEW t \in Sockets, OnBroken(t)  PROVE  EveryPacketHasOnePlace'
  BY <1>3
    DEF OnBroken, DelSocket, AddOne, readVars, writeVars, logicVars, handVars,
        readHist, writeHist, Stages, EveryPacketHasOnePlace
<1>4. ASSUME NEW t \in Sockets, AddSocket(t)  PROVE  EveryPacketHasOnePlace'
  BY <1>4
    DEF AddSocket, AddOne, readVars, writeVars, logicVars, handVars, readHist,
        writeHist, Stages, EveryPacketHasOnePlace
<1>5. ASSUME NEW t \in Sockets, Unpack(t)  PROVE  EveryPacketHasOnePlace'
  BY <1>5
    DEF Unpack, Whole, writeVars, socketVars, logicVars, handVars, writeHist,
        Stages, EveryPacketHasOnePlace
<1>6. ASSUME NEW t \in Sockets, KickOne(t)  PROVE  EveryPacketHasOnePlace'
  BY <1>6
    DEF KickOne, KickFinds, DelSocket, AddOne, TakeOne, readVars, writeVars,
        logicVars, handVars, readHist, writeHist, Stages, EveryPacketHasOnePlace
<1>7. ASSUME NEW t \in Sockets, HandleInit(t)  PROVE  EveryPacketHasOnePlace'
  BY <1>7
    DEF HandleInit, TakeOne, netVars, sharedVars, readVars, writeVars, socketVars,
        readHist, writeHist, Stages, EveryPacketHasOnePlace
<1>8. ASSUME NEW t \in Sockets, HandlePacket(t)  PROVE  EveryPacketHasOnePlace'
  BY <1>8
    DEF HandlePacket, AddOne, TakeOne, Zero, netVars, sharedVars, readVars,
        writeVars, socketVars, writeHist, Stages, EveryPacketHasOnePlace
<1>9. ASSUME NEW t \in Sockets, HandleClose(t)  PROVE  EveryPacketHasOnePlace'
  BY <1>9
    DEF HandleClose, CloseIsDue, Zero, AddOne, TakeOne, netVars, sharedVars,
        readVars, writeVars, socketVars, readHist, writeHist, Stages,
        EveryPacketHasOnePlace
<1>10. ASSUME NEW t \in Sockets, Say(t)  PROVE  EveryPacketHasOnePlace'
  BY <1>10
    DEF Say, AddOne, netVars, sharedVars, readVars, writeVars, socketVars, handVars,
        readHist, Stages, EveryPacketHasOnePlace
<1>11. ASSUME NEW t \in Sockets, KickSocket(t)  PROVE  EveryPacketHasOnePlace'
  BY <1>11
    DEF KickSocket, AddOne, netVars, sharedVars, readVars, writeVars, socketVars,
        handVars, readHist, writeHist, Stages, EveryPacketHasOnePlace
<1>12. ASSUME NEW t \in Sockets, StartConnect(t)  PROVE  EveryPacketHasOnePlace'
  BY <1>12
    DEF StartConnect, AddOne, readVars, writeVars, logicVars, handVars, readHist,
        writeHist, Stages, EveryPacketHasOnePlace
<1>13. CASE EventsDone
  BY <1>13
    DEF EventsDone, sharedVars, readVars, writeVars, socketVars, logicVars,
        handVars, readHist, writeHist, Stages, EveryPacketHasOnePlace
<1>14. CASE NewDone
  BY <1>14
    DEF NewDone, sharedVars, readVars, writeVars, socketVars, logicVars, handVars,
        readHist, writeHist, Stages, EveryPacketHasOnePlace
<1>15. CASE TakeKicks
  BY <1>15
    DEF TakeKicks, Zero, readVars, writeVars, logicVars, handVars, readHist,
        writeHist, Stages, EveryPacketHasOnePlace
<1>16. CASE ReleasePackets
  BY <1>16
    DEF ReleasePackets, Plus, Zero, writeVars, socketVars, logicVars, handVars,
        writeHist, Stages, EveryPacketHasOnePlace
<1>17. CASE TakeWrites
  BY <1>17
    DEF TakeWrites, Zero, readVars, socketVars, logicVars, handVars, readHist,
        writeHist, Stages, EveryPacketHasOnePlace
<1>18. CASE FinishWrites
  BY <1>18
    DEF FinishWrites, Plus, Zero, readVars, socketVars, logicVars, handVars,
        readHist, writeHist, Stages, EveryPacketHasOnePlace
<1>19. CASE ReleaseSockets
  BY <1>19
    DEF ReleaseSockets, Plus, Zero, readVars, writeVars, logicVars, handVars,
        readHist, writeHist, Stages, EveryPacketHasOnePlace
<1>20. CASE SwapNetToLogic
  BY <1>20
    DEF SwapNetToLogic, Emptied, Plus, Zero, netVars, readHist, Stages,
        EveryPacketHasOnePlace
<1>21. CASE SwapLogicToNet
  BY <1>21
    DEF SwapLogicToNet, HandOver, Plus, Zero, netVars, readHist, writeHist, Stages,
        EveryPacketHasOnePlace
<1>22. CASE UNCHANGED vars
  BY <1>22
    DEF vars, netVars, sharedVars, readVars, writeVars, socketVars, logicVars,
        handVars, readHist, writeHist, Stages, EveryPacketHasOnePlace
<1> QED
  BY <1>1, <1>2, <1>3, <1>4, <1>5, <1>6, <1>7, <1>8, <1>9, <1>10, <1>11, <1>12,
      <1>13, <1>14, <1>15, <1>16, <1>17, <1>18, <1>19, <1>20, <1>21, <1>22
    DEF Next, NetEvent, NetThread, LogicThread, Handler

(* A packet is counted as handled when it is put with those to go back.    *)
LEMMA HandledStays == IInv /\ [Next]_vars => HandledGoBack'
<1> SUFFICES ASSUME IInv, [Next]_vars  PROVE  HandledGoBack'
  OBVIOUS
<1> USE DEF IInv, TypeOK, Bag
<1>1. ASSUME NEW t \in Sockets, OnAccept(t)  PROVE  HandledGoBack'
  BY <1>1
    DEF OnAccept, sharedVars, readVars, writeVars, socketVars, logicVars, handVars,
        readHist, writeHist, HandledGoBack
<1>2. ASSUME NEW t \in Sockets, OnRead(t)  PROVE  HandledGoBack'
  BY <1>2
    DEF OnRead, AddOne, sharedVars, readVars, writeVars, socketVars, logicVars,
        handVars, writeHist, HandledGoBack
<1>3. ASSUME NEW t \in Sockets, OnBroken(t)  PROVE  HandledGoBack'
  BY <1>3
    DEF OnBroken, DelSocket, AddOne, readVars, writeVars, logicVars, handVars,
        readHist, writeHist, HandledGoBack
<1>4. ASSUME NEW t \in Sockets, AddSocket(t)  PROVE  HandledGoBack'
  BY <1>4
    DEF AddSocket, AddOne, readVars, writeVars, logicVars, handVars, readHist,
        writeHist, HandledGoBack
<1>5. ASSUME NEW t \in Sockets, Unpack(t)  PROVE  HandledGoBack'
  BY <1>5
    DEF Unpack, Whole, writeVars, socketVars, logicVars, handVars, writeHist,
        HandledGoBack
<1>6. ASSUME NEW t \in Sockets, KickOne(t)  PROVE  HandledGoBack'
  BY <1>6
    DEF KickOne, KickFinds, DelSocket, AddOne, TakeOne, readVars, writeVars,
        logicVars, handVars, readHist, writeHist, HandledGoBack
<1>7. ASSUME NEW t \in Sockets, HandleInit(t)  PROVE  HandledGoBack'
  BY <1>7
    DEF HandleInit, TakeOne, netVars, sharedVars, readVars, writeVars, socketVars,
        readHist, writeHist, HandledGoBack
<1>8. ASSUME NEW t \in Sockets, HandlePacket(t)  PROVE  HandledGoBack'
  BY <1>8
    DEF HandlePacket, AddOne, TakeOne, Zero, netVars, sharedVars, readVars,
        writeVars, socketVars, writeHist, HandledGoBack
<1>9. ASSUME NEW t \in Sockets, HandleClose(t)  PROVE  HandledGoBack'
  BY <1>9
    DEF HandleClose, CloseIsDue, Zero, AddOne, TakeOne, netVars, sharedVars,
        readVars, writeVars, socketVars, readHist, writeHist, HandledGoBack
<1>10. ASSUME NEW t \in Sockets, Say(t)  PROVE  HandledGoBack'
  BY <1>10
    DEF Say, AddOne, netVars, sharedVars, readVars, writeVars, socketVars, handVars,
        readHist, HandledGoBack
<1>11. ASSUME NEW t \in Sockets, KickSocket(t)  PROVE  HandledGoBack'
  BY <1>11
    DEF KickSocket, AddOne, netVars, sharedVars, readVars, writeVars, socketVars,
        handVars, readHist, writeHist, HandledGoBack
<1>12. ASSUME NEW t \in Sockets, StartConnect(t)  PROVE  HandledGoBack'
  BY <1>12
    DEF StartConnect, AddOne, readVars, writeVars, logicVars, handVars, readHist,
        writeHist, HandledGoBack
<1>13. CASE EventsDone
  BY <1>13
    DEF EventsDone, sharedVars, readVars, writeVars, socketVars, logicVars,
        handVars, readHist, writeHist, HandledGoBack
<1>14. CASE NewDone
  BY <1>14
    DEF NewDone, sharedVars, readVars, writeVars, socketVars, logicVars, handVars,
        readHist, writeHist, HandledGoBack
<1>15. CASE TakeKicks
  BY <1>15
    DEF TakeKicks, Zero, readVars, writeVars, logicVars, handVars, readHist,
        writeHist, HandledGoBack
<1>16. CASE ReleasePackets
  BY <1>16
    DEF ReleasePackets, Plus, Zero, writeVars, socketVars, logicVars, handVars,
        writeHist, HandledGoBack
<1>17. CASE TakeWrites
  BY <1>17
    DEF TakeWrites, Zero, readVars, socketVars, logicVars, handVars, readHist,
        writeHist, HandledGoBack
<1>18. CASE FinishWrites
  BY <1>18
    DEF FinishWrites, Plus, Zero, readVars, socketVars, logicVars, handVars,
        readHist, writeHist, HandledGoBack
<1>19. CASE ReleaseSockets
  BY <1>19
    DEF ReleaseSockets, Plus, Zero, readVars, writeVars, logicVars, handVars,
        readHist, writeHist, HandledGoBack
<1>20. CASE SwapNetToLogic
  BY <1>20
    DEF SwapNetToLogic, Emptied, Plus, Zero, netVars, readHist, HandledGoBack
<1>21. CASE SwapLogicToNet
  BY <1>21
    DEF SwapLogicToNet, HandOver, Plus, Zero, netVars, readHist, writeHist,
        HandledGoBack
<1>22. CASE UNCHANGED vars
  BY <1>22
    DEF vars, netVars, sharedVars, readVars, writeVars, socketVars, logicVars,
        handVars, readHist, writeHist, HandledGoBack
<1> QED
  BY <1>1, <1>2, <1>3, <1>4, <1>5, <1>6, <1>7, <1>8, <1>9, <1>10, <1>11, <1>12,
      <1>13, <1>14, <1>15, <1>16, <1>17, <1>18, <1>19, <1>20, <1>21, <1>22
    DEF Next, NetEvent, NetThread, LogicThread, Handler

(* Packets and starts are taken in the swap that takes the close.          *)
LEMMA NothingStaysBehind == IInv /\ [Next]_vars => NothingIsLeftBehind'
<1> SUFFICES ASSUME IInv, [Next]_vars  PROVE  NothingIsLeftBehind'
  OBVIOUS
<1> USE DEF IInv, TypeOK, Bag
<1>1. ASSUME NEW t \in Sockets, OnAccept(t)  PROVE  NothingIsLeftBehind'
  BY <1>1
    DEF OnAccept, sharedVars, readVars, writeVars, socketVars, logicVars, handVars,
        readHist, writeHist, Stages, EverySocketHasOnePlace, Held,
        NothingIsLeftBehind
<1>2. ASSUME NEW t \in Sockets, OnRead(t)  PROVE  NothingIsLeftBehind'
  BY <1>2
    DEF OnRead, AddOne, sharedVars, readVars, writeVars, socketVars, logicVars,
        handVars, writeHist, Stages, EverySocketHasOnePlace, Held,
        NothingIsLeftBehind
<1>3. ASSUME NEW t \in Sockets, OnBroken(t)  PROVE  NothingIsLeftBehind'
  BY <1>3
    DEF OnBroken, DelSocket, AddOne, readVars, writeVars, logicVars, handVars,
        readHist, writeHist, Stages, EverySocketHasOnePlace, Held,
        NothingIsLeftBehind
<1>4. ASSUME NEW t \in Sockets, AddSocket(t)  PROVE  NothingIsLeftBehind'
  BY <1>4
    DEF AddSocket, AddOne, readVars, writeVars, logicVars, handVars, readHist,
        writeHist, Stages, EverySocketHasOnePlace, Held, NothingIsLeftBehind
<1>5. ASSUME NEW t \in Sockets, Unpack(t)  PROVE  NothingIsLeftBehind'
  BY <1>5
    DEF Unpack, Whole, writeVars, socketVars, logicVars, handVars, writeHist,
        Stages, EverySocketHasOnePlace, Held, NothingIsLeftBehind
<1>6. ASSUME NEW t \in Sockets, KickOne(t)  PROVE  NothingIsLeftBehind'
  BY <1>6
    DEF KickOne, KickFinds, DelSocket, AddOne, TakeOne, readVars, writeVars,
        logicVars, handVars, readHist, writeHist, Stages, EverySocketHasOnePlace,
        Held, NothingIsLeftBehind
<1>7. ASSUME NEW t \in Sockets, HandleInit(t)  PROVE  NothingIsLeftBehind'
  BY <1>7
    DEF HandleInit, TakeOne, netVars, sharedVars, readVars, writeVars, socketVars,
        readHist, writeHist, Stages, EverySocketHasOnePlace, Held,
        NothingIsLeftBehind
<1>8. ASSUME NEW t \in Sockets, HandlePacket(t)  PROVE  NothingIsLeftBehind'
  BY <1>8
    DEF HandlePacket, AddOne, TakeOne, Zero, netVars, sharedVars, readVars,
        writeVars, socketVars, writeHist, Stages, EverySocketHasOnePlace, Held,
        NothingIsLeftBehind
<1>9. ASSUME NEW t \in Sockets, HandleClose(t)  PROVE  NothingIsLeftBehind'
  BY <1>9
    DEF HandleClose, CloseIsDue, Zero, AddOne, TakeOne, netVars, sharedVars,
        readVars, writeVars, socketVars, readHist, writeHist, Stages,
        EverySocketHasOnePlace, Held, NothingIsLeftBehind
<1>10. ASSUME NEW t \in Sockets, Say(t)  PROVE  NothingIsLeftBehind'
  BY <1>10
    DEF Say, AddOne, netVars, sharedVars, readVars, writeVars, socketVars, handVars,
        readHist, Stages, EverySocketHasOnePlace, Held, NothingIsLeftBehind
<1>11. ASSUME NEW t \in Sockets, KickSocket(t)  PROVE  NothingIsLeftBehind'
  BY <1>11
    DEF KickSocket, AddOne, netVars, sharedVars, readVars, writeVars, socketVars,
        handVars, readHist, writeHist, Stages, EverySocketHasOnePlace, Held,
        NothingIsLeftBehind
<1>12. ASSUME NEW t \in Sockets, StartConnect(t)  PROVE  NothingIsLeftBehind'
  BY <1>12
    DEF StartConnect, AddOne, readVars, writeVars, logicVars, handVars, readHist,
        writeHist, Stages, EverySocketHasOnePlace, Held, NothingIsLeftBehind
<1>13. CASE EventsDone
  BY <1>13
    DEF EventsDone, sharedVars, readVars, writeVars, socketVars, logicVars,
        handVars, readHist, writeHist, Stages, EverySocketHasOnePlace, Held,
        NothingIsLeftBehind
<1>14. CASE NewDone
  BY <1>14
    DEF NewDone, sharedVars, readVars, writeVars, socketVars, logicVars, handVars,
        readHist, writeHist, Stages, EverySocketHasOnePlace, Held,
        NothingIsLeftBehind
<1>15. CASE TakeKicks
  BY <1>15
    DEF TakeKicks, Zero, readVars, writeVars, logicVars, handVars, readHist,
        writeHist, Stages, EverySocketHasOnePlace, Held, NothingIsLeftBehind
<1>16. CASE ReleasePackets
  BY <1>16
    DEF ReleasePackets, Plus, Zero, writeVars, socketVars, logicVars, handVars,
        writeHist, Stages, EverySocketHasOnePlace, Held, NothingIsLeftBehind
<1>17. CASE TakeWrites
  BY <1>17
    DEF TakeWrites, Zero, readVars, socketVars, logicVars, handVars, readHist,
        writeHist, Stages, EverySocketHasOnePlace, Held, NothingIsLeftBehind
<1>18. CASE FinishWrites
  BY <1>18
    DEF FinishWrites, Plus, Zero, readVars, socketVars, logicVars, handVars,
        readHist, writeHist, Stages, EverySocketHasOnePlace, Held,
        NothingIsLeftBehind
<1>19. CASE ReleaseSockets
  BY <1>19
    DEF ReleaseSockets, Plus, Zero, readVars, writeVars, logicVars, handVars,
        readHist, writeHist, Stages, EverySocketHasOnePlace, Held,
        NothingIsLeftBehind
<1>20. CASE SwapNetToLogic
  BY <1>20
    DEF SwapNetToLogic, Emptied, Plus, Zero, netVars, readHist, Stages,
        EverySocketHasOnePlace, Held, NothingIsLeftBehind
<1>21. CASE SwapLogicToNet
  BY <1>21
    DEF SwapLogicToNet, HandOver, Plus, Zero, netVars, readHist, writeHist, Stages,
        EverySocketHasOnePlace, Held, NothingIsLeftBehind
<1>22. CASE UNCHANGED vars
  BY <1>22
    DEF vars, netVars, sharedVars, readVars, writeVars, socketVars, logicVars,
        handVars, readHist, writeHist, Stages, EverySocketHasOnePlace, Held,
        NothingIsLeftBehind
<1> QED
  BY <1>1, <1>2, <1>3, <1>4, <1>5, <1>6, <1>7, <1>8, <1>9, <1>10, <1>11, <1>12,
      <1>13, <1>14, <1>15, <1>16, <1>17, <1>18, <1>19, <1>20, <1>21, <1>22
    DEF Next, NetEvent, NetThread, LogicThread, Handler

(* Starts are taken in the swap that takes packets and closes, or earlier.  *)
LEMMA StartStaysFirst == IInv /\ [Next]_vars => StartedFirst'
<1> SUFFICES ASSUME IInv, [Next]_vars  PROVE  StartedFirst'
  OBVIOUS
<1> USE DEF IInv, TypeOK, Bag
<1>1. ASSUME NEW t \in Sockets, OnAccept(t)  PROVE  StartedFirst'
  BY <1>1
    DEF OnAccept, sharedVars, readVars, writeVars, socketVars, logicVars, handVars,
        readHist, writeHist, Stages, EverySocketHasOnePlace, Held,
        NothingIsLeftBehind, StartedFirst
<1>2. ASSUME NEW t \in Sockets, OnRead(t)  PROVE  StartedFirst'
  BY <1>2
    DEF OnRead, AddOne, sharedVars, readVars, writeVars, socketVars, logicVars,
        handVars, writeHist, Stages, EverySocketHasOnePlace, Held,
        NothingIsLeftBehind, StartedFirst
<1>3. ASSUME NEW t \in Sockets, OnBroken(t)  PROVE  StartedFirst'
  BY <1>3
    DEF OnBroken, DelSocket, AddOne, readVars, writeVars, logicVars, handVars,
        readHist, writeHist, Stages, EverySocketHasOnePlace, Held,
        NothingIsLeftBehind, StartedFirst
<1>4. ASSUME NEW t \in Sockets, AddSocket(t)  PROVE  StartedFirst'
  BY <1>4
    DEF AddSocket, AddOne, readVars, writeVars, logicVars, handVars, readHist,
        writeHist, Stages, EverySocketHasOnePlace, Held, NothingIsLeftBehind,
        StartedFirst
<1>5. ASSUME NEW t \in Sockets, Unpack(t)  PROVE  StartedFirst'
  BY <1>5
    DEF Unpack, Whole, writeVars, socketVars, logicVars, handVars, writeHist,
        Stages, EverySocketHasOnePlace, Held, NothingIsLeftBehind, StartedFirst
<1>6. ASSUME NEW t \in Sockets, KickOne(t)  PROVE  StartedFirst'
  BY <1>6
    DEF KickOne, KickFinds, DelSocket, AddOne, TakeOne, readVars, writeVars,
        logicVars, handVars, readHist, writeHist, Stages, EverySocketHasOnePlace,
        Held, NothingIsLeftBehind, StartedFirst
<1>7. ASSUME NEW t \in Sockets, HandleInit(t)  PROVE  StartedFirst'
  BY <1>7
    DEF HandleInit, TakeOne, netVars, sharedVars, readVars, writeVars, socketVars,
        readHist, writeHist, Stages, EverySocketHasOnePlace, Held,
        NothingIsLeftBehind, StartedFirst
<1>8. ASSUME NEW t \in Sockets, HandlePacket(t)  PROVE  StartedFirst'
  BY <1>8
    DEF HandlePacket, AddOne, TakeOne, Zero, netVars, sharedVars, readVars,
        writeVars, socketVars, writeHist, Stages, EverySocketHasOnePlace, Held,
        NothingIsLeftBehind, StartedFirst
<1>9. ASSUME NEW t \in Sockets, HandleClose(t)  PROVE  StartedFirst'
  <2>a. closes[t] > 0
    BY <1>9 DEF HandleClose
  <2>b. reads[t] = 0
    BY <1>9 DEF HandleClose, CloseIsDue, Zero
  <2>c. /\ waitDelete[t] \in Nat /\ closes[t] \in Nat /\ dels[t] \in Nat
        /\ deleteSockets[t] \in Nat /\ freed[t] \in Nat
    OBVIOUS
  <2>d. Held(t) + freed[t] <= 1
    BY DEF EverySocketHasOnePlace
  <2>1. /\ t \notin sockets /\ waitDelete[t] = 0 /\ closes[t] = 1
    BY <2>a, <2>c, <2>d, ClosingIsItsOnePlace
  <2>e. readPackets[t] = 0
    BY <2>a, <2>c DEF NothingIsLeftBehind
  <2>2. /\ closes' = [closes EXCEPT ![t] = 0]
        /\ handler' = [handler EXCEPT ![t] = "closed"]
        /\ UNCHANGED <<sockets, waitDelete, readPackets, waitInit, inits, reads>>
    BY <1>9, <2>1 DEF HandleClose, TakeOne, netVars, sharedVars, readVars, socketVars
  <2> QED
    BY <2>1, <2>2, <2>b, <2>e DEF StartedFirst
<1>10. ASSUME NEW t \in Sockets, Say(t)  PROVE  StartedFirst'
  BY <1>10
    DEF Say, AddOne, netVars, sharedVars, readVars, writeVars, socketVars, handVars,
        readHist, Stages, EverySocketHasOnePlace, Held, NothingIsLeftBehind,
        StartedFirst
<1>11. ASSUME NEW t \in Sockets, KickSocket(t)  PROVE  StartedFirst'
  BY <1>11
    DEF KickSocket, AddOne, netVars, sharedVars, readVars, writeVars, socketVars,
        handVars, readHist, writeHist, Stages, EverySocketHasOnePlace, Held,
        NothingIsLeftBehind, StartedFirst
<1>12. ASSUME NEW t \in Sockets, StartConnect(t)  PROVE  StartedFirst'
  BY <1>12
    DEF StartConnect, AddOne, readVars, writeVars, logicVars, handVars, readHist,
        writeHist, Stages, EverySocketHasOnePlace, Held, NothingIsLeftBehind,
        StartedFirst
<1>13. CASE EventsDone
  BY <1>13
    DEF EventsDone, sharedVars, readVars, writeVars, socketVars, logicVars,
        handVars, readHist, writeHist, Stages, EverySocketHasOnePlace, Held,
        NothingIsLeftBehind, StartedFirst
<1>14. CASE NewDone
  BY <1>14
    DEF NewDone, sharedVars, readVars, writeVars, socketVars, logicVars, handVars,
        readHist, writeHist, Stages, EverySocketHasOnePlace, Held,
        NothingIsLeftBehind, StartedFirst
<1>15. CASE TakeKicks
  BY <1>15
    DEF TakeKicks, Zero, readVars, writeVars, logicVars, handVars, readHist,
        writeHist, Stages, EverySocketHasOnePlace, Held, NothingIsLeftBehind,
        StartedFirst
<1>16. CASE ReleasePackets
  BY <1>16
    DEF ReleasePackets, Plus, Zero, writeVars, socketVars, logicVars, handVars,
        writeHist, Stages, EverySocketHasOnePlace, Held, NothingIsLeftBehind,
        StartedFirst
<1>17. CASE TakeWrites
  BY <1>17
    DEF TakeWrites, Zero, readVars, socketVars, logicVars, handVars, readHist,
        writeHist, Stages, EverySocketHasOnePlace, Held, NothingIsLeftBehind,
        StartedFirst
<1>18. CASE FinishWrites
  BY <1>18
    DEF FinishWrites, Plus, Zero, readVars, socketVars, logicVars, handVars,
        readHist, writeHist, Stages, EverySocketHasOnePlace, Held,
        NothingIsLeftBehind, StartedFirst
<1>19. CASE ReleaseSockets
  BY <1>19
    DEF ReleaseSockets, Plus, Zero, readVars, writeVars, logicVars, handVars,
        readHist, writeHist, Stages, EverySocketHasOnePlace, Held,
        NothingIsLeftBehind, StartedFirst
<1>20. CASE SwapNetToLogic
  BY <1>20
    DEF SwapNetToLogic, Emptied, Plus, Zero, netVars, readHist, Stages,
        EverySocketHasOnePlace, Held, NothingIsLeftBehind, StartedFirst
<1>21. CASE SwapLogicToNet
  BY <1>21
    DEF SwapLogicToNet, HandOver, Plus, Zero, netVars, readHist, writeHist, Stages,
        EverySocketHasOnePlace, Held, NothingIsLeftBehind, StartedFirst
<1>22. CASE UNCHANGED vars
  BY <1>22
    DEF vars, netVars, sharedVars, readVars, writeVars, socketVars, logicVars,
        handVars, readHist, writeHist, Stages, EverySocketHasOnePlace, Held,
        NothingIsLeftBehind, StartedFirst
<1> QED
  BY <1>1, <1>2, <1>3, <1>4, <1>5, <1>6, <1>7, <1>8, <1>9, <1>10, <1>11, <1>12,
      <1>13, <1>14, <1>15, <1>16, <1>17, <1>18, <1>19, <1>20, <1>21, <1>22
    DEF Next, NetEvent, NetThread, LogicThread, Handler

-----------------------------------------------------------------------------
(* The invariant the proofs rest on.                                       *)
THEOREM Invariance == Spec => []IInv
<1>1. Init => IInv
  BY DEF Init, IInv, TypeOK, Bag, Zero, NetStages, LogicStages, Stages, Held,
         EverySocketHasOnePlace, EveryPacketHasOnePlace, HandledGoBack,
         NothingIsLeftBehind, StartedFirst
<1>2. IInv /\ [Next]_vars => IInv'
  BY TypeStays, StagesStay, SocketsStay, PacketsStay, HandledStays, NothingStaysBehind,
     StartStaysFirst DEF IInv
<1> QED
  BY <1>1, <1>2, PTL DEF Spec

(* Every vector, stage and counter of the two threads keeps its type.      *)
THEOREM TypeCorrect == Spec => []TypeOK
  BY Invariance, PTL DEF IInv

(* An accepted or opened socket is in one place, and released once         *)
(* (socket_manager.hpp, del_socket and handle_release_socket).             *)
THEOREM SocketsHaveOnePlace == Spec => []EverySocketHasOnePlace
  BY Invariance, PTL DEF IInv

(* No packet is lost or goes back to its pool twice on its way round       *)
(* (socket_manager.hpp, the swaps and handle_write_msg).                   *)
THEOREM PacketsHaveOnePlace == Spec => []EveryPacketHasOnePlace
  BY Invariance, PTL DEF IInv

(* A packet is handled between the start and the close of its handler      *)
(* (service.cpp, do_loop).                                                 *)
THEOREM PacketsMeetHandlers == Spec => []PacketsMeetTheirHandler
<1>1. IInv => PacketsMeetTheirHandler
  <2> SUFFICES ASSUME IInv, NEW s \in Sockets
               PROVE  /\ inits = Zero /\ reads[s] > 0 => handler[s] = "open"
                      /\ readPackets[s] + reads[s] + inits[s] + waitInit[s] + closes[s] > 0
                           => freed[s] = 0
    BY DEF PacketsMeetTheirHandler
  <2> USE DEF IInv, TypeOK, Bag
  <2>1. inits = Zero /\ reads[s] > 0 => handler[s] = "open"
    BY DEF StartedFirst, Zero
  <2>2. freed[s] > 0 => readPackets[s] = 0 /\ waitInit[s] = 0 /\ reads[s] = 0 /\ inits[s] = 0
    BY DEF NothingIsLeftBehind
  <2>3. freed[s] > 0 => closes[s] = 0
    <3>1. /\ waitDelete[s] \in Nat /\ closes[s] \in Nat /\ dels[s] \in Nat
          /\ deleteSockets[s] \in Nat /\ freed[s] \in Nat
      OBVIOUS
    <3>2. Held(s) + freed[s] <= 1
      BY DEF EverySocketHasOnePlace
    <3>3. closes[s] > 0 => freed[s] = 0
      BY <3>1, <3>2, ClosingIsItsOnePlace
    <3> QED
      BY <3>1, <3>3
  <2> QED
    BY <2>1, <2>2, <2>3
<1> QED
  BY <1>1, Invariance, PTL

(* handle_close comes after every packet that was unpacked before the      *)
(* connection went (service.cpp, do_loop).                                 *)
THEOREM CloseIsLast == Spec => CloseComesLast
<1> DEFINE Last == \A s \in Sockets :
                     handler[s] = "open" /\ handler'[s] = "closed" => handled[s] = unpacked[s]
<1>1. IInv /\ [Next]_vars => Last
  <2> SUFFICES ASSUME IInv, [Next]_vars, NEW s \in Sockets,
                      handler[s] = "open", handler'[s] = "closed"
               PROVE  handled[s] = unpacked[s]
    OBVIOUS
  <2> USE DEF IInv, TypeOK, Bag
  <2>1. HandleClose(s)
    BY DEF Next, NetEvent, NetThread, LogicThread, Handler, vars, logicVars, handVars,
           OnAccept, OnRead, OnBroken, EventsDone, NewDone, TakeKicks, ReleasePackets,
           TakeWrites, FinishWrites, ReleaseSockets, AddSocket, Unpack, KickOne,
           SwapNetToLogic, SwapLogicToNet, HandleInit, HandlePacket, HandleClose, Say,
           KickSocket, StartConnect
  <2>2. closes[s] > 0 /\ reads[s] = 0
    BY <2>1 DEF HandleClose, CloseIsDue, Zero
  <2>3. readPackets[s] = 0
    BY <2>2 DEF NothingIsLeftBehind
  <2> QED
    BY <2>2, <2>3 DEF EveryPacketHasOnePlace, HandledGoBack
<1>2. IInv /\ [Next]_vars => [Last]_vars
  BY <1>1
<1> QED
  BY <1>2, Invariance, PTL DEF Spec, CloseComesLast
=============================================================================
