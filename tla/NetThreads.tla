----------------------------- MODULE NetThreads -----------------------------
(***************************************************************************)
(* The two threads of a service and what they hand to each other under the *)
(* one mutex of the socket manager.  The net thread (socket_manager.hpp,   *)
(* tcp_manager.cpp) owns the connections and the memory of what they read; *)
(* the logic thread (service.cpp) owns the handlers and the memory of what *)
(* they write.  Sockets and packets make a round trip, so that each thread *)
(* frees only what it allocated.                                           *)
(*                                                                         *)
(* One action per critical section or per step between two of them.        *)
(*                                                                         *)
(* The vectors are bags, counted per socket: they are only appended to and *)
(* emptied from the front, so the packets of one socket keep their order.  *)
(* The connections the process opens itself are added to m_sockets by the  *)
(* logic thread, unlocked (tcp_manager.h:129): a step of its own here, so  *)
(* what happens when it overlaps a loop over m_sockets is left out.        *)
(***************************************************************************)
EXTENDS Integers, FiniteSets

CONSTANTS
  Sockets,  \* the connections, by socket index
  MaxRead,  \* bound: packets a connection sends
  MaxSay,   \* bound: packets the handlers write to a connection
  MaxKick   \* bound: kicks of a connection

ASSUME BoundsAssumption == MaxRead \in Nat /\ MaxSay \in Nat /\ MaxKick \in Nat

VARIABLES
  \* the net thread
  netAt,         \* the stage of tcp_manager::update
  newSockets,    \* m_new_sockets
  sockets,       \* m_sockets
  input,         \* packets received and not yet unpacked
  todo,          \* the sockets handle_unpacket has still to visit
  kicks,         \* the kick_sockets handle_kick_socket took
  sending,       \* the packets handle_write_msg took
  \* under m_mutex
  readPackets, finishReadPackets, writePackets, finishWritePackets,
  waitInit, waitKick, waitDelete, deleteSockets,
  \* the logic thread
  logicAt,       \* the stage of service::do_loop
  inits, reads, dones, closes, dels,  \* add_sockets, read_packets, del_sockets
  outWrite,      \* m_write_packets of the service
  outKick,       \* m_wait_kick_sockets of the service
  handler,       \* the packet handler of each socket
  \* history: how many of each there have been
  received, unpacked, handled, released, said, returned, freed, kicked

netVars    == <<netAt, newSockets, sockets, input, todo, kicks, sending>>
readVars   == <<readPackets, finishReadPackets>>
writeVars  == <<writePackets, finishWritePackets>>
socketVars == <<waitInit, waitKick, waitDelete, deleteSockets>>
sharedVars == <<readVars, writeVars, socketVars>>
handVars   == <<inits, reads, dones, closes, dels>>
logicVars  == <<logicAt, handVars, outWrite, outKick, handler>>
readHist   == <<received, unpacked, handled, released>>
writeHist  == <<said, returned>>
vars == <<netVars, sharedVars, logicVars, readHist, writeHist, freed, kicked>>

Zero == [s \in Sockets |-> 0]
Plus(f, g) == [s \in Sockets |-> f[s] + g[s]]
AddOne(f, s)  == [f EXCEPT ![s] = @ + 1]
TakeOne(f, s) == [f EXCEPT ![s] = @ - 1]
Bag == [Sockets -> Nat]

NetStages   == {"event", "new", "unpack", "kick", "write", "finish", "free"}
LogicStages == {"swap", "handle"}

TypeOK ==
  /\ netAt \in NetStages /\ logicAt \in LogicStages
  /\ newSockets \subseteq Sockets /\ sockets \subseteq Sockets /\ todo \subseteq Sockets
  /\ {input, kicks, sending} \subseteq Bag
  /\ {readPackets, finishReadPackets, writePackets, finishWritePackets} \subseteq Bag
  /\ {waitInit, waitKick, waitDelete, deleteSockets} \subseteq Bag
  /\ {inits, reads, dones, closes, dels, outWrite, outKick} \subseteq Bag
  /\ handler \in [Sockets -> {"none", "open", "closed"}]
  /\ {received, unpacked, handled, released} \subseteq Bag
  /\ {said, returned, freed, kicked} \subseteq Bag

Init ==
  /\ netAt = "event" /\ logicAt = "swap"
  /\ newSockets = {} /\ sockets = {} /\ todo = {}
  /\ input = Zero /\ kicks = Zero /\ sending = Zero
  /\ readPackets = Zero /\ finishReadPackets = Zero
  /\ writePackets = Zero /\ finishWritePackets = Zero
  /\ waitInit = Zero /\ waitKick = Zero /\ waitDelete = Zero /\ deleteSockets = Zero
  /\ inits = Zero /\ reads = Zero /\ dones = Zero /\ closes = Zero /\ dels = Zero
  /\ outWrite = Zero /\ outKick = Zero
  /\ handler = [s \in Sockets |-> "none"]
  /\ received = Zero /\ unpacked = Zero /\ handled = Zero /\ released = Zero
  /\ said = Zero /\ returned = Zero /\ freed = Zero /\ kicked = Zero

-----------------------------------------------------------------------------
(* How often a socket is in the hands of one of the threads or of the      *)
(* mutex, from its accept to its release.                                  *)
Held(s) ==
  (IF s \in newSockets THEN 1 ELSE 0) + (IF s \in sockets THEN 1 ELSE 0)
    + waitDelete[s] + closes[s] + dels[s] + deleteSockets[s]

(* del_socket: the connection is closed, with what it has not unpacked,    *)
(* and goes to the logic thread.                                           *)
DelSocket(s) ==
  /\ sockets' = sockets \ {s}
  /\ input' = [input EXCEPT ![s] = 0]
  /\ waitDelete' = AddOne(waitDelete, s)

(* The events of event_base_loop.                                          *)
OnAccept(s) ==
  /\ netAt = "event"
  /\ Held(s) = 0 /\ freed[s] = 0   \* gen_socket_index never repeats an index
  /\ newSockets' = newSockets \cup {s}
  /\ UNCHANGED <<netAt, sockets, input, todo, kicks, sending, sharedVars, logicVars,
                 readHist, writeHist, freed, kicked>>

OnRead(s) ==
  /\ netAt = "event"
  /\ s \in sockets /\ received[s] < MaxRead
  /\ input' = AddOne(input, s)
  /\ received' = AddOne(received, s)
  /\ UNCHANGED <<netAt, newSockets, sockets, todo, kicks, sending, sharedVars, logicVars,
                 unpacked, handled, released, writeHist, freed, kicked>>

(* on_read or on_write fails: the peer is gone.                            *)
OnBroken(s) ==
  /\ netAt = "event"
  /\ s \in sockets
  /\ DelSocket(s)
  /\ UNCHANGED <<netAt, newSockets, todo, kicks, sending, readVars, writeVars, waitInit,
                 waitKick, deleteSockets, logicVars, readHist, writeHist, freed, kicked>>

EventsDone ==
  /\ netAt = "event"
  /\ netAt' = "new"
  /\ UNCHANGED <<newSockets, sockets, input, todo, kicks, sending, sharedVars, logicVars,
                 readHist, writeHist, freed, kicked>>

(* handle_new_socket, one socket: add_socket.                              *)
AddSocket(s) ==
  /\ netAt = "new"
  /\ s \in newSockets
  /\ newSockets' = newSockets \ {s}
  /\ sockets' = sockets \cup {s}
  /\ waitInit' = AddOne(waitInit, s)
  /\ UNCHANGED <<netAt, input, todo, kicks, sending, readVars, writeVars, waitKick,
                 waitDelete, deleteSockets, logicVars, readHist, writeHist, freed, kicked>>

(* handle_unpacket visits the sockets that have input.  A stream that      *)
(* calls set_active(false) is closed in the same call, so its other branch *)
(* is dead.                                                                *)
NewDone ==
  /\ netAt = "new" /\ newSockets = {}
  /\ netAt' = "unpack"
  /\ todo' = {s \in sockets : input[s] > 0}
  /\ UNCHANGED <<newSockets, sockets, input, kicks, sending, sharedVars, logicVars,
                 readHist, writeHist, freed, kicked>>

(* The packets that are whole and within MAX_PACKET_READ_SIZE.             *)
WholeOrBegun(s) == 1..input[s] + 1
Whole(s) == 1..input[s]

(* handle_socket_unpacket: unpack_packets into m_read_packets.             *)
Unpack(s) ==
  /\ netAt = "unpack"
  /\ s \in todo
  /\ todo' = todo \ {s}
  /\ \E k \in Whole(s) :
       /\ input' = [input EXCEPT ![s] = @ - k]
       /\ readPackets' = [readPackets EXCEPT ![s] = @ + k]
       /\ unpacked' = [unpacked EXCEPT ![s] = @ + k]
  /\ UNCHANGED <<netAt, newSockets, sockets, kicks, sending, finishReadPackets, writeVars,
                 socketVars, logicVars, received, handled, released, writeHist, freed,
                 kicked>>

(* handle_kick_socket takes the list under the mutex ...                   *)
TakeKicks ==
  /\ netAt = "unpack" /\ todo = {}
  /\ netAt' = "kick"
  /\ kicks' = waitKick
  /\ waitKick' = Zero
  /\ UNCHANGED <<newSockets, sockets, input, todo, sending, readVars, writeVars, waitInit,
                 waitDelete, deleteSockets, logicVars, readHist, writeHist, freed, kicked>>

(* Is the socket index a kick names still in m_sockets?                    *)
KickTrusts(s) == s \in sockets \/ handler[s] = "open"
KickFinds(s) == s \in sockets

(* ... and looks up each index: the socket may be gone, or kicked twice.   *)
KickOne(s) ==
  /\ netAt = "kick"
  /\ kicks[s] > 0
  /\ kicks' = TakeOne(kicks, s)
  /\ IF KickFinds(s) THEN DelSocket(s) ELSE UNCHANGED <<sockets, input, waitDelete>>
  /\ UNCHANGED <<netAt, newSockets, todo, sending, readVars, writeVars, waitInit, waitKick,
                 deleteSockets, logicVars, readHist, writeHist, freed, kicked>>

(* handle_release_packet frees the packets the logic thread has done with. *)
ReleasePackets ==
  /\ netAt = "kick" /\ kicks = Zero
  /\ netAt' = "write"
  /\ released' = Plus(released, finishReadPackets)
  /\ finishReadPackets' = Zero
  /\ UNCHANGED <<newSockets, sockets, input, todo, kicks, sending, readPackets, writeVars,
                 socketVars, logicVars, received, unpacked, handled, writeHist, freed,
                 kicked>>

(* handle_write_msg takes the packets, sends those whose socket is there,  *)
(* and hands all of them back in a second critical section.                *)
TakeWrites ==
  /\ netAt = "write"
  /\ netAt' = "finish"
  /\ sending' = writePackets
  /\ writePackets' = Zero
  /\ UNCHANGED <<newSockets, sockets, input, todo, kicks, readVars, finishWritePackets,
                 socketVars, logicVars, readHist, writeHist, freed, kicked>>

FinishWrites ==
  /\ netAt = "finish"
  /\ netAt' = "free"
  /\ finishWritePackets' = Plus(finishWritePackets, sending)
  /\ sending' = Zero
  /\ UNCHANGED <<newSockets, sockets, input, todo, kicks, readVars, writePackets,
                 socketVars, logicVars, readHist, writeHist, freed, kicked>>

(* handle_release_socket frees the sockets and their handlers.             *)
ReleaseSockets ==
  /\ netAt = "free"
  /\ netAt' = "event"
  /\ freed' = Plus(freed, deleteSockets)
  /\ deleteSockets' = Zero
  /\ UNCHANGED <<newSockets, sockets, input, todo, kicks, sending, readVars, writeVars,
                 waitInit, waitKick, waitDelete, logicVars, readHist, writeHist, kicked>>

-----------------------------------------------------------------------------
(* What the net thread has left in m_read_packets and m_finish_write_      *)
(* packets once the logic thread has taken them.                           *)
NotEmptied(b) == b
Emptied(b) == Zero

(* swap_net_2_logic: everything the net thread has handed over, at once.   *)
(* The written packets come back to the pool of the logic thread.          *)
SwapNetToLogic ==
  /\ logicAt = "swap"
  /\ logicAt' = "handle"
  /\ reads' = readPackets /\ readPackets' = Emptied(readPackets)
  /\ returned' = Plus(returned, finishWritePackets)
  /\ finishWritePackets' = Emptied(finishWritePackets)
  /\ inits' = waitInit /\ waitInit' = Zero
  /\ closes' = waitDelete /\ waitDelete' = Zero
  /\ UNCHANGED <<netVars, finishReadPackets, writePackets, waitKick, deleteSockets, dones,
                 dels, outWrite, outKick, handler, readHist, said, freed, kicked>>

(* The connection's handler starts, game_handler::handle_init.             *)
HandleInit(s) ==
  /\ logicAt = "handle"
  /\ inits[s] > 0
  /\ inits' = TakeOne(inits, s)
  /\ handler' = [handler EXCEPT ![s] = "open"]
  /\ UNCHANGED <<netVars, sharedVars, logicAt, reads, dones, closes, dels, outWrite, outKick,
                 readHist, writeHist, freed, kicked>>

(* The packets are handled when every new handler has started.             *)
HandlePacket(s) ==
  /\ logicAt = "handle" /\ inits = Zero
  /\ reads[s] > 0
  /\ reads' = TakeOne(reads, s)
  /\ dones' = AddOne(dones, s)
  /\ handled' = AddOne(handled, s)
  /\ UNCHANGED <<netVars, sharedVars, logicAt, inits, closes, dels, outWrite, outKick, handler,
                 received, unpacked, released, writeHist, freed, kicked>>

(* The sockets are closed when every packet has been handled.              *)
CloseIsDueAtOnce == inits = Zero
CloseIsDue == inits = Zero /\ reads = Zero

(* game_handler::handle_close of a socket the net thread has closed.       *)
HandleClose(s) ==
  /\ logicAt = "handle" /\ CloseIsDue
  /\ closes[s] > 0
  /\ closes' = TakeOne(closes, s)
  /\ dels' = AddOne(dels, s)
  /\ handler' = [handler EXCEPT ![s] = "closed"]
  /\ UNCHANGED <<netVars, sharedVars, logicAt, inits, reads, dones, outWrite, outKick,
                 readHist, writeHist, freed, kicked>>

(* What is handed back is appended to what the net thread has not taken.   *)
HandOverLast(kept, new) == new
HandOver(kept, new) == Plus(kept, new)

(* swap_login_2_net: everything the logic thread hands back, at once.      *)
SwapLogicToNet ==
  /\ logicAt = "handle" /\ inits = Zero /\ reads = Zero /\ closes = Zero
  /\ logicAt' = "swap"
  /\ finishReadPackets' = HandOver(finishReadPackets, dones) /\ dones' = Zero
  /\ deleteSockets' = HandOver(deleteSockets, dels) /\ dels' = Zero
  /\ writePackets' = HandOver(writePackets, outWrite) /\ outWrite' = Zero
  /\ waitKick' = HandOver(waitKick, outKick) /\ outKick' = Zero
  /\ UNCHANGED <<netVars, readPackets, finishWritePackets, waitInit, waitDelete, inits, reads,
                 closes, handler, readHist, writeHist, freed, kicked>>

(* push_write_packets and kick_socket, from a handler, a timer or the rest *)
(* of a server's do_loop, for a socket index the logic thread knows of.    *)
Say(s) ==
  /\ handler[s] # "none" /\ said[s] < MaxSay
  /\ outWrite' = AddOne(outWrite, s)
  /\ said' = AddOne(said, s)
  /\ UNCHANGED <<netVars, sharedVars, logicAt, handVars, outKick, handler, readHist,
                 returned, freed, kicked>>

KickSocket(s) ==
  /\ handler[s] # "none" /\ kicked[s] < MaxKick
  /\ outKick' = AddOne(outKick, s)
  /\ kicked' = AddOne(kicked, s)
  /\ UNCHANGED <<netVars, sharedVars, logicAt, handVars, outWrite, handler, readHist,
                 writeHist, freed>>

(* start_connect: a connection the process opens, added at once.           *)
StartConnect(s) ==
  /\ Held(s) = 0 /\ freed[s] = 0   \* gen_socket_index never repeats an index
  /\ sockets' = sockets \cup {s}
  /\ waitInit' = AddOne(waitInit, s)
  /\ UNCHANGED <<netAt, newSockets, input, todo, kicks, sending, readVars, writeVars,
                 waitKick, waitDelete, deleteSockets, logicVars, readHist, writeHist,
                 freed, kicked>>

-----------------------------------------------------------------------------
NetEvent == \E s \in Sockets : OnAccept(s) \/ OnRead(s) \/ OnBroken(s)

NetThread ==
  \/ EventsDone \/ NewDone \/ TakeKicks \/ ReleasePackets
  \/ TakeWrites \/ FinishWrites \/ ReleaseSockets
  \/ \E s \in Sockets : AddSocket(s) \/ Unpack(s) \/ KickOne(s)

LogicThread ==
  \/ SwapNetToLogic \/ SwapLogicToNet
  \/ \E s \in Sockets : HandleInit(s) \/ HandlePacket(s) \/ HandleClose(s)

Handler == \E s \in Sockets : Say(s) \/ KickSocket(s) \/ StartConnect(s)

Next == NetEvent \/ NetThread \/ LogicThread \/ Handler

Spec == Init /\ [][Next]_vars

(* Both threads run their loop for ever (service::loop_run).  Neither the  *)
(* peers nor the handlers have to do anything.                             *)
FairSpec == Spec /\ WF_vars(NetThread) /\ WF_vars(LogicThread)

-----------------------------------------------------------------------------
(* An accepted socket is in exactly one place, and released once: no path  *)
(* to del_socket, by a kick or by a broken connection, takes it twice.     *)
EverySocketHasOnePlace ==
  \A s \in Sockets : Held(s) + freed[s] <= 1

(* Every packet read or written is in exactly one place on its way round:  *)
(* none leaks and none goes back to its pool twice.                        *)
EveryPacketHasOnePlace ==
  \A s \in Sockets :
    /\ unpacked[s] = readPackets[s] + reads[s] + dones[s] + finishReadPackets[s] + released[s]
    /\ said[s] = outWrite[s] + writePackets[s] + sending[s] + finishWritePackets[s] + returned[s]

(* A packet is handled by a handler that has started and has not closed,   *)
(* on a socket that has not been released.                                 *)
PacketsMeetTheirHandler ==
  \A s \in Sockets :
    /\ inits = Zero /\ reads[s] > 0 => handler[s] = "open"
    /\ readPackets[s] + reads[s] + inits[s] + waitInit[s] + closes[s] > 0 => freed[s] = 0

(* handle_close comes after every packet that was unpacked before the      *)
(* connection went, although the two travel in different vectors.          *)
CloseComesLast ==
  [][\A s \in Sockets :
       handler[s] = "open" /\ handler'[s] = "closed" => handled[s] = unpacked[s]]_vars

(* A kick of an open connection closes it, and its handler hears of it; a  *)
(* socket that was closed, by a kick or by its peer, is released in the    *)
(* end.                                                                    *)
ClosedIsReleased ==
  \A s \in Sockets : /\ kicked[s] > 0 ~> handler[s] = "closed"
                    /\ waitDelete[s] > 0 ~> freed[s] > 0
=============================================================================
