------------------------------ MODULE Sessions ------------------------------
(***************************************************************************)
(* An accept loop of src/src/main.rs and the sessions it serves, one after *)
(* the other: the NAA loop (HQPlayer connects, the proxy connects to the   *)
(* NAA endpoint) and the status loop (the NAA connects, the proxy connects *)
(* to HQPlayer's control port).  Each session is two sockets, two threads  *)
(* that relay between them, and a channel on which a thread says it is     *)
(* done.                                                                   *)
(*                                                                         *)
(* The peers and TCP are external.  What a thread relays is counted, not   *)
(* told apart: FrameProxy models what forward_hqp_to_naa makes of it.      *)
(***************************************************************************)
EXTENDS Integers, Sequences

CONSTANTS
    Clients,     \* connections the loop may accept, one session each
    NoClient,    \* cur before the first one
    Loop,        \* "naa" or "status"
    Cap,         \* units a socket buffers in one direction
    MayPanic     \* whether a relay thread may panic

ASSUME SessionsAssumption ==
    /\ NoClient \notin Clients
    /\ Loop \in {"naa", "status"}
    /\ Cap \in Nat \ {0}
    /\ MayPanic \in BOOLEAN

Sides == {"client", "server"}
Other(s) == IF s = "client" THEN "server" ELSE "client"

(* The thread that rewrites what it relays is the one reading HQPlayer.    *)
Rewriter == IF Loop = "naa" THEN "client" ELSE "server"

VARIABLES
    backlog,   \* connections established and not yet accepted
    mainpc,    \* where the loop stands
    cur,       \* the session it is in, or was in last
    peer,      \* what each peer has done with its end of its connection
    shut,      \* the sockets of a session that the proxy has shut down
    unread,    \* units received on a socket, not yet read by its thread
    unsent,    \* units written to a socket, not yet taken by its peer
    thread,    \* the thread that reads that socket
    hold,      \* units it has still to write to the other socket
    done       \* messages in the session's channel

vars == <<backlog, mainpc, cur, peer, shut, unread, unsent, thread, hold, done>>

network == <<peer, unread, unsent>>
threads == <<thread, hold, done>>

Init ==
    /\ backlog = <<>>
    /\ mainpc = "accept" /\ cur = NoClient
    /\ peer = [c \in Clients |-> [s \in Sides |-> "none"]]
    /\ shut = [c \in Clients |-> {}]
    /\ unread = [c \in Clients |-> [s \in Sides |-> 0]]
    /\ unsent = [c \in Clients |-> [s \in Sides |-> 0]]
    /\ thread = [c \in Clients |-> [s \in Sides |-> "none"]]
    /\ hold = [c \in Clients |-> [s \in Sides |-> 0]]
    /\ done = [c \in Clients |-> 0]

Alive(c, s) == thread[c][s] \in {"read", "write"}

-----------------------------------------------------------------------------
(* The peers.  What one does after its socket was shut down is of no       *)
(* consequence to the proxy and left out.                                  *)

Connects(c) ==
    /\ peer[c]["client"] = "none"
    /\ peer' = [peer EXCEPT ![c]["client"] = "open"]
    /\ backlog' = Append(backlog, c)
    /\ UNCHANGED <<mainpc, cur, shut, unread, unsent, threads>>

Sends(c, s) ==
    /\ peer[c][s] = "open" /\ s \notin shut[c]
    /\ thread[c][s] # "ended"
    /\ unread[c][s] < Cap
    /\ unread' = [unread EXCEPT ![c][s] = @ + 1]
    /\ UNCHANGED <<backlog, mainpc, cur, peer, shut, unsent, threads>>

Takes(c, s) ==
    /\ peer[c][s] = "open" /\ s \notin shut[c]
    /\ unsent[c][s] > 0
    /\ unsent' = [unsent EXCEPT ![c][s] = @ - 1]
    /\ UNCHANGED <<backlog, mainpc, cur, peer, shut, unread, threads>>

(* It closes its end, or vanishes without a word (power or network gone).  *)
Leaves(c, s) ==
    /\ peer[c][s] = "open" /\ s \notin shut[c]
    /\ \E how \in {"closed", "lost"} : peer' = [peer EXCEPT ![c][s] = how]
    /\ UNCHANGED <<backlog, mainpc, cur, shut, unread, unsent, threads>>

-----------------------------------------------------------------------------
(* The loop.                                                               *)

Accept ==
    /\ mainpc = "accept" /\ backlog # <<>>
    /\ cur' = Head(backlog) /\ backlog' = Tail(backlog)
    /\ mainpc' = "connect"
    /\ UNCHANGED <<network, shut, threads>>

(* Mutant: the loop does not wait for the session to end.                  *)
ConnectServer_NoWait ==
    /\ mainpc = "connect"
    /\ peer' = [peer EXCEPT ![cur]["server"] = "open"]
    /\ thread' = [thread EXCEPT ![cur] = [s \in Sides |-> "read"]]
    /\ mainpc' = "accept"
    /\ UNCHANGED <<backlog, cur, shut, unread, unsent, hold, done>>

(* The upstream connection stands: both threads are spawned.               *)
ConnectServer ==
    /\ mainpc = "connect"
    /\ peer' = [peer EXCEPT ![cur]["server"] = "open"]
    /\ thread' = [thread EXCEPT ![cur] = [s \in Sides |-> "read"]]
    /\ mainpc' = "recv"
    /\ UNCHANGED <<backlog, cur, shut, unread, unsent, hold, done>>

(* It fails: "continue" drops the accepted socket.                         *)
ConnectFails ==
    /\ mainpc = "connect"
    /\ shut' = [shut EXCEPT ![cur] = {"client"}]
    /\ mainpc' = "accept"
    /\ UNCHANGED <<backlog, cur, network, threads>>

(* Mutant: one channel for all sessions, made before the loop.             *)
Recv_OneChannel ==
    /\ mainpc = "recv"
    /\ \/ \E c \in Clients : done[c] > 0 /\ done' = [done EXCEPT ![c] = @ - 1]
       \/ (\A s \in Sides : ~Alive(cur, s)) /\ UNCHANGED done
    /\ mainpc' = "shut_client"
    /\ UNCHANGED <<backlog, cur, network, shut, thread, hold>>

(* Mutant: the loop waits for both threads.                                *)
Recv_Both ==
    /\ mainpc = "recv"
    /\ \A s \in Sides : ~Alive(cur, s)
    /\ mainpc' = "shut_client"
    /\ UNCHANGED <<backlog, cur, network, shut, threads>>

(* A message, or no thread left that could send one (a panic drops it).    *)
Recv ==
    /\ mainpc = "recv"
    /\ \/ done[cur] > 0 /\ done' = [done EXCEPT ![cur] = @ - 1]
       \/ done[cur] = 0 /\ (\A s \in Sides : ~Alive(cur, s)) /\ UNCHANGED done
    /\ mainpc' = "shut_client"
    /\ UNCHANGED <<backlog, cur, network, shut, thread, hold>>

ShutClient ==
    /\ mainpc = "shut_client"
    /\ shut' = [shut EXCEPT ![cur] = @ \cup {"client"}]
    /\ mainpc' = "shut_server"
    /\ UNCHANGED <<backlog, cur, network, threads>>

(* Mutant: only the accepted socket is shut down.                          *)
ShutServer_Not ==
    /\ mainpc = "shut_server"
    /\ mainpc' = IF Loop = "naa" THEN "join_client" ELSE "accept"
    /\ UNCHANGED <<backlog, cur, network, shut, threads>>

(* The status loop then leaves its threads to themselves.                  *)
ShutServer ==
    /\ mainpc = "shut_server"
    /\ shut' = [shut EXCEPT ![cur] = @ \cup {"server"}]
    /\ mainpc' = IF Loop = "naa" THEN "join_client" ELSE "accept"
    /\ UNCHANGED <<backlog, cur, network, threads>>

(* Mutant: the second thread is not joined.                                *)
JoinClient_Only ==
    /\ mainpc = "join_client" /\ ~Alive(cur, "client")
    /\ mainpc' = "accept"
    /\ UNCHANGED <<backlog, cur, network, shut, threads>>

JoinClient ==
    /\ mainpc = "join_client" /\ ~Alive(cur, "client")
    /\ mainpc' = "join_server"
    /\ UNCHANGED <<backlog, cur, network, shut, threads>>

JoinServer ==
    /\ mainpc = "join_server" /\ ~Alive(cur, "server")
    /\ mainpc' = "accept"
    /\ UNCHANGED <<backlog, cur, network, shut, threads>>

Main ==
    \/ Accept \/ ConnectServer \/ ConnectFails \/ Recv
    \/ ShutClient \/ ShutServer \/ JoinClient \/ JoinServer

-----------------------------------------------------------------------------
(* The thread of session c that reads side s and writes the other side.    *)

(* What a read becomes: frames may be held back until a buffer is used up  *)
(* or give more bytes than they had, a status message is never held back.  *)
Relayed(s, n) ==
    IF s # Rewriter THEN {n} ELSE IF Loop = "naa" THEN 0..Cap ELSE 1..Cap

ReadSome(c, s) ==
    /\ thread[c][s] = "read"
    /\ \E n \in 1..unread[c][s] :
         /\ unread' = [unread EXCEPT ![c][s] = @ - n]
         /\ \E k \in Relayed(s, n) :
              /\ hold' = [hold EXCEPT ![c][s] = k]
              /\ thread' = [thread EXCEPT ![c][s] = IF k = 0 THEN "read" ELSE "write"]
    /\ UNCHANGED <<backlog, mainpc, cur, peer, shut, unsent, done>>

(* The function returns and the thread sends on the channel.  Nobody looks *)
(* any more at what it has not read and at how full its output is.         *)
Returns(c, s) ==
    /\ thread' = [thread EXCEPT ![c][s] = "ended"]
    /\ hold' = [hold EXCEPT ![c][s] = 0]
    /\ done' = [done EXCEPT ![c] = @ + 1]
    /\ unread' = [unread EXCEPT ![c][s] = 0]
    /\ unsent' = [unsent EXCEPT ![c][Other(s)] = 0]

(* End of stream, or an error that discards what was still unread.         *)
ReadEnds(c, s) ==
    /\ thread[c][s] = "read"
    /\ peer[c][s] = "closed" \/ s \in shut[c]
    /\ Returns(c, s)
    /\ UNCHANGED <<backlog, mainpc, cur, peer, shut>>

(* Mutant: the frame is given up, the loop over the stream is not.         *)
GivesUp_GoesOn(c, s) ==
    /\ Loop = "naa" /\ s = "client"
    /\ thread[c][s] = "read" /\ unread[c][s] > 0
    /\ unread' = [unread EXCEPT ![c][s] = 0]
    /\ done' = [done EXCEPT ![c] = @ + 1]
    /\ UNCHANGED <<backlog, mainpc, cur, peer, shut, unsent, thread, hold>>

(* forward_hqp_to_naa returns on a corrupt header.                         *)
GivesUp(c, s) ==
    /\ Loop = "naa" /\ s = "client"
    /\ thread[c][s] = "read" /\ unread[c][s] > 0
    /\ Returns(c, s)
    /\ UNCHANGED <<backlog, mainpc, cur, peer, shut>>

(* A unit goes into the socket's buffer, or to a peer that is no more.     *)
Writes(c, s) ==
    LET o == Other(s)
    IN  /\ thread[c][s] = "write" /\ o \notin shut[c]
        /\ \/ peer[c][o] = "closed" /\ UNCHANGED unsent
           \/ /\ peer[c][o] # "closed" /\ unsent[c][o] < Cap
              /\ unsent' = [unsent EXCEPT ![c][o] = @ + 1]
        /\ hold' = [hold EXCEPT ![c][s] = @ - 1]
        /\ thread' = [thread EXCEPT ![c][s] = IF hold[c][s] = 1 THEN "read" ELSE "write"]
        /\ UNCHANGED <<backlog, mainpc, cur, peer, shut, unread, done>>

(* A closed peer answers with a reset, a lost one lets TCP time out.       *)
WriteFails(c, s) ==
    /\ thread[c][s] = "write"
    /\ peer[c][Other(s)] \in {"closed", "lost"} \/ Other(s) \in shut[c]
    /\ Returns(c, s)
    /\ UNCHANGED <<backlog, mainpc, cur, peer, shut>>

(* It unwinds: its end of the channel is dropped, nothing is sent.         *)
Panics(c, s) ==
    /\ MayPanic /\ Alive(c, s)
    /\ thread' = [thread EXCEPT ![c][s] = "panicked"]
    /\ hold' = [hold EXCEPT ![c][s] = 0]
    /\ UNCHANGED <<backlog, mainpc, cur, network, shut, done>>

Relay(c, s) ==
    ReadSome(c, s) \/ ReadEnds(c, s) \/ Writes(c, s) \/ WriteFails(c, s)

-----------------------------------------------------------------------------
Next ==
    \/ Main
    \/ \E c \in Clients :
         \/ Connects(c)
         \/ \E s \in Sides : \/ Sends(c, s) \/ Takes(c, s) \/ Leaves(c, s)
                             \/ Relay(c, s) \/ GivesUp(c, s) \/ Panics(c, s)

Spec == Init /\ [][Next]_vars

(* Fairness: the proxy's threads run, a write to a connected peer finds    *)
(* room sooner or later because the peer drains its socket, and TCP breaks *)
(* a connection whose peer does not answer.  No peer needs ever to send,   *)
(* to close or to connect.                                                 *)
FairSpec ==
    /\ Spec
    /\ WF_vars(Main)
    /\ \A c \in Clients, s \in Sides : WF_vars(Relay(c, s)) /\ WF_vars(Takes(c, s))

-----------------------------------------------------------------------------
Ended(c, s) == IF thread[c][s] = "ended" THEN 1 ELSE 0

(* The types of the state; a message in a channel was sent by a thread     *)
(* that has ended, and a thread has something to write only while writing. *)
TypeOK ==
    /\ backlog \in Seq(Clients)
    /\ mainpc \in {"accept", "connect", "recv", "shut_client", "shut_server",
                   "join_client", "join_server"}
    /\ cur \in Clients \cup {NoClient}
    /\ mainpc # "accept" => cur \in Clients
    /\ peer \in [Clients -> [Sides -> {"none", "open", "closed", "lost"}]]
    /\ shut \in [Clients -> SUBSET Sides]
    /\ unread \in [Clients -> [Sides -> 0..Cap]]
    /\ unsent \in [Clients -> [Sides -> 0..Cap]]
    /\ thread \in [Clients -> [Sides -> {"none", "read", "write", "ended", "panicked"}]]
    /\ hold \in [Clients -> [Sides -> 0..Cap]]
    /\ done \in [Clients -> 0..2]
    /\ \A c \in Clients : done[c] <= Ended(c, "client") + Ended(c, "server")
    /\ \A c \in Clients, s \in Sides : thread[c][s] = "write" => hold[c][s] > 0

(* The proxy holds at most one connection to the NAA (to HQPlayer) at a    *)
(* time: the endpoint serves a single player.                              *)
Upstream(c) == peer[c]["server"] # "none" /\ "server" \notin shut[c]
OneUpstream == \A c, d \in Clients : Upstream(c) /\ Upstream(d) => c = d

(* When the NAA loop takes the next connection no thread of an earlier     *)
(* session is left that could still write to the NAA or to HQPlayer.       *)
NoStrays ==
    mainpc \in {"accept", "connect"} => \A c \in Clients, s \in Sides : ~Alive(c, s)

(* No session is cut short: its sockets are shut down only when one of its *)
(* own threads is over, never on the word of an earlier session's thread.  *)
NotCutShort ==
    [][\A c \in Clients : shut'[c] # shut[c] /\ peer[c]["server"] # "none" =>
         \E s \in Sides : thread[c][s] \in {"ended", "panicked"}]_vars

(* "First thread to finish triggers teardown of both sockets, preventing a *)
(* deadlock when one side disconnects while the other is idle": once       *)
(* either peer has closed, the session ends and the loop accepts again,    *)
(* provided that no thread panics.                                         *)
NoPanic == \A c \in Clients, s \in Sides : thread[c][s] # "panicked"
SessionEnds ==
    []NoPanic => \A c \in Clients :
        (mainpc = "recv" /\ cur = c /\ \E s \in Sides : peer[c][s] = "closed")
          ~> mainpc = "accept"

(* The status loop joins nobody: the thread it leaves behind still ends.   *)
StraysEnd ==
    \A c \in Clients, s \in Sides :
        (Alive(c, s) /\ mainpc = "accept") ~> ~Alive(c, s)
=============================================================================
