--------------------------- MODULE SessionsProofs ---------------------------
(***************************************************************************)
(* The safety of Sessions for any number of connections and any buffer     *)
(* size, with threads that may panic.  One invariant carries all of it:    *)
(*   - a thread that is alive belongs to the session the loop is in        *)
(*     (NAA loop, by its joins);                                           *)
(*   - an upstream connection not shut down belongs to that session too;   *)
(*   - a connection waiting in the backlog is new: it has no upstream      *)
(*     connection, it waits once, and the loop has not had it yet;         *)
(*   - past recv, one thread of the session is over.                       *)
(***************************************************************************)
EXTENDS Sessions, SequenceTheorems, TLAPS

PastRecv == mainpc \in {"shut_client", "shut_server", "join_client", "join_server"}

AliveIsCurrent ==
    Loop = "naa" => \A c \in Clients, s \in Sides : Alive(c, s) =>
        /\ c = cur /\ mainpc \notin {"accept", "connect"}
        /\ mainpc = "join_server" => s = "server"

UpstreamIsCurrent ==
    \A c \in Clients : Upstream(c) =>
        c = cur /\ mainpc \in {"recv", "shut_client", "shut_server"}

(* c has not been served yet.                                              *)
New(c) == peer[c]["server"] = "none"

BacklogIsNew ==
    /\ \A i \in 1..Len(backlog) : New(backlog[i]) /\ peer[backlog[i]]["client"] # "none"
    /\ \A i, j \in 1..Len(backlog) : backlog[i] = backlog[j] => i = j
    /\ mainpc = "connect" =>
         /\ New(cur) /\ peer[cur]["client"] # "none"
         /\ \A i \in 1..Len(backlog) : backlog[i] # cur
    /\ \A c \in Clients : peer[c]["client"] = "none" => New(c)

ThreadsSpawned ==
    /\ \A c \in Clients : New(c) => \A s \in Sides : thread[c][s] = "none"
    /\ mainpc = "recv" => \A s \in Sides : thread[cur][s] # "none"
    /\ PastRecv => \E s \in Sides : thread[cur][s] \in {"ended", "panicked"}

IInv ==
    /\ TypeOK
    /\ AliveIsCurrent
    /\ UpstreamIsCurrent
    /\ BacklogIsNew
    /\ ThreadsSpawned

-----------------------------------------------------------------------------
LEMMA TypeInit == Init => TypeOK
BY SessionsAssumption, EmptySeq DEF SessionsAssumption, Init, TypeOK, Sides, Ended

LEMMA ReturnsType ==
    ASSUME TypeOK, NEW c \in Clients, NEW s \in Sides, Alive(c, s), Returns(c, s)
    PROVE  /\ thread' \in [Clients -> [Sides -> {"none", "read", "write", "ended", "panicked"}]]
           /\ hold' \in [Clients -> [Sides -> 0..Cap]]
           /\ unread' \in [Clients -> [Sides -> 0..Cap]]
           /\ unsent' \in [Clients -> [Sides -> 0..Cap]]
           /\ done' \in [Clients -> 0..2]
           /\ \A d \in Clients : done'[d] <= Ended(d, "client")' + Ended(d, "server")'
           /\ \A d \in Clients, t \in Sides : thread'[d][t] = "write" => hold'[d][t] > 0
<1> DEFINE States == {"none", "read", "write", "ended", "panicked"}
<1>1. /\ thread \in [Clients -> [Sides -> States]] /\ hold \in [Clients -> [Sides -> 0..Cap]]
      /\ unread \in [Clients -> [Sides -> 0..Cap]] /\ unsent \in [Clients -> [Sides -> 0..Cap]]
      /\ done \in [Clients -> 0..2] /\ 0 \in 0..Cap /\ Other(s) \in Sides
      /\ "ended" \in States
  BY SessionsAssumption DEF SessionsAssumption, TypeOK, Other, Sides
<1>2. /\ thread' = [thread EXCEPT ![c][s] = "ended"]
      /\ hold' = [hold EXCEPT ![c][s] = 0]
      /\ done' = [done EXCEPT ![c] = @ + 1]
      /\ unread' = [unread EXCEPT ![c][s] = 0]
      /\ unsent' = [unsent EXCEPT ![c][Other(s)] = 0]
  BY DEF Returns
<1> HIDE DEF States
<1>3. thread' \in [Clients -> [Sides -> States]]
  BY <1>1, <1>2
<1>4. /\ hold' \in [Clients -> [Sides -> 0..Cap]] /\ unread' \in [Clients -> [Sides -> 0..Cap]]
  BY <1>1, <1>2
<1>5. unsent' \in [Clients -> [Sides -> 0..Cap]]
  BY <1>1, <1>2
<1>6. \A d \in Clients, t \in Sides :
         /\ thread'[d][t] = IF d = c /\ t = s THEN "ended" ELSE thread[d][t]
         /\ hold'[d][t] = IF d = c /\ t = s THEN 0 ELSE hold[d][t]
  BY <1>1, <1>2
<1>7. thread[c][s] # "ended"
  BY DEF Alive
<1>8. \A d \in Clients : done[d] <= Ended(d, "client") + Ended(d, "server") /\ done[d] \in 0..2
  BY <1>1 DEF TypeOK
<1>9. ASSUME NEW d \in Clients
      PROVE  done'[d] <= Ended(d, "client")' + Ended(d, "server")' /\ done'[d] \in 0..2
  <2>1. CASE d = c
    <3>1. done'[d] = done[d] + 1
      BY <1>1, <1>2, <2>1
    <3>2. s = "client" \/ s = "server"
      BY DEF Sides
    <3> QED
      BY <1>6, <1>7, <1>8, <2>1, <3>1, <3>2 DEF Ended, Sides
  <2>2. CASE d # c
    BY <1>1, <1>2, <1>6, <1>8, <2>2 DEF Ended, Sides
  <2> QED
    BY <2>1, <2>2
<1>10. done' \in [Clients -> 0..2]
  BY <1>1, <1>2, <1>9
<1>11. \A d \in Clients, t \in Sides : thread'[d][t] = "write" => hold'[d][t] > 0
  <2>1. \A d \in Clients, t \in Sides : thread[d][t] = "write" => hold[d][t] > 0
    BY DEF TypeOK
  <2> QED
    BY <1>6, <2>1
<1> QED
  BY <1>3, <1>4, <1>5, <1>9, <1>10, <1>11 DEF States

(* A thread goes on, holding k units, or panics; the channel is as it was. *)
LEMMA ThreadMoves ==
    ASSUME TypeOK, NEW c \in Clients, NEW s \in Sides, thread[c][s] # "ended",
           NEW to \in {"read", "write", "panicked"}, NEW k \in 0..Cap, to = "write" => k > 0,
           thread' = [thread EXCEPT ![c][s] = to], hold' = [hold EXCEPT ![c][s] = k],
           UNCHANGED done
    PROVE  /\ thread' \in [Clients -> [Sides -> {"none", "read", "write", "ended", "panicked"}]]
           /\ \A d \in Clients : done'[d] <= Ended(d, "client")' + Ended(d, "server")'
           /\ \A d \in Clients, t \in Sides : thread'[d][t] = "write" => hold'[d][t] > 0
<1> DEFINE States == {"none", "read", "write", "ended", "panicked"}
<1>1. thread \in [Clients -> [Sides -> States]] /\ to \in States
  BY DEF TypeOK
<1>2. hold \in [Clients -> [Sides -> 0..Cap]]
  BY DEF TypeOK
<1> HIDE DEF States
<1>3. thread' \in [Clients -> [Sides -> States]]
  BY <1>1
<1>4. \A d \in Clients, t \in Sides :
         /\ thread'[d][t] = IF d = c /\ t = s THEN to ELSE thread[d][t]
         /\ hold'[d][t] = IF d = c /\ t = s THEN k ELSE hold[d][t]
  BY <1>1, <1>2
<1>5. \A d \in Clients, t \in Sides : Ended(d, t)' = Ended(d, t) /\ Ended(d, t) \in {0, 1}
  BY <1>4 DEF Ended
<1>6. \A d \in Clients : done'[d] <= Ended(d, "client")' + Ended(d, "server")'
  BY <1>5 DEF TypeOK, Sides
<1>7. \A d \in Clients, t \in Sides : thread'[d][t] = "write" => hold'[d][t] > 0
  <2>1. \A d \in Clients, t \in Sides : thread[d][t] = "write" => hold[d][t] > 0
    BY DEF TypeOK
  <2> QED
    BY <1>4, <2>1
<1> QED
  BY <1>3, <1>6, <1>7 DEF States

LEMMA TypeStep ==
    ASSUME IInv, [Next]_vars
    PROVE  TypeOK'
<1> USE SessionsAssumption DEF SessionsAssumption
<1>0. TypeOK
  BY DEF IInv
<1>1. CASE Accept
  <2>1. Head(backlog) \in Clients /\ Tail(backlog) \in Seq(Clients)
    BY <1>0, <1>1, HeadTailProperties DEF Accept, TypeOK
  <2> QED
    BY <1>0, <1>1, <2>1 DEF Accept, TypeOK, network, threads, Ended
<1>2. CASE ConnectServer
  <2> DEFINE States == {"none", "read", "write", "ended", "panicked"}
  <2>1. cur \in Clients /\ "server" \in Sides /\ "open" \in {"none", "open", "closed", "lost"}
    BY <1>0, <1>2 DEF ConnectServer, TypeOK, Sides
  <2>2. peer' \in [Clients -> [Sides -> {"none", "open", "closed", "lost"}]]
    BY <1>0, <1>2, <2>1 DEF ConnectServer, TypeOK
  <2>3. thread' = [thread EXCEPT ![cur] = [s \in Sides |-> "read"]] /\ UNCHANGED <<hold, done>>
    BY <1>2 DEF ConnectServer
  <2>4. thread \in [Clients -> [Sides -> States]] /\ [s \in Sides |-> "read"] \in [Sides -> States]
    BY <1>0 DEF TypeOK
  <2> HIDE DEF States
  <2>5. thread' \in [Clients -> [Sides -> States]]
    BY <2>1, <2>3, <2>4
  <2>6. \A s \in Sides : thread[cur][s] = "none"
    BY <1>2, <2>1 DEF IInv, BacklogIsNew, ThreadsSpawned, ConnectServer
  <2>7. \A c \in Clients, s \in Sides :
           thread'[c][s] = IF c = cur THEN "read" ELSE thread[c][s]
    BY <2>1, <2>3, <2>4
  <2>8. \A c \in Clients : done'[c] <= Ended(c, "client")' + Ended(c, "server")'
    BY <1>0, <2>1, <2>3, <2>6, <2>7 DEF Ended, TypeOK, Sides
  <2>9. \A c \in Clients, s \in Sides : thread'[c][s] = "write" => hold'[c][s] > 0
    BY <1>0, <2>3, <2>7 DEF TypeOK
  <2> QED
    BY <1>0, <1>2, <2>1, <2>2, <2>5, <2>8, <2>9 DEF ConnectServer, TypeOK, States
<1>3. CASE ConnectFails
  BY <1>0, <1>3 DEF ConnectFails, TypeOK, network, threads, Ended, Sides
<1>4. CASE Recv
  <2>1. cur \in Clients /\ done \in [Clients -> 0..2]
    BY <1>0, <1>4 DEF Recv, TypeOK
  <2>2. done' \in [Clients -> 0..2] /\ \A c \in Clients : done'[c] <= done[c]
    BY <1>4, <2>1 DEF Recv
  <2>3. \A c \in Clients : done'[c] <= Ended(c, "client")' + Ended(c, "server")'
    <3>1. ASSUME NEW c \in Clients, NEW s \in Sides PROVE Ended(c, s)' = Ended(c, s) /\ Ended(c, s) \in {0, 1}
      BY <1>4 DEF Recv, Ended
    <3>2. \A c \in Clients : done[c] <= Ended(c, "client") + Ended(c, "server")
      BY <1>0 DEF TypeOK
    <3> QED
      BY <2>1, <2>2, <3>1, <3>2 DEF Sides
  <2> QED
    BY <1>0, <1>4, <2>1, <2>2, <2>3 DEF Recv, TypeOK, network
<1>5. CASE ShutClient
  BY <1>0, <1>5 DEF ShutClient, TypeOK, network, threads, Ended, Sides
<1>6. CASE ShutServer
  BY <1>0, <1>6 DEF ShutServer, TypeOK, network, threads, Ended, Sides
<1>7. CASE JoinClient
  BY <1>0, <1>7 DEF JoinClient, TypeOK, network, threads, Ended
<1>8. CASE JoinServer
  BY <1>0, <1>8 DEF JoinServer, TypeOK, network, threads, Ended
<1>9. ASSUME NEW c \in Clients, Connects(c) PROVE TypeOK'
  BY <1>0, <1>9, AppendProperties DEF Connects, TypeOK, threads, Ended, Sides
<1>10. ASSUME NEW c \in Clients, NEW s \in Sides, Sends(c, s) PROVE TypeOK'
  BY <1>0, <1>10 DEF Sends, TypeOK, threads, Ended
<1>11. ASSUME NEW c \in Clients, NEW s \in Sides, Takes(c, s) PROVE TypeOK'
  BY <1>0, <1>11 DEF Takes, TypeOK, threads, Ended
<1>12. ASSUME NEW c \in Clients, NEW s \in Sides, Leaves(c, s) PROVE TypeOK'
  BY <1>0, <1>12 DEF Leaves, TypeOK, threads, Ended
<1>13. ASSUME NEW c \in Clients, NEW s \in Sides, ReadSome(c, s) PROVE TypeOK'
  <2>0. unread[c][s] \in 0..Cap
    BY <1>0 DEF TypeOK
  <2>1. PICK n \in 1..unread[c][s], k \in 0..Cap :
          /\ unread' = [unread EXCEPT ![c][s] = @ - n]
          /\ hold' = [hold EXCEPT ![c][s] = k]
          /\ thread' = [thread EXCEPT ![c][s] = IF k = 0 THEN "read" ELSE "write"]
    <3>1. PICK n \in 1..unread[c][s] :
            /\ unread' = [unread EXCEPT ![c][s] = @ - n]
            /\ \E k \in Relayed(s, n) :
                 /\ hold' = [hold EXCEPT ![c][s] = k]
                 /\ thread' = [thread EXCEPT ![c][s] = IF k = 0 THEN "read" ELSE "write"]
      BY <1>13 DEF ReadSome
    <3>2. Relayed(s, n) \subseteq 0..Cap
      BY <2>0, <3>1 DEF Relayed
    <3> QED
      BY <3>1, <3>2
  <2>2. /\ unread \in [Clients -> [Sides -> 0..Cap]] /\ hold \in [Clients -> [Sides -> 0..Cap]]
        /\ unread[c][s] - n \in 0..Cap
    BY <1>0, <2>1 DEF TypeOK
  <2>3. unread' \in [Clients -> [Sides -> 0..Cap]] /\ hold' \in [Clients -> [Sides -> 0..Cap]]
    BY <2>1, <2>2
  <2>4. /\ thread[c][s] = "read"
        /\ UNCHANGED <<backlog, mainpc, cur, peer, shut, unsent, done>>
    BY <1>13 DEF ReadSome
  <2> DEFINE to == IF k = 0 THEN "read" ELSE "write"
  <2>5. to \in {"read", "write", "panicked"} /\ (to = "write" => k > 0)
    BY <2>1
  <2>6. thread' = [thread EXCEPT ![c][s] = to]
    BY <2>1
  <2> HIDE DEF to
  <2>7. /\ thread' \in [Clients -> [Sides -> {"none", "read", "write", "ended", "panicked"}]]
        /\ \A d \in Clients : done'[d] <= Ended(d, "client")' + Ended(d, "server")'
        /\ \A d \in Clients, t \in Sides : thread'[d][t] = "write" => hold'[d][t] > 0
    BY <1>0, <2>1, <2>4, <2>5, <2>6, ThreadMoves
  <2> QED
    BY <1>0, <2>3, <2>4, <2>7 DEF TypeOK
<1>14. ASSUME NEW c \in Clients, NEW s \in Sides, ReadEnds(c, s) PROVE TypeOK'
  BY <1>0, <1>14, ReturnsType DEF ReadEnds, TypeOK, Alive
<1>15. ASSUME NEW c \in Clients, NEW s \in Sides, Writes(c, s) PROVE TypeOK'
  <2>1. /\ thread[c][s] = "write" /\ Other(s) \in Sides
        /\ unsent' = unsent \/ (unsent[c][Other(s)] < Cap
                                  /\ unsent' = [unsent EXCEPT ![c][Other(s)] = @ + 1])
        /\ hold' = [hold EXCEPT ![c][s] = hold[c][s] - 1]
        /\ thread' = [thread EXCEPT ![c][s] = IF hold[c][s] = 1 THEN "read" ELSE "write"]
        /\ UNCHANGED <<backlog, mainpc, cur, peer, shut, unread, done>>
    BY <1>15 DEF Writes, Other, Sides
  <2>2. /\ unsent \in [Clients -> [Sides -> 0..Cap]] /\ hold \in [Clients -> [Sides -> 0..Cap]]
        /\ hold[c][s] > 0
    BY <1>0, <2>1 DEF TypeOK
  <2>3. unsent' \in [Clients -> [Sides -> 0..Cap]]
    <3>1. unsent[c][Other(s)] < Cap => unsent[c][Other(s)] + 1 \in 0..Cap
      BY <2>1, <2>2
    <3> QED
      BY <2>1, <2>2, <3>1
  <2>4. hold[c][s] - 1 \in 0..Cap
    BY <2>2
  <2>5. hold' \in [Clients -> [Sides -> 0..Cap]]
    BY <2>1, <2>2, <2>4
  <2> DEFINE to == IF hold[c][s] = 1 THEN "read" ELSE "write"
             k == hold[c][s] - 1
  <2>6. to \in {"read", "write", "panicked"} /\ (to = "write" => k > 0)
    BY <2>2
  <2>7. thread' = [thread EXCEPT ![c][s] = to] /\ hold' = [hold EXCEPT ![c][s] = k] /\ k \in 0..Cap
    BY <2>1, <2>4
  <2> HIDE DEF to, k
  <2>8. /\ thread' \in [Clients -> [Sides -> {"none", "read", "write", "ended", "panicked"}]]
        /\ \A d \in Clients : done'[d] <= Ended(d, "client")' + Ended(d, "server")'
        /\ \A d \in Clients, t \in Sides : thread'[d][t] = "write" => hold'[d][t] > 0
    <3>1. thread[c][s] # "ended" /\ UNCHANGED done
      BY <2>1
    <3> QED
      BY <1>0, <2>6, <2>7, <3>1, ThreadMoves
  <2> QED
    BY <1>0, <2>1, <2>3, <2>5, <2>8 DEF TypeOK
<1>16. ASSUME NEW c \in Clients, NEW s \in Sides, WriteFails(c, s) PROVE TypeOK'
  BY <1>0, <1>16, ReturnsType DEF WriteFails, TypeOK, Alive
<1>17. ASSUME NEW c \in Clients, NEW s \in Sides, GivesUp(c, s) PROVE TypeOK'
  BY <1>0, <1>17, ReturnsType DEF GivesUp, TypeOK, Alive
<1>18. ASSUME NEW c \in Clients, NEW s \in Sides, Panics(c, s) PROVE TypeOK'
  <2>1. /\ thread' = [thread EXCEPT ![c][s] = "panicked"] /\ thread[c][s] # "ended"
        /\ hold' = [hold EXCEPT ![c][s] = 0]
        /\ UNCHANGED <<backlog, mainpc, cur, peer, unread, unsent, shut, done>>
    BY <1>18 DEF Panics, network, Alive
  <2>2. hold' \in [Clients -> [Sides -> 0..Cap]]
    BY <1>0, <2>1 DEF TypeOK
  <2>3. "panicked" \in {"read", "write", "panicked"} /\ "panicked" # "write" /\ 0 \in 0..Cap
    OBVIOUS
  <2>4. /\ thread' \in [Clients -> [Sides -> {"none", "read", "write", "ended", "panicked"}]]
        /\ \A d \in Clients : done'[d] <= Ended(d, "client")' + Ended(d, "server")'
        /\ \A d \in Clients, t \in Sides : thread'[d][t] = "write" => hold'[d][t] > 0
    BY <1>0, <2>1, <2>3, ThreadMoves
  <2> QED
    BY <1>0, <2>1, <2>2, <2>4 DEF TypeOK
<1>19. CASE UNCHANGED vars
  BY <1>0, <1>19 DEF vars, TypeOK, Ended
<1> QED
  BY <1>1, <1>2, <1>3, <1>4, <1>5, <1>6, <1>7, <1>8, <1>9, <1>10, <1>11, <1>12, <1>13,
     <1>14, <1>15, <1>16, <1>17, <1>18, <1>19 DEF Next, Main, Relay

-----------------------------------------------------------------------------
LEMMA SafetyInit == Init => IInv
<1> SUFFICES ASSUME Init PROVE IInv
  OBVIOUS
<1>1. TypeOK
  BY TypeInit
<1>2. /\ backlog = <<>> /\ mainpc = "accept" /\ shut = [c \in Clients |-> {}]
      /\ \A c \in Clients, s \in Sides : peer[c][s] = "none" /\ thread[c][s] = "none"
  BY DEF Init
<1>3. Len(backlog) = 0
  BY <1>2, EmptySeq
<1> QED
  BY <1>1, <1>2, <1>3
     DEF IInv, AliveIsCurrent, UpstreamIsCurrent, BacklogIsNew, ThreadsSpawned, New, Upstream,
         Alive, PastRecv, Sides

(* A step that leaves the loop, its connections and the threads' being     *)
(* alive as they are.                                                      *)
LEMMA SafetyIdle ==
    ASSUME IInv, TypeOK', UNCHANGED <<backlog, mainpc, cur, shut>>,
           \A c \in Clients, s \in Sides :
             /\ peer'[c][s] = "none" <=> peer[c][s] = "none"
             /\ Alive(c, s)' => Alive(c, s)
             /\ thread'[c][s] = "none" <=> thread[c][s] = "none"
             /\ thread[c][s] \in {"ended", "panicked"} => thread'[c][s] = thread[c][s]
    PROVE  IInv'
<1>1. AliveIsCurrent'
  BY DEF IInv, AliveIsCurrent
<1>2. UpstreamIsCurrent'
  BY DEF IInv, UpstreamIsCurrent, Upstream, Sides
<1>3. BacklogIsNew'
  <2>1. backlog \in Seq(Clients) /\ (mainpc = "connect" => cur \in Clients)
    BY DEF IInv, TypeOK
  <2>2. \A i \in 1..Len(backlog) : backlog[i] \in Clients
    BY <2>1, ElementOfSeq
  <2>3. \A c \in Clients : (New(c)' <=> New(c))
                           /\ (peer'[c]["client"] = "none" <=> peer[c]["client"] = "none")
    BY DEF New, Sides
  <2> QED
    BY <2>1, <2>2, <2>3 DEF IInv, BacklogIsNew
<1>4. ThreadsSpawned'
  BY DEF IInv, ThreadsSpawned, TypeOK, PastRecv, New, Sides
<1> QED
  BY <1>1, <1>2, <1>3, <1>4 DEF IInv

LEMMA SafetyStep ==
    ASSUME IInv, [Next]_vars
    PROVE  IInv'
<1> USE SessionsAssumption DEF SessionsAssumption
<1>0. TypeOK' /\ TypeOK
  BY TypeStep DEF IInv
<1>1. CASE Accept
  <2>1. /\ mainpc = "accept" /\ mainpc' = "connect" /\ backlog # <<>>
        /\ cur' = Head(backlog) /\ backlog' = Tail(backlog)
        /\ UNCHANGED <<peer, shut, thread>>
    BY <1>1 DEF Accept, network, threads
  <2>2. /\ backlog \in Seq(Clients) /\ Len(backlog') = Len(backlog) - 1
        /\ Len(backlog) \in Nat /\ Len(backlog) # 0 /\ cur' = backlog[1]
        /\ \A i \in 1..Len(backlog') : backlog'[i] = backlog[i + 1]
    BY <1>0, <2>1, HeadTailProperties, EmptySeq, LenProperties DEF TypeOK
  <2>3. \A i \in 1..Len(backlog') : i + 1 \in 1..Len(backlog) /\ i + 1 # 1
    BY <2>2
  <2>4. 1 \in 1..Len(backlog)
    BY <2>2
  <2>5. AliveIsCurrent' /\ UpstreamIsCurrent'
    BY <2>1 DEF IInv, AliveIsCurrent, UpstreamIsCurrent, Alive, Upstream
  <2>6. BacklogIsNew'
    <3>1. \A i \in 1..Len(backlog') : New(backlog[i])' /\ peer'[backlog'[i]]["client"] # "none"
      BY <2>1, <2>2, <2>3 DEF IInv, BacklogIsNew, New
    <3>2. \A i, j \in 1..Len(backlog') : backlog'[i] = backlog'[j] => i = j
      <4> SUFFICES ASSUME NEW i \in 1..Len(backlog'), NEW j \in 1..Len(backlog'),
                          backlog'[i] = backlog'[j]
                   PROVE  i = j
        OBVIOUS
      <4>1. backlog[i + 1] = backlog[j + 1] /\ i + 1 \in 1..Len(backlog) /\ j + 1 \in 1..Len(backlog)
        BY <2>2, <2>3
      <4>2. i + 1 = j + 1
        BY <4>1 DEF IInv, BacklogIsNew
      <4> QED
        BY <4>2
    <3>3. New(cur)' /\ peer'[cur']["client"] # "none"
      BY <2>1, <2>2, <2>4 DEF IInv, BacklogIsNew, New
    <3>4. \A i \in 1..Len(backlog') : backlog'[i] # cur'
      BY <2>2, <2>3, <2>4 DEF IInv, BacklogIsNew
    <3>5. \A c \in Clients : peer'[c]["client"] = "none" => New(c)'
      BY <2>1 DEF IInv, BacklogIsNew, New
    <3> QED
      BY <3>1, <3>2, <3>3, <3>4, <3>5 DEF BacklogIsNew, New
  <2>7. ThreadsSpawned'
    BY <2>1 DEF IInv, ThreadsSpawned, New, PastRecv
  <2> QED
    BY <1>0, <2>5, <2>6, <2>7 DEF IInv
<1>2. CASE ConnectServer
  <2>1. /\ mainpc = "connect" /\ mainpc' = "recv" /\ cur \in Clients
        /\ UNCHANGED <<backlog, cur, shut>>
    BY <1>0, <1>2 DEF ConnectServer, TypeOK
  <2>2. \A c \in Clients, s \in Sides :
           /\ peer'[c][s] = IF c = cur /\ s = "server" THEN "open" ELSE peer[c][s]
           /\ thread'[c][s] = IF c = cur THEN "read" ELSE thread[c][s]
    BY <1>0, <1>2, <2>1 DEF ConnectServer, TypeOK
  <2>3. AliveIsCurrent' /\ UpstreamIsCurrent'
    BY <2>1, <2>2 DEF IInv, AliveIsCurrent, UpstreamIsCurrent, Alive, Upstream, Sides
  <2>4. \A c \in Clients : New(c)' <=> New(c) /\ c # cur
    BY <2>2 DEF New, Sides, IInv, BacklogIsNew
  <2>5. \A i \in 1..Len(backlog) : backlog[i] \in Clients
    BY <1>0, ElementOfSeq DEF TypeOK
  <2>6. BacklogIsNew'
    <3>1. \A i \in 1..Len(backlog) :
             /\ backlog[i] # cur /\ New(backlog[i])
             /\ peer'[backlog[i]]["client"] = peer[backlog[i]]["client"]
      BY <2>1, <2>2, <2>5 DEF IInv, BacklogIsNew, Sides
    <3>2. \A c \in Clients : peer'[c]["client"] = "none" => New(c)'
      BY <2>1, <2>2, <2>4 DEF IInv, BacklogIsNew, Sides
    <3>3. \A i \in 1..Len(backlog) :
             peer'[backlog[i]]["server"] = "none" /\ peer'[backlog[i]]["client"] # "none"
      BY <2>4, <2>5, <3>1 DEF IInv, BacklogIsNew, New
    <3> QED
      BY <2>1, <3>2, <3>3 DEF IInv, BacklogIsNew, New
  <2>7. ThreadsSpawned'
    BY <2>1, <2>2, <2>4 DEF IInv, ThreadsSpawned, New, PastRecv
  <2> QED
    BY <1>0, <2>3, <2>6, <2>7 DEF IInv
<1>3. CASE ConnectFails
  <2>1. /\ mainpc = "connect" /\ mainpc' = "accept" /\ cur \in Clients
        /\ UNCHANGED <<backlog, cur, peer, thread>>
        /\ \A c \in Clients : shut'[c] = IF c = cur THEN {"client"} ELSE shut[c]
    BY <1>0, <1>3 DEF ConnectFails, network, threads, TypeOK
  <2>2. AliveIsCurrent' /\ UpstreamIsCurrent'
    BY <2>1 DEF IInv, AliveIsCurrent, UpstreamIsCurrent, Alive, Upstream, BacklogIsNew, New
  <2>3. BacklogIsNew' /\ ThreadsSpawned'
    BY <2>1 DEF IInv, BacklogIsNew, ThreadsSpawned, New, PastRecv
  <2> QED
    BY <1>0, <2>2, <2>3 DEF IInv
<1>4. CASE Recv
  <2>1. /\ mainpc = "recv" /\ mainpc' = "shut_client" /\ cur \in Clients
        /\ UNCHANGED <<backlog, cur, peer, thread, shut>>
    BY <1>0, <1>4 DEF Recv, network, TypeOK
  <2>2. AliveIsCurrent' /\ UpstreamIsCurrent'
    BY <2>1 DEF IInv, AliveIsCurrent, UpstreamIsCurrent, Alive, Upstream
  <2>3. BacklogIsNew'
    BY <2>1 DEF IInv, BacklogIsNew, New
  <2>4. \E s \in Sides : thread[cur][s] \in {"ended", "panicked"}
    <3>1. CASE done[cur] > 0
      <4>1. Ended(cur, "client") + Ended(cur, "server") > 0
        <5>1. done[cur] \in 0..2 /\ done[cur] <= Ended(cur, "client") + Ended(cur, "server")
          BY <1>0, <2>1 DEF TypeOK
        <5> QED
          BY <3>1, <5>1 DEF Ended
      <4> QED
        BY <4>1 DEF Ended, Sides
    <3>2. CASE \A s \in Sides : ~Alive(cur, s)
      BY <1>0, <2>1, <3>2 DEF IInv, ThreadsSpawned, TypeOK, Alive, Sides
    <3> QED
      BY <1>4, <3>1, <3>2 DEF Recv
  <2>5. ThreadsSpawned'
    BY <2>1, <2>4 DEF IInv, ThreadsSpawned, New
  <2> QED
    BY <1>0, <2>2, <2>3, <2>5 DEF IInv
<1>5. CASE ShutClient
  <2>1. /\ mainpc = "shut_client" /\ mainpc' = "shut_server" /\ cur \in Clients
        /\ UNCHANGED <<backlog, cur, peer, thread>>
        /\ \A c \in Clients : "server" \in shut[c] => "server" \in shut'[c]
    BY <1>0, <1>5 DEF ShutClient, network, threads, TypeOK
  <2>2. AliveIsCurrent' /\ UpstreamIsCurrent'
    BY <2>1 DEF IInv, AliveIsCurrent, UpstreamIsCurrent, Alive, Upstream
  <2>3. BacklogIsNew' /\ ThreadsSpawned'
    BY <2>1 DEF IInv, BacklogIsNew, ThreadsSpawned, New, PastRecv
  <2> QED
    BY <1>0, <2>2, <2>3 DEF IInv
<1>6. CASE ShutServer
  <2>1. /\ mainpc = "shut_server" /\ cur \in Clients
        /\ mainpc' = IF Loop = "naa" THEN "join_client" ELSE "accept"
        /\ UNCHANGED <<backlog, cur, peer, thread>>
        /\ "server" \in shut'[cur]
        /\ \A c \in Clients : "server" \in shut[c] => "server" \in shut'[c]
    BY <1>0, <1>6 DEF ShutServer, network, threads, TypeOK
  <2>2. AliveIsCurrent' /\ UpstreamIsCurrent'
    BY <2>1 DEF IInv, AliveIsCurrent, UpstreamIsCurrent, Alive, Upstream
  <2>3. BacklogIsNew' /\ ThreadsSpawned'
    BY <2>1 DEF IInv, BacklogIsNew, ThreadsSpawned, New, PastRecv
  <2> QED
    BY <1>0, <2>2, <2>3 DEF IInv
<1>7. CASE JoinClient
  <2>1. /\ mainpc = "join_client" /\ mainpc' = "join_server" /\ ~Alive(cur, "client")
        /\ UNCHANGED <<backlog, cur, peer, thread, shut>>
    BY <1>7 DEF JoinClient, network, threads
  <2>2. AliveIsCurrent' /\ UpstreamIsCurrent'
    BY <2>1 DEF IInv, AliveIsCurrent, UpstreamIsCurrent, Alive, Upstream, Sides
  <2>3. BacklogIsNew' /\ ThreadsSpawned'
    BY <2>1 DEF IInv, BacklogIsNew, ThreadsSpawned, New, PastRecv
  <2> QED
    BY <1>0, <2>2, <2>3 DEF IInv
<1>8. CASE JoinServer
  <2>1. /\ mainpc = "join_server" /\ mainpc' = "accept" /\ ~Alive(cur, "server")
        /\ UNCHANGED <<backlog, cur, peer, thread, shut>>
    BY <1>8 DEF JoinServer, network, threads
  <2>2. AliveIsCurrent' /\ UpstreamIsCurrent'
    BY <2>1 DEF IInv, AliveIsCurrent, UpstreamIsCurrent, Alive, Upstream, Sides
  <2>3. BacklogIsNew' /\ ThreadsSpawned'
    BY <2>1 DEF IInv, BacklogIsNew, ThreadsSpawned, New, PastRecv
  <2> QED
    BY <1>0, <2>2, <2>3 DEF IInv
<1>9. ASSUME NEW c \in Clients, Connects(c) PROVE IInv'
  <2>1. /\ peer[c]["client"] = "none" /\ UNCHANGED <<mainpc, cur, shut, thread>>
        /\ backlog' = Append(backlog, c)
        /\ \A d \in Clients, s \in Sides :
              peer'[d][s] = IF d = c /\ s = "client" THEN "open" ELSE peer[d][s]
    BY <1>0, <1>9 DEF Connects, threads, TypeOK
  <2>2. /\ backlog \in Seq(Clients) /\ Len(backlog) \in Nat
        /\ Len(backlog') = Len(backlog) + 1 /\ backlog'[Len(backlog) + 1] = c
        /\ \A i \in 1..Len(backlog) : backlog'[i] = backlog[i] /\ backlog[i] \in Clients
    BY <1>0, <2>1, AppendProperties, LenProperties, ElementOfSeq DEF TypeOK
  <2>3. New(c) /\ \A d \in Clients : New(d)' <=> New(d)
    BY <2>1 DEF IInv, BacklogIsNew, New, Sides
  <2>4. AliveIsCurrent' /\ UpstreamIsCurrent'
    BY <2>1 DEF IInv, AliveIsCurrent, UpstreamIsCurrent, Alive, Upstream, Sides
  <2>5. \A i \in 1..Len(backlog) : backlog[i] # c
    BY <2>1 DEF IInv, BacklogIsNew
  <2>6. \A i \in 1..Len(backlog') :
           i \in 1..Len(backlog) \/ (i = Len(backlog) + 1 /\ i \notin 1..Len(backlog))
    BY <2>2
  <2>7. BacklogIsNew'
    <3>1. \A i \in 1..Len(backlog') : New(backlog[i])' /\ peer'[backlog'[i]]["client"] # "none"
      BY <2>1, <2>2, <2>3, <2>6 DEF IInv, BacklogIsNew, Sides
    <3>2. \A i, j \in 1..Len(backlog') : backlog'[i] = backlog'[j] => i = j
      BY <2>2, <2>5, <2>6 DEF IInv, BacklogIsNew
    <3>3. mainpc' = "connect" =>
            /\ New(cur)' /\ peer'[cur']["client"] # "none"
            /\ \A i \in 1..Len(backlog') : backlog'[i] # cur'
      <4>1. mainpc = "connect" => cur \in Clients /\ cur # c
        BY <1>0, <2>1 DEF TypeOK, IInv, BacklogIsNew
      <4> QED
        BY <2>1, <2>2, <2>3, <2>6, <4>1 DEF IInv, BacklogIsNew, Sides
    <3>4. \A d \in Clients : peer'[d]["client"] = "none" => New(d)'
      BY <2>1, <2>3 DEF IInv, BacklogIsNew, Sides
    <3> QED
      BY <3>1, <3>2, <3>3, <3>4 DEF BacklogIsNew, New
  <2>8. ThreadsSpawned'
    BY <2>1, <2>3 DEF IInv, ThreadsSpawned, New, PastRecv
  <2> QED
    BY <1>0, <2>4, <2>7, <2>8 DEF IInv
<1>10. ASSUME NEW c \in Clients, NEW s \in Sides,
              Sends(c, s) \/ Takes(c, s) \/ Leaves(c, s)
       PROVE  IInv'
  <2>1. UNCHANGED <<backlog, mainpc, cur, shut, thread>>
    BY <1>10 DEF Sends, Takes, Leaves, threads
  <2>2. \A d \in Clients, t \in Sides : peer'[d][t] = "none" <=> peer[d][t] = "none"
    <3>1. CASE UNCHANGED peer
      BY <3>1
    <3>2. CASE Leaves(c, s)
      <4>1. PICK how \in {"closed", "lost"} : peer' = [peer EXCEPT ![c][s] = how]
        BY <3>2 DEF Leaves
      <4>2. peer[c][s] = "open"
        BY <3>2 DEF Leaves
      <4>3. peer \in [Clients -> [Sides -> {"none", "open", "closed", "lost"}]]
        BY <1>0 DEF TypeOK
      <4> QED
        BY <4>1, <4>2, <4>3
    <3> QED
      BY <1>10, <3>1, <3>2 DEF Sends, Takes
  <2> QED
    BY <1>0, <2>1, <2>2, SafetyIdle DEF Alive
<1>11. ASSUME NEW c \in Clients, NEW s \in Sides,
              Relay(c, s) \/ GivesUp(c, s) \/ Panics(c, s)
       PROVE  IInv'
  <2>1. UNCHANGED <<backlog, mainpc, cur, peer, shut>> /\ Alive(c, s)
    BY <1>11 DEF Relay, ReadSome, ReadEnds, Writes, WriteFails, GivesUp, Panics, Alive, network
  <2>2. \E to \in {"read", "write", "ended", "panicked"} :
           thread' = [thread EXCEPT ![c][s] = to]
    BY <1>11 DEF Relay, ReadSome, ReadEnds, Writes, WriteFails, GivesUp, Panics, Returns
  <2>3. \A d \in Clients, t \in Sides : d # c \/ t # s => thread'[d][t] = thread[d][t]
    BY <1>0, <2>2 DEF TypeOK
  <2>4. thread[c][s] \in {"read", "write"} /\ thread'[c][s] # "none"
    BY <1>0, <2>1, <2>2 DEF TypeOK, Alive
  <2> QED
    BY <1>0, <2>1, <2>3, <2>4, SafetyIdle DEF Alive
<1>12. CASE UNCHANGED vars
  <2>1. UNCHANGED <<backlog, mainpc, cur, peer, shut, thread>>
    BY <1>12 DEF vars
  <2> QED
    BY <1>0, <2>1, SafetyIdle DEF Alive
<1> QED
  BY <1>1, <1>2, <1>3, <1>4, <1>5, <1>6, <1>7, <1>8, <1>9, <1>10, <1>11, <1>12
     DEF Next, Main

LEMMA Safety == Spec => []IInv
BY SafetyInit, SafetyStep, PTL DEF Spec

-----------------------------------------------------------------------------
(* The types hold; a message in a session's channel was sent by one of its *)
(* own threads, which is what lets recv's return mean that one is over.    *)
THEOREM SessionsTypeCorrect == Spec => []TypeOK
BY Safety, PTL DEF IInv

(* However often HQPlayer (the NAA) reconnects and whoever closes first,   *)
(* the proxy never holds two connections to the NAA (to HQPlayer).         *)
THEOREM SingleUpstream == Spec => []OneUpstream
<1>1. IInv => OneUpstream
  BY DEF IInv, UpstreamIsCurrent, OneUpstream
<1> QED
  BY <1>1, Safety, PTL

(* The NAA loop takes the next connection only when both threads of the    *)
(* last session are over: nothing of it can get into the next one.         *)
THEOREM NothingLeftBehind == ASSUME Loop = "naa" PROVE Spec => []NoStrays
<1>1. IInv => NoStrays
  BY DEF IInv, AliveIsCurrent, NoStrays
<1> QED
  BY <1>1, Safety, PTL

(* No session is torn down while both its threads are still relaying, not  *)
(* even by what the threads of an earlier one left in their channel.       *)
THEOREM TornDownWhenOver == Spec => NotCutShort
<1> DEFINE A == \A c \in Clients : shut'[c] # shut[c] /\ peer[c]["server"] # "none" =>
                  \E s \in Sides : thread[c][s] \in {"ended", "panicked"}
<1> HIDE DEF A
<1>1. ASSUME IInv, [Next]_vars PROVE [A]_vars
  <2> USE DEF A
  <2>1. CASE UNCHANGED shut
    BY <2>1
  <2>2. CASE ConnectFails
    <3>1. cur \in Clients /\ shut \in [Clients -> SUBSET Sides] /\ peer[cur]["server"] = "none"
      BY <1>1, <2>2 DEF ConnectFails, IInv, BacklogIsNew, New, TypeOK
    <3>2. \A c \in Clients : shut'[c] # shut[c] => c = cur
      BY <2>2, <3>1 DEF ConnectFails
    <3> QED
      BY <3>1, <3>2
  <2>3. CASE ShutClient \/ ShutServer
    <3>1. cur \in Clients /\ shut \in [Clients -> SUBSET Sides]
      BY <1>1, <2>3 DEF ShutClient, ShutServer, IInv, TypeOK
    <3>2. \E s \in Sides : thread[cur][s] \in {"ended", "panicked"}
      BY <1>1, <2>3 DEF ShutClient, ShutServer, IInv, ThreadsSpawned, PastRecv
    <3>3. \A c \in Clients : shut'[c] # shut[c] => c = cur
      BY <2>3, <3>1 DEF ShutClient, ShutServer
    <3> QED
      BY <3>2, <3>3
  <2>4. UNCHANGED shut \/ ConnectFails \/ ShutClient \/ ShutServer
    BY <1>1 DEF Next, Main, Accept, ConnectServer, Recv, JoinClient, JoinServer, Connects, Sends,
           Takes, Leaves, Relay, ReadSome, ReadEnds, Writes, WriteFails, GivesUp, Panics, vars
  <2> QED
    BY <2>1, <2>2, <2>3, <2>4
<1> QED
  BY <1>1, Safety, PTL DEF Spec, NotCutShort, A
=============================================================================
