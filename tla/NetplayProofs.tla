---------------------------- MODULE NetplayProofs ----------------------------
(***************************************************************************)
(* Two peers of a netplay session play the same, and neither runs away     *)
(* from the other, for every set of events, every delay of two frames or   *)
(* more, every failure and every interleaving.                             *)
(*                                                                         *)
(* The argument: frame k of a session is recorded in list Slot(k) of the   *)
(* ring and played Delta - 1 frames later.  A peer that is still connected *)
(* has kept the lists it has sent and not played (OwnLists), and has yet   *)
(* to read those the other one has sent that it has not played, in order   *)
(* (Channel); so the lists it plays are the pair of one frame (Same).      *)
(*                                                                         *)
(* That the peers are in the same session is what the first three parts    *)
(* are for: who holds which end of the connection (LinkInv), what is under *)
(* way when a client joins (OpeningInv), where each VICE thread is         *)
(* (ControlInv).                                                           *)
(***************************************************************************)
EXTENDS Netplay, SequenceTheorems, TLAPS

\* The place in the ring of frame k, and of frame k + Delta.
Slot(k) == k % Delta

\* The client waits for the snapshot or for the settings ...
InOpening == pc["client"] \in {"connecting", "trap"}

\* ... and the settings are on their way.
Offered == InOpening /\ \E i \in DOMAIN chan["client"] : chan["client"][i].type = "settings"

\* The machine is in the session of the other one, or will be when the client reads
\* the settings.
InSession(p) == SameSession \/ (p = "server" /\ Offered)

\* The peer can still send its frames in the session.
Live(p) == SameSession /\ Connected(p) /\ CanSend(p)

-----------------------------------------------------------------------------
(* The inductive invariant.                                                *)

\* Where the VICE threads are, with which mode, list and history.
ControlInv ==
  /\ mode["server"] # "client"
  /\ mode["client"] \in {"idle", "client"}
  /\ session["client"] <= session["server"]
  /\ pc["server"] = "trap" => ~ Connected("server")
  /\ pc["server"] = "offer" => session["client"] < session["server"]
  /\ \A p \in Peer :
       /\ syncTrap[p] \/ pc[p] = "receive" => list[p] # NoList
       /\ pc[p] = "receive" /\ ~ Connected(p) => ~ CanSend(p)
       /\ pc[p] \in {"offer", "ping", "test"} => machine[p] = <<>> /\ sent[p] = <<>>

\* Both ends of the connection: an end that is up has another end that is up, or
\* one that waits to be accepted.
LinkInv ==
  /\ backlog => chan["client"] = <<>> /\ link["server"] # "up" /\ link["client"] # "eof"
  /\ backlog /\ link["client"] = "up" => pc["client"] = "connecting"
  /\ link["server"] = "up" => link["client"] = "up"
  /\ link["client"] = "up" => backlog \/ link["server"] = "up"
  /\ link["server"] = "eof" => link["client"] # "eof"

\* While the client joins, no frame is on its way in either direction, and the
\* server sends none before the settings are read.
OpeningInv ==
  InOpening =>
    /\ mode["client"] = "idle"
    /\ \A i \in DOMAIN chan["client"] : chan["client"][i].type # "frame"
    /\ link["server"] = "up" =>
         /\ chan["server"] = <<>>
         /\ pc["server"] \in {"trap", "offer", "ping", "test"} \/ ~ Connected("server")
    /\ Offered => /\ sent["server"] = <<>> /\ link["server"] # "eof"
                  /\ pc["server"] \notin {"trap", "offer"}

\* The frames sent and the frames played.
Counts(p) ==
  InSession(p) =>
    /\ Len(sent[p]) <= Len(machine[p]) + 1
    /\ Len(machine[p]) <= Len(sent[p]) + 1

\* The indexes of the ring and frame_buffer_full count the frames played.
Ring(p) ==
  InSession(p) /\ (pc[p] = "receive" \/ (pc[p] = "run" /\ Connected(p))) =>
    /\ Len(sent[p]) >= Len(machine[p])
    /\ pc[p] = "receive" /\ Connected(p) => Len(sent[p]) = Len(machine[p]) + 1
    /\ current[p] = Slot(Len(machine[p]))
    /\ Len(machine[p]) >= 1 => toPlay[p] = Slot(Len(machine[p]) + 1)
    /\ full[p] => Len(machine[p]) >= Delta - 1
    /\ Len(machine[p]) >= Delta \/ (pc[p] = "receive" /\ Len(machine[p]) = Delta - 1)
         => full[p]

\* The lists sent and not played are in the ring.
OwnLists(p) ==
  Live(p) /\ pc[p] \in {"run", "receive"} =>
    /\ Len(sent[p]) = IF pc[p] = "run" THEN Len(machine[p]) ELSE Len(machine[p]) + 1
    /\ \A k \in DOMAIN sent[p] :
         k + Delta >= Len(machine[p]) + 2 => list[p][Slot(k - 1)] = sent[p][k]

\* The frames of ch are the lists after the first r, in order, each in one message:
\* list k in message pos[k].
Carries(ch, lists, r) ==
  \E pos \in [r + 1 .. Len(lists) -> DOMAIN ch] :
    /\ \A j, k \in r + 1 .. Len(lists) : j < k => pos[j] < pos[k]
    /\ \A k \in r + 1 .. Len(lists) : ch[pos[k]] = [type |-> "frame", list |-> lists[k]]
    /\ \A i \in DOMAIN ch :
         ch[i].type = "frame" => \E k \in r + 1 .. Len(lists) : pos[k] = i

\* How many of the other peer's lists the machine has played.
Taken(p) == IF Len(machine[p]) < Delta THEN 0 ELSE Len(machine[p]) - Delta + 1

\* What is still to be read are the other peer's lists that are not played.
Channel(p) == Live(p) => Carries(chan[p], sent[Other(p)], Taken(p))

\* What the machine has played: Lockstep, for one peer and from the offer on.
Same(p) ==
  InSession(p) =>
    \A k \in DOMAIN machine[p] :
      IF k < Delta THEN machine[p][k] = <<>>
      ELSE /\ \A q \in Peer : k - Delta + 1 \in DOMAIN sent[q]
           /\ machine[p][k] = <<sent["server"][k - Delta + 1].events,
                                sent["client"][k - Delta + 1].events>>

DataInv == \A p \in Peer : Counts(p) /\ Ring(p) /\ OwnLists(p) /\ Channel(p) /\ Same(p)

Inv == TypeOK /\ ControlInv /\ LinkInv /\ OpeningInv /\ DataInv

-----------------------------------------------------------------------------
(* Types.                                                                  *)

\* A frame list that is allocated has Delta lists.
LEMMA AllocType ==
  ASSUME TypeOK, NEW p \in Peer, list[p] # NoList
  PROVE list[p] \in [0 .. Delta - 1 -> EventList]
BY DEF TypeOK

\* Each kind of message is a message.
LEMMA MessageType ==
  /\ \A t \in {"snapshot", "settings", "test", "delta", "suspended"} : [type |-> t] \in Message
  /\ \A l \in EventList : [type |-> "frame", list |-> l] \in Message
  /\ \A m \in Message : m.type = "frame" => m.list \in EventList
BY SMT DEF Message

\* Sending keeps the type of the channels ...
LEMMA ChanAppend ==
  ASSUME TypeOK, NEW p \in Peer, NEW m \in Message
  PROVE [chan EXCEPT ![p] = Append(@, m)] \in [Peer -> Seq(Message)]
BY SMT DEF TypeOK

\* ... reading does ...
LEMMA ChanTail ==
  ASSUME TypeOK, NEW p \in Peer, chan[p] # <<>>
  PROVE [chan EXCEPT ![p] = Tail(@)] \in [Peer -> Seq(Message)]
<1>1. chan[p] \in Seq(Message)
  BY DEF TypeOK
<1>2. Tail(chan[p]) \in Seq(Message)
  BY <1>1, HeadTailProperties
<1> QED BY <1>2 DEF TypeOK

\* ... and what is read is a message.
LEMMA HeadType ==
  ASSUME TypeOK, NEW p \in Peer, chan[p] # <<>>
  PROVE Head(chan[p]) \in Message
<1>1. chan[p] \in Seq(Message)
  BY DEF TypeOK
<1> QED BY <1>1, HeadTailProperties

\* The empty sequence has every type of sequence.
LEMMA NoneType == <<>> \in Seq(Message) /\ <<>> \in Machine /\ <<>> \in Seq(EventList)
BY DEF Machine

\* What a frame plays: the events of both peers.
LEMMA PairType ==
  ASSUME NEW a \in Seq(Event), NEW b \in Seq(Event)
  PROVE <<a, b>> \in Seq(Seq(Event))
OBVIOUS

\* Reading and answering keep the type of the channels.
LEMMA AnswerType ==
  ASSUME TypeOK, NEW p \in Peer, NEW m \in Message, chan[p] # <<>>, Answer(p, m)
  PROVE chan' \in [Peer -> Seq(Message)]
<1>1. chan[p] \in Seq(Message) /\ chan[Other(p)] \in Seq(Message) /\ p # Other(p)
  BY DEF TypeOK, Other, Peer
<1>2. Tail(chan[p]) \in Seq(Message)
  BY <1>1, HeadTailProperties
<1>3. Append(chan[Other(p)], m) \in Seq(Message)
  BY <1>1, AppendProperties
<1> QED BY <1>1, <1>2, <1>3 DEF TypeOK, Answer

\* Sending changes the channels only.
LEMMA SendType ==
  ASSUME TypeOK, NEW p \in Peer, NEW m \in Message, Send(p, m)
  PROVE chan' \in [Peer -> Seq(Message)] /\ link' = link /\ backlog' = backlog
<1>1. Other(p) \in Peer
  BY DEF Other, Peer
<1> QED BY <1>1, ChanAppend DEF Send, TypeOK

\* Closing an end keeps the types of the connection ...
LEMMA CloseType ==
  ASSUME TypeOK, NEW p \in Peer, NEW ports \in BOOLEAN, CloseLink(p, ports)
  PROVE /\ chan' \in [Peer -> Seq(Message)]
        /\ link' \in [Peer -> {"none", "up", "eof", "reset"}]
        /\ backlog' \in BOOLEAN
<1>1. Other(p) \in Peer
  BY DEF Other, Peer
<1>2. <<>> \in Seq(Message)
  OBVIOUS
<1>3. chan' \in [Peer -> Seq(Message)]
  BY <1>2 DEF TypeOK, CloseLink
<1>4. link' \in [Peer -> {"none", "up", "eof", "reset"}]
  BY <1>1 DEF TypeOK, CloseLink
<1>5. backlog' \in BOOLEAN
  BY DEF TypeOK, CloseLink
<1> QED BY <1>3, <1>4, <1>5

\* ... and so does network_disconnect().
LEMMA DisconnectType ==
  ASSUME TypeOK, NEW p \in Peer, NEW next \in {"run", "trap", "receive"}, Disconnect(p, next)
  PROVE /\ chan' \in [Peer -> Seq(Message)]
        /\ link' \in [Peer -> {"none", "up", "eof", "reset"}]
        /\ backlog' \in BOOLEAN
        /\ mode' \in [Peer -> {"idle", "server", "serverConnected", "client"}]
        /\ socket' \in [Peer -> {"none", "open", "closed"}]
        /\ listen' \in {"none", "open", "closed"}
        /\ pc' \in [Peer -> {"run", "connecting", "trap", "offer", "ping", "test",
                      "receive", "spin", "abort", "crash"}]
<1>1. /\ chan' \in [Peer -> Seq(Message)]
        /\ link' \in [Peer -> {"none", "up", "eof", "reset"}]
        /\ backlog' \in BOOLEAN
  BY CloseType DEF Disconnect
<1>2. CASE socket[p] = "closed"
  BY <1>1, <1>2 DEF Disconnect, TypeOK, control
<1>3. CASE socket[p] # "closed"
  <2>1. mode' \in [Peer -> {"idle", "server", "serverConnected", "client"}]
    <3>1. \E m \in {"idle", "server"} : mode' = [mode EXCEPT ![p] = m]
      BY <1>3 DEF Disconnect
    <3> QED BY <3>1 DEF TypeOK
  <2>2. listen' \in {"none", "open", "closed"}
    BY <1>3 DEF Disconnect, TypeOK
  <2>3. socket' \in [Peer -> {"none", "open", "closed"}]
    BY <1>3 DEF Disconnect, TypeOK
  <2>4. pc' \in [Peer -> {"run", "connecting", "trap", "offer", "ping", "test",
                      "receive", "spin", "abort", "crash"}]
    BY <1>3 DEF Disconnect, TypeOK
  <2> QED BY <1>1, <2>1, <2>2, <2>3, <2>4
<1> QED BY <1>2, <1>3

\* A remainder is below the divisor.
LEMMA ModType ==
  ASSUME NEW a \in Int, NEW b \in Nat \ {0}
  PROVE  a % b \in 0 .. b - 1
OBVIOUS

\* The empty list is a list.
LEMMA EmptyType == Empty \in EventList
<1>1. <<>> \in Seq(Machine) /\ <<>> \in Seq(Event)
  OBVIOUS
<1> QED BY <1>1 DEF Empty, EventList

\* network_init_frame_event_list() and network_prepare_next_frame() keep the types
\* of the ring.
LEMMA InitListTypes ==
  ASSUME TypeOK, NEW p \in Peer, InitFrameEventList(p)
  PROVE /\ list' \in [Peer -> {NoList} \cup [0 .. Delta - 1 -> EventList]]
        /\ current' \in [Peer -> 0 .. Delta - 1]
        /\ toPlay' \in [Peer -> 0 .. Delta - 1]
        /\ full' \in [Peer -> BOOLEAN]
        /\ syncTrap' \in [Peer -> BOOLEAN]
<1>1. [i \in 0 .. Delta - 1 |-> Empty] \in [0 .. Delta - 1 -> EventList]
  BY EmptyType
<1>2. 0 \in 0 .. Delta - 1
  BY NetplayAssumption
<1> QED BY <1>1, <1>2 DEF TypeOK, InitFrameEventList

\* The same, for the second.
LEMMA NextFrameTypes ==
  ASSUME TypeOK, NEW p \in Peer, list[p] # NoList, PrepareNextFrame(p)
  PROVE /\ list' \in [Peer -> {NoList} \cup [0 .. Delta - 1 -> EventList]]
        /\ current' \in [Peer -> 0 .. Delta - 1]
        /\ toPlay' \in [Peer -> 0 .. Delta - 1]
        /\ syncTrap' \in [Peer -> BOOLEAN]
<1>1. list[p] \in [0 .. Delta - 1 -> EventList]
  BY AllocType
<1>2. current' \in [Peer -> 0 .. Delta - 1]
  <2>1. current[p] + 1 \in Int
    BY DEF TypeOK
  <2>2. (current[p] + 1) % Delta \in 0 .. Delta - 1
    BY <2>1, ModType, NetplayAssumption
  <2> QED BY <2>2 DEF TypeOK, PrepareNextFrame
<1>3. toPlay' \in [Peer -> 0 .. Delta - 1]
  <2>1. current'[p] + 1 \in Int
    BY <1>2
  <2>2. (current'[p] + 1) % Delta \in 0 .. Delta - 1
    BY <2>1, ModType, NetplayAssumption
  <2> QED BY <2>2 DEF TypeOK, PrepareNextFrame
<1>4. [list[p] EXCEPT ![current'[p]] = Empty] \in [0 .. Delta - 1 -> EventList]
  BY <1>1, <1>2, EmptyType
<1>5. list' = [list EXCEPT ![p] = [list[p] EXCEPT ![current'[p]] = Empty]]
  BY DEF PrepareNextFrame
<1>6. list' \in [Peer -> {NoList} \cup [0 .. Delta - 1 -> EventList]]
  BY <1>4, <1>5 DEF TypeOK
<1> QED BY <1>2, <1>3, <1>6 DEF TypeOK, PrepareNextFrame

\* Every step keeps the types.
LEMMA Types ==
  ASSUME TypeOK, ControlInv, [Next]_vars PROVE TypeOK'
<1> USE DEF control, frames, wire, history, vars
<1>1. CASE UNCHANGED vars
  BY <1>1 DEF TypeOK
<1>2. CASE Accept
  <2>1. chan' \in [Peer -> Seq(Message)]
    BY <1>2, NoneType DEF TypeOK, Accept
  <2>2. link' \in [Peer -> {"none", "up", "eof", "reset"}]
    BY <1>2 DEF TypeOK, Accept, Peer
  <2> QED BY <1>2, <2>1, <2>2 DEF TypeOK, Accept, Goto
<1>3. CASE SendSnapshot
  <2>1. chan' \in [Peer -> Seq(Message)] /\ link' = link /\ backlog' = backlog
    BY <1>3, SendType, MessageType DEF TypeOK, SendSnapshot, Peer
  <2>2. machine' \in [Peer -> Machine]
    <3>1. machine' = [machine EXCEPT !["server"] = <<>>] \/ machine' = machine
      BY <1>3 DEF SendSnapshot
    <3> QED BY <3>1, NoneType DEF TypeOK
  <2>3. sent' \in [Peer -> Seq(EventList)]
    BY <1>3, NoneType DEF TypeOK, SendSnapshot
  <2>4. session' \in [Peer -> Nat]
    BY <1>3 DEF TypeOK, SendSnapshot, Peer
  <2>5. mode' \in [Peer -> {"idle", "server", "serverConnected", "client"}]
    BY <1>3 DEF TypeOK, SendSnapshot
  <2>6. pc' \in [Peer -> {"run", "connecting", "trap", "offer", "ping", "test",
                         "receive", "spin", "abort", "crash"}]
    <3>1. Goto("server", "offer") \/ Goto("server", "run")
      BY <1>3 DEF SendSnapshot
    <3> QED BY <3>1 DEF TypeOK, Goto
  <2>7. failed' \in BOOLEAN
    BY <1>3 DEF TypeOK, SendSnapshot, CanSend
  <2> QED BY <1>3, <2>1, <2>2, <2>3, <2>4, <2>5, <2>6, <2>7 DEF TypeOK, SendSnapshot
<1>4. CASE SendSettings
  BY <1>4, SendType, MessageType DEF TypeOK, SendSettings, Goto, Peer
<1>5. CASE SendTest
  <2>1. chan' \in [Peer -> Seq(Message)] /\ link' = link /\ backlog' = backlog
    BY <1>5, SendType, MessageType DEF TypeOK, SendTest, Peer
  <2>2. CASE UNCHANGED frames
    BY <1>5, <2>1, <2>2 DEF TypeOK, SendTest, Goto
  <2>3. CASE InitFrameEventList("server")
    <3>1. /\ list' \in [Peer -> {NoList} \cup [0 .. Delta - 1 -> EventList]]
          /\ current' \in [Peer -> 0 .. Delta - 1]
          /\ toPlay' \in [Peer -> 0 .. Delta - 1]
          /\ full' \in [Peer -> BOOLEAN]
          /\ syncTrap' \in [Peer -> BOOLEAN]
      BY <2>3, InitListTypes DEF Peer
    <3>2. pc' \in [Peer -> {"run", "connecting", "trap", "offer", "ping", "test",
                            "receive", "spin", "abort", "crash"}]
      <4>1. Goto("server", "test") \/ Goto("server", "run")
        BY <1>5 DEF SendTest
      <4> QED BY <4>1 DEF TypeOK, Goto
    <3>3. UNCHANGED <<mode, socket, listen, suspended, machine, session, sent, connects, failed>>
      BY <1>5 DEF SendTest, control, history
    <3> HIDE <1>5
    <3> QED BY <2>1, <3>1, <3>2, <3>3 DEF TypeOK
  <2> QED BY <1>5, <2>2, <2>3 DEF SendTest
<1>6. CASE SendDelta
  <2>1. chan' \in [Peer -> Seq(Message)]
    BY <1>6, AnswerType, MessageType DEF SendDelta, Receives, Peer
  <2> QED BY <1>6, <2>1, InitListTypes DEF TypeOK, SendDelta, Goto, Peer
<1>7. CASE ReceiveSnapshot
  BY <1>7, ChanTail, MessageType DEF TypeOK, ReceiveSnapshot, Receives, Read, Goto, Peer
<1>8. CASE ConnectFails
  BY <1>8, CloseType DEF TypeOK, ConnectFails, Goto, Peer
<1>9. CASE ReceiveSettings
  <2>1. chan' \in [Peer -> Seq(Message)]
    BY <1>9, ChanTail DEF TypeOK, ReceiveSettings, Receives, Read, Peer
  <2>2. machine' \in [Peer -> Machine]
    <3>1. machine' = [machine EXCEPT !["client"] = <<>>] \/ machine' = machine
      BY <1>9 DEF ReceiveSettings
    <3> QED BY <3>1, NoneType DEF TypeOK
  <2>3. sent' \in [Peer -> Seq(EventList)]
    BY <1>9, NoneType DEF TypeOK, ReceiveSettings
  <2>4. session' \in [Peer -> Nat]
    BY <1>9 DEF TypeOK, ReceiveSettings, Peer
  <2> QED BY <1>9, <2>1, <2>2, <2>3, <2>4 DEF TypeOK, ReceiveSettings, Goto
<1>10. CASE Echo
  <2>1. chan' \in [Peer -> Seq(Message)]
    BY <1>10, AnswerType, MessageType DEF Echo, Receives, Peer
  <2> QED BY <1>10, <2>1 DEF TypeOK, Echo
<1>11. CASE ReceiveDelta
  <2>1. chan' \in [Peer -> Seq(Message)]
    BY <1>11, ChanTail DEF TypeOK, ReceiveDelta, Receives, Read, Peer
  <2> QED BY <1>11, <2>1, InitListTypes DEF TypeOK, ReceiveDelta, Goto, Peer
<1>12. CASE StartServer
  BY <1>12 DEF TypeOK, StartServer, Goto, Peer
<1>13. CASE Connect
  BY <1>13 DEF TypeOK, Connect, Goto, Peer
<1>14. CASE Break
  BY <1>14 DEF TypeOK, Break, Goto, Peer
<1>15. ASSUME NEW p \in Peer, UserDisconnect(p) PROVE TypeOK'
  BY <1>15, DisconnectType DEF TypeOK, UserDisconnect
<1>16. ASSUME NEW p \in Peer, Suspend(p) PROVE TypeOK'
  BY <1>16, SendType, MessageType DEF TypeOK, Suspend
<1>17. ASSUME NEW p \in Peer, Reset(p) PROVE TypeOK'
  BY <1>17 DEF TypeOK, Reset
<1>18. ASSUME NEW p \in Peer, NEW e \in Event, Record(p, e) PROVE TypeOK'
  <2>1. CASE list[p] = NoList
    BY <1>18, <2>1, CloseType DEF TypeOK, Record, Crash, Goto
  <2>2. CASE list[p] # NoList
    <3>1. list[p] \in [0 .. Delta - 1 -> EventList] /\ current[p] \in 0 .. Delta - 1
      BY <2>2, AllocType DEF TypeOK
    <3> DEFINE old == list[p][current[p]]
               new == [old EXCEPT !.events = Append(@, e)]
    <3>2. old \in EventList
      BY <3>1
    <3> HIDE DEF old
    <3>3. new \in EventList
      <4>1. Append(old.events, e) \in Seq(Event)
        BY <3>2 DEF EventList
      <4> QED BY <3>2, <4>1 DEF EventList
    <3>4. list' = [list EXCEPT ![p] = [list[p] EXCEPT ![current[p]] = new]]
      BY <1>18, <2>2 DEF Record, old
    <3> HIDE DEF new
    <3>5. list' \in [Peer -> {NoList} \cup [0 .. Delta - 1 -> EventList]]
      BY <3>1, <3>3, <3>4 DEF TypeOK
    <3> QED BY <1>18, <2>2, <3>5 DEF TypeOK, Record
  <2> QED BY <2>1, <2>2
<1>19. ASSUME NEW p \in Peer, TestFails(p) PROVE TypeOK'
  BY <1>19, InitListTypes DEF TypeOK, TestFails, Goto
<1>20. ASSUME NEW p \in Peer, SyncTest(p) PROVE TypeOK'
  <2>1. list[p] \in [0 .. Delta - 1 -> EventList] /\ current[p] \in 0 .. Delta - 1
    BY <1>20, AllocType DEF TypeOK, ControlInv, SyncTest
  <2> DEFINE synced == IF list[p][current[p]] = Empty
                         THEN [list[p][current[p]] EXCEPT !.sync = <<machine[p]>>]
                         ELSE list[p][current[p]]
  <2>2. synced \in EventList
    <3>1. machine[p] \in Machine
      BY DEF TypeOK
    <3>2. <<machine[p]>> \in Seq(Machine)
      BY <3>1
    <3> QED BY <2>1, <3>2 DEF EventList
  <2>3. list' = [list EXCEPT ![p] = [list[p] EXCEPT ![current[p]] = synced]]
    BY <1>20 DEF SyncTest
  <2> HIDE DEF synced
  <2>4. list' \in [Peer -> {NoList} \cup [0 .. Delta - 1 -> EventList]]
    BY <2>1, <2>2, <2>3 DEF TypeOK
  <2> QED BY <1>20, <2>4 DEF TypeOK, SyncTest
<1>21. ASSUME NEW p \in Peer, HookSend(p) PROVE TypeOK'
  <2>1. CASE list[p] = NoList
    BY <1>21, <2>1, CloseType DEF TypeOK, HookSend, Crash, Goto
  <2>2. CASE list[p] # NoList
    <3>1. list[p][current[p]] \in EventList
      BY <2>2, AllocType DEF TypeOK
    <3>2. /\ chan' \in [Peer -> Seq(Message)]
          /\ link' \in [Peer -> {"none", "up", "eof", "reset"}]
          /\ backlog' \in BOOLEAN
      <4>1. CASE CanSend(p)
        BY <1>21, <2>2, <3>1, <4>1, SendType, MessageType DEF TypeOK, HookSend
      <4>2. CASE ~ CanSend(p)
        BY <1>21, <2>2, <4>2, DisconnectType DEF HookSend
      <4> QED BY <4>1, <4>2
    <3>3. /\ mode' \in [Peer -> {"idle", "server", "serverConnected", "client"}]
          /\ socket' \in [Peer -> {"none", "open", "closed"}]
          /\ listen' \in {"none", "open", "closed"}
          /\ pc' \in [Peer -> {"run", "connecting", "trap", "offer", "ping", "test",
                               "receive", "spin", "abort", "crash"}]
      BY <1>21, <2>2, DisconnectType DEF TypeOK, HookSend, Goto
    <3>4. sent' \in [Peer -> Seq(EventList)]
      <4>1. CASE UNCHANGED sent
        BY <4>1 DEF TypeOK
      <4>2. CASE sent' = [sent EXCEPT ![p] = Append(@, list[p][current[p]])]
        BY <3>1, <4>2 DEF TypeOK
      <4> QED BY <1>21, <2>2, <4>1, <4>2 DEF HookSend
    <3>5. full' \in [Peer -> BOOLEAN] /\ suspended' \in [Peer -> BOOLEAN]
      BY <1>21, <2>2 DEF TypeOK, HookSend
    <3> QED BY <1>21, <2>2, <3>2, <3>3, <3>4, <3>5 DEF TypeOK, HookSend
  <2> QED BY <2>1, <2>2
<1>22. ASSUME NEW p \in Peer, SkipReceive(p) PROVE TypeOK'
  <2>1. list[p] # NoList
    BY <1>22 DEF ControlInv, SkipReceive
  <2>2. machine' \in [Peer -> Machine]
    <3>1. machine[p] \in Machine /\ <<>> \in Seq(Seq(Event))
      BY DEF TypeOK
    <3>2. Append(machine[p], <<>>) \in Machine
      BY <3>1 DEF Machine
    <3> QED BY <1>22, <3>2 DEF TypeOK, SkipReceive
  <2> QED BY <1>22, <2>1, <2>2, NextFrameTypes DEF TypeOK, SkipReceive, Goto
<1>23. ASSUME NEW p \in Peer, ReceiveSuspended(p) PROVE TypeOK'
  BY <1>23, ChanTail DEF TypeOK, ReceiveSuspended, Receives, Read
<1>24. ASSUME NEW p \in Peer, ReceiveFrame(p) PROVE TypeOK'
  <2>1. list[p] # NoList /\ chan[p] # <<>>
    BY <1>24 DEF ControlInv, ReceiveFrame, Receives
  <2> DEFINE own == list[p][toPlay[p]]
             remote == Head(chan[p]).list
             turn == IF mode[p] = "serverConnected" THEN <<own.events, remote.events>>
                                                    ELSE <<remote.events, own.events>>
  <2>2. own \in EventList
    BY <2>1, AllocType DEF TypeOK
  <2>3. remote \in EventList
    BY <1>24, <2>1, HeadType, MessageType DEF ReceiveFrame, Receives
  <2>4. machine' = [machine EXCEPT ![p] = Append(@, turn)]
    BY <1>24 DEF ReceiveFrame
  <2>5. (Goto(p, "run") /\ Read(p) /\ UNCHANGED <<control, link, backlog>>) \/ Disconnect(p, "run")
    BY <1>24 DEF ReceiveFrame
  <2>6. turn \in Seq(Seq(Event))
    BY <2>2, <2>3, PairType DEF EventList
  <2> HIDE DEF own, remote, turn
  <2>7. machine' \in [Peer -> Machine]
    <3>1. machine[p] \in Machine
      BY DEF TypeOK
    <3>2. Append(machine[p], turn) \in Machine
      BY <3>1, <2>6 DEF Machine
    <3> QED BY <2>4, <3>2 DEF TypeOK
  <2>8. /\ list' \in [Peer -> {NoList} \cup [0 .. Delta - 1 -> EventList]]
        /\ current' \in [Peer -> 0 .. Delta - 1]
        /\ toPlay' \in [Peer -> 0 .. Delta - 1]
        /\ syncTrap' \in [Peer -> BOOLEAN]
    BY <1>24, <2>1, NextFrameTypes DEF ReceiveFrame
  <2>9. CASE Goto(p, "run") /\ Read(p) /\ UNCHANGED <<control, link, backlog>>
    <3>1. chan' \in [Peer -> Seq(Message)]
      BY <2>1, <2>9, ChanTail DEF Read
    <3> QED BY <1>24, <2>7, <2>8, <2>9, <3>1 DEF TypeOK, ReceiveFrame, Goto
  <2>10. CASE Disconnect(p, "run")
    BY <1>24, <2>7, <2>8, <2>10, DisconnectType DEF TypeOK, ReceiveFrame
  <2> QED BY <2>5, <2>9, <2>10
<1>25. ASSUME NEW p \in Peer, ReceiveFails(p) PROVE TypeOK'
  BY <1>25, DisconnectType DEF TypeOK, ReceiveFails, Goto
<1>26. ASSUME NEW p \in Peer, Spin(p) PROVE TypeOK'
  BY <1>26 DEF TypeOK, Spin, Goto
<1> QED
  BY <1>1, <1>2, <1>3, <1>4, <1>5, <1>6, <1>7, <1>8, <1>9, <1>10, <1>11, <1>12, <1>13,
     <1>14, <1>15, <1>16, <1>17, <1>18, <1>19, <1>20, <1>21, <1>22, <1>23, <1>24,
     <1>25, <1>26
  DEF Next, Server, Client, Frame

-----------------------------------------------------------------------------
(* The connection and the opening of a session.                            *)

\* What is left of a channel when a message is read ...
LEMMA ChanTailItems ==
  ASSUME TypeOK, NEW p \in Peer, chan[p] # <<>>
  PROVE /\ \A i \in DOMAIN Tail(chan[p]) :
             i + 1 \in DOMAIN chan[p] /\ Tail(chan[p])[i] = chan[p][i + 1]
        /\ Len(Tail(chan[p])) = Len(chan[p]) - 1
        /\ 1 \in DOMAIN chan[p] /\ Head(chan[p]) = chan[p][1]
<1>1. chan[p] \in Seq(Message)
  BY DEF TypeOK
<1> QED BY <1>1, HeadTailProperties

\* ... and what it holds when one is added.
LEMMA ChanAppendItems ==
  ASSUME TypeOK, NEW p \in Peer, NEW m \in Message
  PROVE \A i \in DOMAIN Append(chan[p], m) :
          \/ Append(chan[p], m)[i] = m
          \/ i \in DOMAIN chan[p] /\ Append(chan[p], m)[i] = chan[p][i]
<1>1. chan[p] \in Seq(Message)
  BY DEF TypeOK
<1> QED BY <1>1, AppendProperties

\* Delta lists are not NULL.
LEMMA ListIsAllocated ==
  ASSUME NEW f \in [0 .. Delta - 1 -> EventList]
  PROVE  f # NoList
<1>1. 0 \in DOMAIN f
  BY NetplayAssumption
<1>2. DOMAIN NoList = {}
  BY DEF NoList
<1> QED BY <1>1, <1>2

\* Neither function leaves the pointer NULL.
LEMMA InitListAlloc ==
  ASSUME TypeOK, NEW p \in Peer, InitFrameEventList(p)
  PROVE  /\ list'[p] # NoList
         /\ \A q \in Peer : q # p => list'[q] = list[q] /\ syncTrap'[q] = syncTrap[q]
<1>1. list'[p] \in [0 .. Delta - 1 -> EventList]
  BY EmptyType DEF InitFrameEventList, TypeOK
<1> QED BY <1>1, ListIsAllocated DEF InitFrameEventList, TypeOK

\* The same, for network_prepare_next_frame().
LEMMA NextFrameAlloc ==
  ASSUME TypeOK, NEW p \in Peer, list[p] # NoList, PrepareNextFrame(p)
  PROVE  /\ list'[p] # NoList
         /\ \A q \in Peer : q # p => list'[q] = list[q] /\ syncTrap'[q] = syncTrap[q]
<1>1. list[p] \in [0 .. Delta - 1 -> EventList]
  BY AllocType
<1>2. list' = [list EXCEPT ![p] = [list[p] EXCEPT ![current'[p]] = Empty]]
  BY DEF PrepareNextFrame
<1>3. list'[p] = [list[p] EXCEPT ![current'[p]] = Empty]
  BY <1>2 DEF TypeOK
<1>4. list'[p] \in [0 .. Delta - 1 -> EventList]
  BY <1>1, <1>3, EmptyType
<1>5. \A q \in Peer : q # p => list'[q] = list[q]
  BY <1>2 DEF TypeOK
<1> QED BY <1>4, <1>5, ListIsAllocated DEF PrepareNextFrame, TypeOK

\* What closing an end does to both ends ...
LEMMA CloseEffect ==
  ASSUME TypeOK, NEW p \in Peer, NEW ports \in BOOLEAN, CloseLink(p, ports), NEW q \in Peer, q # p
  PROVE  /\ chan'[p] = <<>> /\ chan'[q] = chan[q]
         /\ link'[p] = "none"
         /\ link[p] = "up" => link'[q] \in {"eof", "reset"}
         /\ link[p] # "up" =>
              link'[q] = link[q] \/ (link'[q] = "reset" /\ p = "server" /\ backlog /\ ~ backlog')
         /\ backlog' => backlog
         /\ backlog /\ ~ backlog' => p = "server" /\ link'[q] # "up"
<1>1. q = Other(p)
  BY DEF Other, Peer
<1>2. chan'[p] = <<>> /\ chan'[q] = chan[q]
  BY DEF TypeOK, CloseLink
<1>3. link'[p] = "none"
  BY <1>1 DEF TypeOK, CloseLink
<1>4. backlog' = (backlog /\ ~ (ports /\ p = "server"))
  BY DEF CloseLink
<1>5. CASE link[p] = "up"
  <2>1. link'[q] \in {"eof", "reset"}
    BY <1>1, <1>5 DEF TypeOK, CloseLink
  <2> QED BY <1>2, <1>3, <1>4, <1>5, <2>1
<1>6. CASE link[p] # "up" /\ ports /\ p = "server" /\ backlog
  <2>1. link'[q] = "reset"
    BY <1>1, <1>6 DEF TypeOK, CloseLink
  <2> QED BY <1>2, <1>3, <1>4, <1>6, <2>1
<1>7. CASE link[p] # "up" /\ ~ (ports /\ p = "server" /\ backlog)
  <2>1. link'[q] = link[q]
    BY <1>1, <1>7 DEF TypeOK, CloseLink
  <2> QED BY <1>2, <1>3, <1>4, <1>7, <2>1
<1> QED BY <1>5, <1>6, <1>7

\* ... and what network_disconnect() does to both peers.
LEMMA DisconnectEffect ==
  ASSUME TypeOK, NEW p \in Peer, NEW next \in {"run", "trap", "receive"}, Disconnect(p, next),
         NEW q \in Peer, q # p
  PROVE  /\ chan'[p] = <<>> /\ chan'[q] = chan[q]
         /\ link'[p] = "none"
         /\ link[p] = "up" => link'[q] \in {"eof", "reset"}
         /\ link[p] # "up" =>
              link'[q] = link[q] \/ (link'[q] = "reset" /\ p = "server" /\ backlog /\ ~ backlog')
         /\ backlog' => backlog
         /\ backlog /\ ~ backlog' => p = "server" /\ link'[q] # "up"
         /\ mode'[q] = mode[q] /\ pc'[q] = pc[q]
         /\ \/ pc'[p] = "abort" /\ mode'[p] = mode[p]
            \/ /\ pc'[p] = next
               /\ mode'[p] = IF mode[p] = "serverConnected" THEN "server" ELSE "idle"
<1>1. \E ports \in BOOLEAN : CloseLink(p, ports)
  BY DEF Disconnect
<1>2. CASE socket[p] = "closed"
  BY <1>1, <1>2, CloseEffect DEF Disconnect, TypeOK, control
<1>3. CASE socket[p] # "closed"
  BY <1>1, <1>3, CloseEffect DEF Disconnect, TypeOK
<1> QED BY <1>2, <1>3

\* A connection that is up for one end is up for the other once it is accepted.
LEMMA BothUp ==
  ASSUME LinkInv, NEW p \in Peer, NEW q \in Peer, q # p,
         link[p] = "up", pc[p] # "connecting"
  PROVE  link[q] = "up"
BY DEF LinkInv, Peer

\* Every step keeps LinkInv.
LEMMA Links ==
  ASSUME TypeOK, LinkInv, OpeningInv, ControlInv, [Next]_vars
  PROVE  LinkInv'
<1>1. CASE UNCHANGED vars
  BY <1>1 DEF vars, control, frames, wire, history, LinkInv, OpeningInv, ControlInv,
     InOpening, Peer
<1>2. CASE Accept
  BY <1>2 DEF TypeOK, Accept, Goto, frames, history, LinkInv, OpeningInv, ControlInv,
     InOpening, Peer
<1>3. CASE SendSnapshot
  BY <1>3 DEF TypeOK, SendSnapshot, CanSend, Send, Goto, wire, frames, Other, LinkInv,
     OpeningInv, ControlInv, InOpening, Peer
<1>4. CASE SendSettings
  BY <1>4 DEF TypeOK, SendSettings, CanSend, Send, Goto, wire, control, frames,
     history, Other, LinkInv, OpeningInv, ControlInv, InOpening, Peer
<1>5. CASE SendTest
  BY <1>5 DEF TypeOK, SendTest, CanSend, Send, Goto, frames, wire, InitFrameEventList,
     control, history, Other, LinkInv, OpeningInv, ControlInv, InOpening, Peer
<1>6. CASE SendDelta
  BY <1>6 DEF TypeOK, SendDelta, Receives, Answer, InitFrameEventList, Goto, control,
     history, Other, LinkInv, OpeningInv, ControlInv, InOpening, Peer
<1>7. CASE ReceiveSnapshot
  BY <1>7 DEF TypeOK, ReceiveSnapshot, Receives, Read, Goto, control, frames, history,
     LinkInv, OpeningInv, ControlInv, InOpening, Peer
<1>8. CASE ConnectFails
  BY <1>8 DEF TypeOK, ConnectFails, ReadFails, CloseLink, Goto, frames, history,
     Other, LinkInv, OpeningInv, ControlInv, InOpening, Peer
<1>9. CASE ReceiveSettings
  BY <1>9 DEF TypeOK, ReceiveSettings, Receives, Read, Goto, ReadFails, frames,
     LinkInv, OpeningInv, ControlInv, InOpening, Peer
<1>10. CASE Echo
  BY <1>10 DEF TypeOK, Echo, Receives, Answer, control, frames, history, Other,
     LinkInv, OpeningInv, ControlInv, InOpening, Peer
<1>11. CASE ReceiveDelta
  BY <1>11 DEF TypeOK, ReceiveDelta, Receives, Read, InitFrameEventList, Goto,
     control, history, LinkInv, OpeningInv, ControlInv, InOpening, Peer
<1>12. CASE StartServer
  BY <1>12 DEF TypeOK, StartServer, frames, wire, history, LinkInv, OpeningInv,
     ControlInv, InOpening, Peer
<1>13. CASE Connect
  BY <1>13 DEF TypeOK, Connect, Goto, frames, LinkInv, OpeningInv, ControlInv,
     InOpening, Peer
<1>14. CASE Break
  BY <1>14 DEF TypeOK, Break, control, frames, history, LinkInv, OpeningInv,
     ControlInv, InOpening, Peer
<1>15. ASSUME NEW p \in Peer, UserDisconnect(p)
      PROVE  LinkInv'
  BY <1>15 DEF TypeOK, UserDisconnect, Disconnect, frames, history, CloseLink,
     control, Other, LinkInv, OpeningInv, ControlInv, InOpening, Peer
<1>16. ASSUME NEW p \in Peer, Suspend(p)
      PROVE  LinkInv'
  BY <1>16 DEF TypeOK, Suspend, Connected, Send, control, frames, history, Other,
     LinkInv, OpeningInv, ControlInv, InOpening, Peer
<1>17. ASSUME NEW p \in Peer, Reset(p)
      PROVE  LinkInv'
  BY <1>17 DEF TypeOK, Reset, control, frames, history, LinkInv, OpeningInv,
     ControlInv, InOpening, Peer
<1>18. ASSUME NEW p \in Peer, TestFails(p)
      PROVE  LinkInv'
  BY <1>18 DEF TypeOK, TestFails, ReadFails, InitFrameEventList, Goto, control, wire,
     history, LinkInv, OpeningInv, ControlInv, InOpening, Peer
<1>19. ASSUME NEW p \in Peer, SyncTest(p)
      PROVE  LinkInv'
  BY <1>19 DEF TypeOK, SyncTest, control, wire, history, LinkInv, OpeningInv,
     ControlInv, InOpening, Peer
<1>20. ASSUME NEW p \in Peer, HookSend(p)
      PROVE  LinkInv'
  BY <1>20 DEF TypeOK, HookSend, Connected, Crash, control, CanSend, Send, Goto,
     Disconnect, CloseLink, Other, LinkInv, OpeningInv, ControlInv, InOpening, Peer
<1>21. ASSUME NEW p \in Peer, SkipReceive(p)
      PROVE  LinkInv'
  BY <1>21 DEF TypeOK, SkipReceive, PrepareNextFrame, Goto, control, wire, history,
     LinkInv, OpeningInv, ControlInv, InOpening, Peer
<1>22. ASSUME NEW p \in Peer, ReceiveSuspended(p)
      PROVE  LinkInv'
  BY <1>22 DEF TypeOK, ReceiveSuspended, Receives, Read, control, frames, history,
     LinkInv, OpeningInv, ControlInv, InOpening, Peer
<1>23. ASSUME NEW p \in Peer, ReceiveFrame(p)
      PROVE  LinkInv'
  <2> PICK q \in Peer : q # p
    BY DEF Peer
  <2>1. /\ UNCHANGED <<session, sent>>
        /\ list[p] # NoList /\ PrepareNextFrame(p)
        /\ pc[p] = "receive" /\ chan[p] # <<>> /\ Head(chan[p]).type = "frame"
        /\ machine'[q] = machine[q]
    BY <1>23 DEF ReceiveFrame, Receives, history, ControlInv, TypeOK
  <2>2. CASE UNCHANGED <<control, link, backlog>> /\ Goto(p, "run") /\ Read(p)
    BY <2>1, <2>2, NextFrameAlloc, ChanTailItems DEF TypeOK, Read, Goto, control,
       LinkInv, OpeningInv, ControlInv, InOpening, Peer
  <2>3. CASE Disconnect(p, "run")
    BY <2>1, <2>3, NextFrameAlloc, DisconnectEffect DEF LinkInv, OpeningInv,
       ControlInv, InOpening, Peer
  <2> QED BY <1>23, <2>2, <2>3 DEF ReceiveFrame
<1>24. ASSUME NEW p \in Peer, ReceiveFails(p)
      PROVE  LinkInv'
  BY <1>24 DEF TypeOK, ReceiveFails, ReadFails, Disconnect, Goto, control, wire,
     frames, history, CloseLink, Other, LinkInv, OpeningInv, ControlInv, InOpening,
     Peer
<1>25. ASSUME NEW p \in Peer, Spin(p)
      PROVE  LinkInv'
  BY <1>25 DEF TypeOK, Spin, AtEof, Waits, Goto, control, frames, wire, history,
     LinkInv, OpeningInv, ControlInv, InOpening, Peer
<1>26. ASSUME NEW p \in Peer, NEW e \in Event, Record(p, e)
      PROVE  LinkInv'
  BY SMTT(20), <1>26 DEF TypeOK, Record, Connected, Crash, Other, wire, control, history, Goto,
     CloseLink, LinkInv, OpeningInv, ControlInv, InOpening, Peer
<1> QED
  BY <1>1, <1>2, <1>3, <1>4, <1>5, <1>6, <1>7, <1>8, <1>9, <1>10, <1>11, <1>12, <1>13,
     <1>14, <1>15, <1>16, <1>17, <1>18, <1>19, <1>20, <1>21, <1>22, <1>23, <1>24,
     <1>25, <1>26 DEF Next, Server, Client, Frame

\* What a message added to, or read from, a channel does to its contents.
LEMMA SendEffect ==
  ASSUME TypeOK, NEW p \in Peer, NEW m \in Message, Send(p, m), m.type # "frame",
         NEW q \in Peer, q # p
  PROVE  /\ link' = link /\ backlog' = backlog /\ chan'[p] = chan[p]
         /\ link[p] # "up" => chan' = chan
         /\ (\A i \in DOMAIN chan[q] : chan[q][i].type # "frame")
              => (\A i \in DOMAIN chan'[q] : chan'[q][i].type # "frame")
         /\ m.type # "settings" /\ (\E i \in DOMAIN chan'[q] : chan'[q][i].type = "settings")
              => (\E i \in DOMAIN chan[q] : chan[q][i].type = "settings")
<1>1. q = Other(p)
  BY DEF Other, Peer
<1>2. CASE link[p] # "up"
  BY <1>2 DEF Send
<1>3. CASE link[p] = "up"
  <2>1. chan'[p] = chan[p] /\ chan'[q] = Append(chan[q], m) /\ link' = link /\ backlog' = backlog
    BY <1>1, <1>3 DEF Send, TypeOK
  <2>2. \A i \in DOMAIN chan'[q] :
          chan'[q][i] = m \/ (i \in DOMAIN chan[q] /\ chan'[q][i] = chan[q][i])
    BY <2>1, ChanAppendItems
  <2> QED BY <1>3, <2>1, <2>2
<1> QED BY <1>2, <1>3

\* A peer that crashes leaves what is said of a client that joins.
LEMMA CrashOpening ==
  ASSUME TypeOK, OpeningInv, NEW p \in Peer, pc[p] = "run", Crash(p), UNCHANGED <<control, sent>>
  PROVE  OpeningInv'
<1>1. pc'[p] = "crash" /\ mode' = mode /\ \A q \in Peer : q # p => pc'[q] = pc[q]
  BY DEF TypeOK, Crash, Goto, control
<1>2. CASE p = "client"
  BY <1>1, <1>2 DEF OpeningInv, InOpening
<1>3. CASE p = "server"
  <2>1. pc'["client"] = pc["client"]
    BY <1>1, <1>3 DEF Peer
  <2>2. link'["server"] = "none" /\ chan'["client"] = chan["client"]
    BY <1>3, CloseEffect DEF Crash, Peer
  <2> QED BY <1>1, <1>3, <2>1, <2>2 DEF OpeningInv, InOpening, Offered, Connected
<1> QED BY <1>2, <1>3 DEF Peer

\* The three outcomes of network_hook_connected_send(): no list, sent, not sent.
LEMMA HookSendCases ==
  ASSUME NEW p \in Peer, HookSend(p)
  PROVE  /\ pc[p] = "run" /\ Connected(p)
         /\ UNCHANGED <<list, current, toPlay, syncTrap, machine, session>>
         /\ \/ list[p] = NoList /\ Crash(p) /\ UNCHANGED <<control, full, sent>>
            \/ /\ list[p] # NoList
               /\ full' = [full EXCEPT ![p] = @ \/ current[p] = Delta - 1]
               /\ \/ /\ CanSend(p)
                     /\ Send(p, [type |-> "frame", list |-> list[p][current[p]]])
                     /\ sent' = [sent EXCEPT ![p] = Append(@, list[p][current[p]])]
                     /\ Goto(p, "receive")
                     /\ UNCHANGED control
                  \/ ~ CanSend(p) /\ Disconnect(p, "receive") /\ UNCHANGED sent
BY DEF HookSend

\* A peer that disconnects leaves what is said of a client that joins.
LEMMA DisconnectOpening ==
  ASSUME TypeOK, OpeningInv, NEW p \in Peer, NEW next \in {"run", "trap", "receive"},
         Disconnect(p, next), UNCHANGED sent,
         next = "trap" => pc[p] = "trap" /\ mode[p] # "idle"
  PROVE  OpeningInv'
<1>1. CASE p = "client"
  <2>1. pc'["client"] \in {"abort", next}
    BY <1>1, DisconnectEffect DEF Peer
  <2>2. ~ InOpening'
    BY <1>1, <2>1 DEF OpeningInv, InOpening
  <2> QED BY <2>2 DEF OpeningInv, Offered
<1>2. CASE p = "server"
  <2>1. /\ chan'["client"] = chan["client"] /\ link'["server"] = "none"
        /\ mode'["client"] = mode["client"] /\ pc'["client"] = pc["client"]
        /\ pc'["server"] \in {"abort", next}
    BY <1>2, DisconnectEffect DEF Peer
  <2>2. (InOpening' <=> InOpening) /\ (Offered' <=> Offered)
    BY <2>1 DEF InOpening, Offered
  <2>3. Offered => pc'["server"] \notin {"trap", "offer"}
    BY <1>2, <2>1 DEF OpeningInv, Offered
  <2> QED BY <2>1, <2>2, <2>3 DEF OpeningInv
<1> QED BY <1>1, <1>2 DEF Peer

\* Every step keeps OpeningInv ...
LEMMA Openings ==
  ASSUME TypeOK, LinkInv, OpeningInv, ControlInv, [Next]_vars
  PROVE  OpeningInv'
<1>1. CASE UNCHANGED vars
  BY <1>1 DEF vars, control, frames, wire, history, OpeningInv, Connected, LinkInv,
     ControlInv, InOpening, Offered, Peer
<1>2. CASE Accept
  BY <1>2 DEF TypeOK, Accept, Goto, frames, history, OpeningInv, Connected, LinkInv,
     ControlInv, InOpening, Offered, Peer
<1>3. CASE SendSnapshot
  <2> DEFINE m == [type |-> "snapshot"]
  <2>1. m \in Message /\ m.type \notin {"frame", "settings"}
    BY MessageType
  <2>2. CASE Send("server", m) /\ sent' = [sent EXCEPT !["server"] = <<>>] /\ Goto("server", "offer")
    BY <1>3, <2>1, <2>2, SendEffect DEF TypeOK, SendSnapshot, Goto, OpeningInv,
       Connected, LinkInv, ControlInv, InOpening, Offered, Peer
  <2>3. CASE Goto("server", "run") /\ UNCHANGED <<mode, wire, sent>>
    BY <1>3, <2>3 DEF TypeOK, SendSnapshot, Goto, wire, OpeningInv, Connected,
       LinkInv, ControlInv, InOpening, Offered, Peer
  <2> QED BY <1>3, <2>2, <2>3 DEF SendSnapshot
<1>4. CASE SendSettings
  <2> DEFINE m == [type |-> "settings"]
  <2>1. m \in Message /\ m.type # "frame"
    BY MessageType
  <2>2. sent["server"] = <<>> /\ pc["server"] = "offer" /\ UNCHANGED <<mode, sent>>
    BY <1>4 DEF SendSettings, ControlInv, control, history, Peer
  <2>3. CASE CanSend("server") /\ Send("server", m) /\ Goto("server", "ping")
    <3>1. /\ link' = link /\ backlog' = backlog /\ chan'["server"] = chan["server"]
          /\ link["server"] # "up" => chan' = chan
          /\ (\A i \in DOMAIN chan["client"] : chan["client"][i].type # "frame")
               => (\A i \in DOMAIN chan'["client"] : chan'["client"][i].type # "frame")
      BY <2>1, <2>3, SendEffect DEF Peer
    <3>2. pc'["server"] = "ping" /\ pc'["client"] = pc["client"]
      BY <2>3 DEF Goto, TypeOK, Peer
    <3>3. Offered => pc["server"] # "offer"
      BY DEF OpeningInv, Offered
    <3>4. Offered' => link["server"] = "up"
      BY <2>2, <3>1, <3>2, <3>3 DEF Offered, InOpening
    <3> QED BY <2>2, <3>1, <3>2, <3>4 DEF OpeningInv, Connected, InOpening
  <2>4. CASE ~ CanSend("server") /\ UNCHANGED wire /\ Goto("server", "run")
    BY <2>2, <2>4 DEF TypeOK, Goto, CanSend, wire, OpeningInv, Connected, LinkInv,
       ControlInv, InOpening, Offered, Peer
  <2> QED BY <1>4, <2>3, <2>4 DEF SendSettings
<1>5. CASE SendTest
  <2> DEFINE m == [type |-> "test"]
  <2>1. m \in Message /\ m.type \notin {"frame", "settings"}
    BY MessageType
  <2>2. pc["server"] = "ping" /\ UNCHANGED <<mode, sent>>
    BY <1>5 DEF SendTest, control, history
  <2>3. CASE CanSend("server") /\ Send("server", m) /\ Goto("server", "test")
    BY <2>1, <2>2, <2>3, SendEffect DEF TypeOK, Goto, OpeningInv, Connected, LinkInv,
       ControlInv, InOpening, Offered, Peer
  <2>4. CASE ~ CanSend("server") /\ UNCHANGED wire /\ Goto("server", "run")
    BY <2>2, <2>4 DEF TypeOK, Goto, CanSend, wire, OpeningInv, Connected, LinkInv,
       ControlInv, InOpening, Offered, Peer
  <2> QED BY <1>5, <2>3, <2>4 DEF SendTest
<1>6. CASE SendDelta
  BY <1>6 DEF TypeOK, SendDelta, Receives, Answer, InitFrameEventList, Goto, control,
     history, Other, OpeningInv, Connected, LinkInv, ControlInv, InOpening, Offered,
     Peer
<1>7. CASE ReceiveSnapshot
  <2>1. /\ pc["client"] = "connecting" /\ chan["client"] # <<>>
        /\ chan' = [chan EXCEPT !["client"] = Tail(@)]
        /\ pc' = [pc EXCEPT !["client"] = "trap"]
        /\ UNCHANGED <<mode, sent, link>>
    BY <1>7 DEF ReceiveSnapshot, Receives, Read, Goto, control, history
  <2>2. \A i \in DOMAIN chan'["client"] :
          i + 1 \in DOMAIN chan["client"] /\ chan'["client"][i] = chan["client"][i + 1]
    BY <2>1, ChanTailItems DEF TypeOK, Peer
  <2>3. Offered' => Offered
    BY <2>1, <2>2 DEF Offered, InOpening
  <2> QED BY <2>1, <2>2, <2>3 DEF TypeOK, OpeningInv, InOpening, Connected, Peer
<1>8. CASE ConnectFails
  BY <1>8 DEF TypeOK, ConnectFails, ReadFails, CloseLink, Goto, frames, history,
     Other, OpeningInv, Connected, LinkInv, ControlInv, InOpening, Offered, Peer
<1>9. CASE ReceiveSettings
  BY <1>9 DEF TypeOK, ReceiveSettings, Receives, Read, Goto, ReadFails, frames,
     OpeningInv, Connected, LinkInv, ControlInv, InOpening, Offered, Peer
<1>10. CASE Echo
  BY <1>10 DEF TypeOK, Echo, Receives, Answer, control, frames, history, Other,
     OpeningInv, Connected, LinkInv, ControlInv, InOpening, Offered, Peer
<1>11. CASE ReceiveDelta
  BY <1>11 DEF TypeOK, ReceiveDelta, Receives, Read, InitFrameEventList, Goto,
     control, history, OpeningInv, Connected, LinkInv, ControlInv, InOpening, Offered,
     Peer
<1>12. CASE StartServer
  BY <1>12 DEF TypeOK, StartServer, frames, wire, history, OpeningInv, Connected,
     LinkInv, ControlInv, InOpening, Offered, Peer
<1>13. CASE Connect
  BY <1>13 DEF TypeOK, Connect, Goto, frames, OpeningInv, Connected, LinkInv,
     ControlInv, InOpening, Offered, Peer
<1>14. CASE Break
  BY <1>14 DEF TypeOK, Break, control, frames, history, OpeningInv, Connected,
     LinkInv, ControlInv, InOpening, Offered, Peer
<1>15. ASSUME NEW p \in Peer, UserDisconnect(p)
      PROVE  OpeningInv'
  BY <1>15, DisconnectOpening DEF UserDisconnect, history
<1>16. ASSUME NEW p \in Peer, Suspend(p)
      PROVE  OpeningInv'
  BY <1>16 DEF TypeOK, Suspend, Connected, Send, control, frames, history, Other,
     OpeningInv, LinkInv, ControlInv, InOpening, Offered, Peer
<1>17. ASSUME NEW p \in Peer, Reset(p)
      PROVE  OpeningInv'
  BY <1>17 DEF TypeOK, Reset, control, frames, history, OpeningInv, Connected,
     LinkInv, ControlInv, InOpening, Offered, Peer
<1>18. ASSUME NEW p \in Peer, TestFails(p)
      PROVE  OpeningInv'
  BY <1>18 DEF TypeOK, TestFails, ReadFails, InitFrameEventList, Goto, control, wire,
     history, OpeningInv, Connected, LinkInv, ControlInv, InOpening, Offered, Peer
<1>19. ASSUME NEW p \in Peer, SyncTest(p)
      PROVE  OpeningInv'
  BY <1>19 DEF TypeOK, SyncTest, control, wire, history, OpeningInv, Connected,
     LinkInv, ControlInv, InOpening, Offered, Peer
<1>20. ASSUME NEW p \in Peer, HookSend(p)
      PROVE  OpeningInv'
  <2> PICK q \in Peer : q # p
    BY DEF Peer
  <2>1. pc[p] = "run" /\ Connected(p) /\ UNCHANGED session
    BY <1>20, HookSendCases
  <2>2. CASE Crash(p) /\ UNCHANGED <<control, sent>>
    BY <2>1, <2>2, CrashOpening
  <2>3. CASE /\ CanSend(p)
             /\ Send(p, [type |-> "frame", list |-> list[p][current[p]]])
             /\ sent' = [sent EXCEPT ![p] = Append(@, list[p][current[p]])]
             /\ Goto(p, "receive")
             /\ UNCHANGED control
    <3>1. CASE p = "client"
      BY <2>3, <3>1 DEF OpeningInv, InOpening, Goto, TypeOK
    <3>2. CASE p = "server"
      <4>1. ~ (InOpening /\ link["server"] = "up")
        BY <2>1, <3>2 DEF OpeningInv
      <4>2. ~ (InOpening /\ Offered)
        BY <2>3, <3>2, <4>1 DEF OpeningInv, CanSend
      <4>3. InOpening' => InOpening /\ UNCHANGED <<chan, link, mode>>
        BY <2>3, <3>2, <4>1 DEF InOpening, Send, Goto, TypeOK, control
      <4>4. InOpening' => pc'["client"] = pc["client"]
        BY <2>3, <3>2 DEF Goto, TypeOK
      <4> QED BY <3>2, <4>1, <4>2, <4>3, <4>4 DEF OpeningInv, Offered, InOpening, Connected
    <3> QED BY <3>1, <3>2 DEF Peer
  <2>4. CASE ~ CanSend(p) /\ Disconnect(p, "receive") /\ UNCHANGED sent
    BY <2>1, <2>4, DisconnectEffect DEF CanSend, OpeningInv, Connected, LinkInv,
       ControlInv, InOpening, Offered, Peer
  <2> QED BY <1>20, <2>2, <2>3, <2>4, HookSendCases
<1>21. ASSUME NEW p \in Peer, SkipReceive(p)
      PROVE  OpeningInv'
  BY <1>21 DEF TypeOK, SkipReceive, PrepareNextFrame, Goto, control, wire, history,
     OpeningInv, Connected, LinkInv, ControlInv, InOpening, Offered, Peer
<1>22. ASSUME NEW p \in Peer, ReceiveSuspended(p)
      PROVE  OpeningInv'
  BY <1>22 DEF TypeOK, ReceiveSuspended, Receives, Read, control, frames, history,
     OpeningInv, Connected, LinkInv, ControlInv, InOpening, Offered, Peer
<1>23. ASSUME NEW p \in Peer, ReceiveFrame(p)
      PROVE  OpeningInv'
  <2> PICK q \in Peer : q # p
    BY DEF Peer
  <2>1. /\ UNCHANGED <<session, sent>>
        /\ list[p] # NoList /\ PrepareNextFrame(p)
        /\ pc[p] = "receive" /\ chan[p] # <<>> /\ Head(chan[p]).type = "frame"
        /\ machine'[q] = machine[q]
    BY <1>23 DEF ReceiveFrame, Receives, history, ControlInv, TypeOK
  <2>2. CASE UNCHANGED <<control, link, backlog>> /\ Goto(p, "run") /\ Read(p)
    BY <2>1, <2>2, NextFrameAlloc, ChanTailItems DEF TypeOK, Read, Goto, control,
       OpeningInv, Connected, LinkInv, ControlInv, InOpening, Offered, Peer
  <2>3. CASE Disconnect(p, "run")
    BY <2>1, <2>3, NextFrameAlloc, DisconnectEffect DEF OpeningInv, Connected,
       LinkInv, ControlInv, InOpening, Offered, Peer
  <2> QED BY <1>23, <2>2, <2>3 DEF ReceiveFrame
<1>24. ASSUME NEW p \in Peer, ReceiveFails(p)
      PROVE  OpeningInv'
  <2>1. CASE Disconnect(p, "run") /\ UNCHANGED sent
    BY <2>1, DisconnectOpening
  <2>2. CASE /\ pc[p] = "receive" /\ Goto(p, "run")
             /\ UNCHANGED <<mode, chan, link, sent>>
    BY <2>2 DEF TypeOK, Goto, OpeningInv, Connected, InOpening, Offered, Peer
  <2> QED BY <1>24, <2>1, <2>2 DEF ReceiveFails, control, wire, history
<1>25. ASSUME NEW p \in Peer, Spin(p)
      PROVE  OpeningInv'
  BY <1>25 DEF TypeOK, Spin, AtEof, Waits, Goto, control, frames, wire, history,
     OpeningInv, Connected, LinkInv, ControlInv, InOpening, Offered, Peer
<1>26. ASSUME NEW p \in Peer, NEW e \in Event, Record(p, e)
      PROVE  OpeningInv'
  <2> PICK q \in Peer : q # p
    BY DEF Peer
  <2>1. pc[p] = "run" /\ Connected(p) /\ UNCHANGED <<control, sent>>
    BY <1>26 DEF Record, history
  <2>2. CASE Crash(p)
    BY <2>1, <2>2, CrashOpening
  <2>3. CASE UNCHANGED <<pc, wire>>
    BY <2>1, <2>3 DEF wire, control, OpeningInv, Connected, LinkInv, ControlInv,
       InOpening, Offered, Peer
  <2> QED BY <1>26, <2>2, <2>3 DEF Record
<1> QED
  BY <1>1, <1>2, <1>3, <1>4, <1>5, <1>6, <1>7, <1>8, <1>9, <1>10, <1>11, <1>12, <1>13,
     <1>14, <1>15, <1>16, <1>17, <1>18, <1>19, <1>20, <1>21, <1>22, <1>23, <1>24,
     <1>25, <1>26 DEF Next, Server, Client, Frame

\* ... and ControlInv.
LEMMA Controls ==
  ASSUME TypeOK, LinkInv, OpeningInv, ControlInv, [Next]_vars
  PROVE  ControlInv'
<1>1. CASE UNCHANGED vars
  BY <1>1 DEF vars, control, frames, wire, history, ControlInv, Connected, CanSend,
     OpeningInv, LinkInv, InOpening, Peer, NoList
<1>2. CASE Accept
  BY <1>2 DEF TypeOK, Accept, Goto, frames, history, ControlInv, Connected, CanSend,
     OpeningInv, LinkInv, InOpening, Peer, NoList
<1>3. CASE SendSnapshot
  BY <1>3 DEF TypeOK, SendSnapshot, CanSend, Send, Goto, wire, frames, Other,
     ControlInv, Connected, OpeningInv, LinkInv, InOpening, Peer, NoList
<1>4. CASE SendSettings
  <2>1. /\ pc["server"] = "offer"
        /\ UNCHANGED <<mode, link, list, syncTrap, machine, session, sent>>
        /\ pc' \in {[pc EXCEPT !["server"] = "ping"], [pc EXCEPT !["server"] = "run"]}
    BY <1>4 DEF SendSettings, Send, Goto, wire, control, frames, history
  <2> QED BY <2>1 DEF TypeOK, ControlInv, Connected, CanSend, Peer
<1>5. CASE SendTest
  <2>1. /\ pc["server"] = "ping"
        /\ UNCHANGED <<mode, session, sent, machine>>
    BY <1>5 DEF SendTest, control, history
  <2>2. CASE Send("server", [type |-> "test"]) /\ Goto("server", "test") /\ UNCHANGED frames
    BY <2>1, <2>2 DEF Send, TypeOK, Goto, frames, ControlInv, Connected, CanSend,
       OpeningInv, LinkInv, InOpening, Peer, NoList
  <2>3. CASE UNCHANGED wire /\ Goto("server", "run") /\ InitFrameEventList("server")
    BY <2>1, <2>3, InitListAlloc DEF TypeOK, Goto, wire, ControlInv, Connected,
       CanSend, OpeningInv, LinkInv, InOpening, Peer, NoList
  <2> QED BY <1>5, <2>2, <2>3 DEF SendTest
<1>6. CASE SendDelta
  BY <1>6 DEF TypeOK, SendDelta, Receives, Answer, InitFrameEventList, Goto, control,
     history, Other, ControlInv, Connected, CanSend, OpeningInv, LinkInv, InOpening,
     Peer, NoList
<1>7. CASE ReceiveSnapshot
  BY <1>7 DEF TypeOK, ReceiveSnapshot, Receives, Read, Goto, control, frames, history,
     ControlInv, Connected, CanSend, OpeningInv, LinkInv, InOpening, Peer, NoList
<1>8. CASE ConnectFails
  BY <1>8 DEF TypeOK, ConnectFails, ReadFails, CloseLink, Goto, frames, history,
     Other, ControlInv, Connected, CanSend, OpeningInv, LinkInv, InOpening, Peer,
     NoList
<1>9. CASE ReceiveSettings
  <2>1. pc["client"] = "trap" /\ UNCHANGED frames
    BY <1>9 DEF ReceiveSettings
  <2>2. Receives("client", "settings") => Offered
    <3>1. chan["client"] # <<>> =>
            1 \in DOMAIN chan["client"] /\ Head(chan["client"]) = chan["client"][1]
      BY ChanTailItems DEF Peer
    <3> QED BY <2>1, <3>1 DEF Receives, Offered, InOpening
  <2>3. CASE Receives("client", "settings")
    <3>1. pc["server"] # "offer"
      BY <2>1, <2>2, <2>3 DEF OpeningInv, Offered
    <3> QED BY <1>9, <2>3, <3>1 DEF TypeOK, ReceiveSettings, Goto, frames, ControlInv,
       Connected, CanSend, OpeningInv, LinkInv, InOpening, Peer, NoList
  <2>4. CASE ReadFails("client") /\ Goto("client", "run") /\ UNCHANGED <<mode, machine, session, sent>>
    BY <1>9, <2>4 DEF TypeOK, ReceiveSettings, Goto, frames, ControlInv, Connected,
       CanSend, OpeningInv, LinkInv, InOpening, Peer, NoList
  <2> QED BY <1>9, <2>3, <2>4 DEF ReceiveSettings
<1>10. CASE Echo
  BY <1>10 DEF TypeOK, Echo, Receives, Answer, control, frames, history, Other,
     ControlInv, Connected, CanSend, OpeningInv, LinkInv, InOpening, Peer, NoList
<1>11. CASE ReceiveDelta
  BY <1>11 DEF TypeOK, ReceiveDelta, Receives, Read, InitFrameEventList, Goto,
     control, history, ControlInv, Connected, CanSend, OpeningInv, LinkInv, InOpening,
     Peer, NoList
<1>12. CASE StartServer
  BY <1>12 DEF TypeOK, StartServer, frames, wire, history, ControlInv, Connected,
     CanSend, OpeningInv, LinkInv, InOpening, Peer, NoList
<1>13. CASE Connect
  BY <1>13 DEF TypeOK, Connect, Goto, frames, ControlInv, Connected, CanSend,
     OpeningInv, LinkInv, InOpening, Peer, NoList
<1>14. CASE Break
  BY <1>14 DEF TypeOK, Break, control, frames, history, ControlInv, Connected,
     CanSend, OpeningInv, LinkInv, InOpening, Peer, NoList
<1>15. ASSUME NEW p \in Peer, UserDisconnect(p)
      PROVE  ControlInv'
  BY <1>15 DEF TypeOK, UserDisconnect, Disconnect, frames, history, CloseLink,
     control, Other, ControlInv, Connected, CanSend, OpeningInv, LinkInv, InOpening,
     Peer, NoList
<1>16. ASSUME NEW p \in Peer, Suspend(p)
      PROVE  ControlInv'
  BY <1>16 DEF TypeOK, Suspend, Connected, Send, control, frames, history, Other,
     ControlInv, CanSend, OpeningInv, LinkInv, InOpening, Peer, NoList
<1>17. ASSUME NEW p \in Peer, Reset(p)
      PROVE  ControlInv'
  BY <1>17 DEF TypeOK, Reset, control, frames, history, ControlInv, Connected,
     CanSend, OpeningInv, LinkInv, InOpening, Peer, NoList
<1>18. ASSUME NEW p \in Peer, TestFails(p)
      PROVE  ControlInv'
  BY <1>18 DEF TypeOK, TestFails, ReadFails, InitFrameEventList, Goto, control, wire,
     history, ControlInv, Connected, CanSend, OpeningInv, LinkInv, InOpening, Peer,
     NoList
<1>19. ASSUME NEW p \in Peer, SyncTest(p)
      PROVE  ControlInv'
  BY <1>19 DEF TypeOK, SyncTest, control, wire, history, ControlInv, Connected,
     CanSend, OpeningInv, LinkInv, InOpening, Peer, NoList
<1>20. ASSUME NEW p \in Peer, HookSend(p)
      PROVE  ControlInv'
  BY <1>20 DEF TypeOK, HookSend, Connected, Crash, control, CanSend, Send, Goto,
     Disconnect, CloseLink, Other, ControlInv, OpeningInv, LinkInv, InOpening, Peer,
     NoList
<1>21. ASSUME NEW p \in Peer, SkipReceive(p)
      PROVE  ControlInv'
  <2> PICK q \in Peer : q # p
    BY DEF Peer
  <2>1. /\ UNCHANGED <<session, sent, mode, link>>
        /\ list[p] # NoList /\ PrepareNextFrame(p)
        /\ pc'[p] = "run" /\ pc'[q] = pc[q]
        /\ machine'[q] = machine[q]
    BY <1>21 DEF SkipReceive, history, control, wire, Goto, ControlInv, TypeOK
  <2> QED BY <2>1, NextFrameAlloc DEF ControlInv, Connected, CanSend, Peer
<1>22. ASSUME NEW p \in Peer, ReceiveSuspended(p)
      PROVE  ControlInv'
  BY <1>22 DEF TypeOK, ReceiveSuspended, Receives, Read, control, frames, history,
     ControlInv, Connected, CanSend, OpeningInv, LinkInv, InOpening, Peer, NoList
<1>23. ASSUME NEW p \in Peer, ReceiveFrame(p)
      PROVE  ControlInv'
  <2> PICK q \in Peer : q # p
    BY DEF Peer
  <2>1. /\ UNCHANGED <<session, sent>>
        /\ list[p] # NoList /\ PrepareNextFrame(p)
        /\ pc[p] = "receive" /\ chan[p] # <<>> /\ Head(chan[p]).type = "frame"
        /\ machine'[q] = machine[q]
    BY <1>23 DEF ReceiveFrame, Receives, history, ControlInv, TypeOK
  <2>2. CASE UNCHANGED <<control, link, backlog>> /\ Goto(p, "run") /\ Read(p)
    <3>1. pc'[p] = "run" /\ pc'[q] = pc[q] /\ UNCHANGED <<mode, link>>
      BY <2>2 DEF TypeOK, Goto, control
    <3> QED BY <2>1, <3>1, NextFrameAlloc DEF ControlInv, Connected, CanSend, Peer
  <2>3. CASE Disconnect(p, "run")
    <3> DEFINE Gone == /\ link'[p] = "none"
                       /\ link'[q] \in {link[q], "eof", "reset"}
                       /\ CanSend(q)' => CanSend(q)
                       /\ mode'[q] = mode[q] /\ pc'[q] = pc[q]
                       /\ pc'[p] \in {"abort", "run"}
                       /\ \/ mode'[p] \in {mode[p], "idle"}
                          \/ mode[p] = "serverConnected" /\ mode'[p] = "server"
    <3>1. list'[p] # NoList /\ list'[q] = list[q] /\ syncTrap'[q] = syncTrap[q]
      BY <2>1, NextFrameAlloc
    <3>2. Gone
      BY <2>1, <2>3, DisconnectEffect, BothUp DEF CanSend
    <3> HIDE DEF Gone
    <3>3. CASE p = "server" /\ q = "client"
      BY <2>1, <3>1, <3>2, <3>3 DEF ControlInv, Connected, Gone, Peer
    <3>4. CASE p = "client" /\ q = "server"
      BY <2>1, <3>1, <3>2, <3>4 DEF ControlInv, Connected, Gone, Peer
    <3> QED BY <3>3, <3>4 DEF Peer
  <2> QED BY <1>23, <2>2, <2>3 DEF ReceiveFrame
<1>24. ASSUME NEW p \in Peer, ReceiveFails(p)
      PROVE  ControlInv'
  BY <1>24 DEF TypeOK, ReceiveFails, ReadFails, Disconnect, Goto, control, wire,
     frames, history, CloseLink, Other, ControlInv, Connected, CanSend, OpeningInv,
     LinkInv, InOpening, Peer, NoList
<1>25. ASSUME NEW p \in Peer, Spin(p)
      PROVE  ControlInv'
  BY <1>25 DEF TypeOK, Spin, AtEof, Waits, Goto, control, frames, wire, history,
     ControlInv, Connected, CanSend, OpeningInv, LinkInv, InOpening, Peer, NoList
<1>26. ASSUME NEW p \in Peer, NEW e \in Event, Record(p, e)
      PROVE  ControlInv'
  BY <1>26 DEF TypeOK, Record, Connected, Crash, Other, wire, control, history, Goto,
     CloseLink, ControlInv, CanSend, OpeningInv, LinkInv, InOpening, Peer, NoList
<1> QED
  BY <1>1, <1>2, <1>3, <1>4, <1>5, <1>6, <1>7, <1>8, <1>9, <1>10, <1>11, <1>12, <1>13,
     <1>14, <1>15, <1>16, <1>17, <1>18, <1>19, <1>20, <1>21, <1>22, <1>23, <1>24,
     <1>25, <1>26 DEF Next, Server, Client, Frame

-----------------------------------------------------------------------------
(* Places of the ring: the list of frame k is Slot(k).                     *)

\* A number has one remainder.
LEMMA ModUnique ==
  ASSUME NEW b \in Nat \ {0}, NEW q \in Int, NEW r \in 0 .. b - 1
  PROVE  ((q * b) + r) % b = r
OBVIOUS

\* Quotient and remainder.
LEMMA DivMod ==
  ASSUME NEW a \in Nat, NEW b \in Nat \ {0}
  PROVE  \E q \in Int, r \in 0 .. b - 1 : a = (q * b) + r /\ a % b = r
<1>1. a = (b * (a \div b)) + (a % b) /\ a \div b \in Int
  OBVIOUS
<1>2. b * (a \div b) = (a \div b) * b
  OBVIOUS
<1> QED BY <1>1, <1>2, ModType

\* b more is one round more.
LEMMA OneRound ==
  ASSUME NEW b \in Nat \ {0}, NEW q \in Int, NEW x \in Int
  PROVE  (q * b) + b + x = ((q + 1) * b) + x
OBVIOUS

\* A place is in the ring, and the first frames are at their own.
LEMMA SlotType ==
  ASSUME NEW k \in Nat
  PROVE  Slot(k) \in 0 .. Delta - 1 /\ Slot(k) <= k /\ (k < Delta => Slot(k) = k)
<1>1. Delta \in Nat \ {0}
  BY NetplayAssumption
<1>2. k % Delta \in 0 .. Delta - 1
  BY <1>1, ModType
<1>3. k % Delta <= k
  BY <1>1
<1>4. k < Delta => k % Delta = k
  BY <1>1
<1> QED BY <1>2, <1>3, <1>4 DEF Slot

\* A place is used again Delta frames later ...
LEMMA SlotRound ==
  ASSUME NEW k \in Nat
  PROVE  Slot(k + Delta) = Slot(k)
<1>1. Delta \in Nat \ {0}
  BY NetplayAssumption
<1>2. PICK q \in Int, r \in 0 .. Delta - 1 : k = (q * Delta) + r /\ k % Delta = r
  BY <1>1, DivMod
<1>3. k + Delta = (q * Delta) + Delta + r
  BY <1>1, <1>2
<1>4. k + Delta = ((q + 1) * Delta) + r
  BY <1>1, <1>3, OneRound
<1>5. (((q + 1) * Delta) + r) % Delta = r
  BY <1>1, ModUnique
<1> QED BY <1>2, <1>4, <1>5 DEF Slot

\* ... the next frame has the next place ...
LEMMA SlotNext ==
  ASSUME NEW k \in Nat
  PROVE  (Slot(k) + 1) % Delta = Slot(k + 1)
<1>1. Delta \in Nat \ {0}
  BY NetplayAssumption
<1>2. PICK q \in Int, r \in 0 .. Delta - 1 : k = (q * Delta) + r /\ k % Delta = r
  BY <1>1, DivMod
<1>3. CASE r + 1 < Delta
  <2>1. k + 1 = (q * Delta) + (r + 1) /\ r + 1 \in 0 .. Delta - 1
    BY <1>1, <1>2, <1>3
  <2>2. ((q * Delta) + (r + 1)) % Delta = r + 1
    BY <1>1, <2>1, ModUnique
  <2>3. (r + 1) % Delta = r + 1
    BY <1>1, <2>1
  <2> QED BY <1>2, <2>1, <2>2, <2>3 DEF Slot
<1>4. CASE r + 1 = Delta
  <2>1. k + 1 = (q * Delta) + Delta + 0
    BY <1>1, <1>2, <1>4
  <2>2. k + 1 = ((q + 1) * Delta) + 0
    BY <1>1, <2>1, OneRound
  <2>3. (((q + 1) * Delta) + 0) % Delta = 0
    BY <1>1, ModUnique
  <2>4. Delta % Delta = 0
    BY <1>1
  <2> QED BY <1>2, <1>4, <2>2, <2>3, <2>4 DEF Slot
<1> QED BY <1>1, <1>3, <1>4

\* ... and frames less than Delta apart have different places.
LEMMA SlotApart ==
  ASSUME NEW j \in Nat, NEW k \in Nat, j < k, k - j < Delta
  PROVE  Slot(j) # Slot(k)
<1>1. Delta \in Nat \ {0}
  BY NetplayAssumption
<1>2. PICK q \in Int, r \in 0 .. Delta - 1 : j = (q * Delta) + r /\ j % Delta = r
  BY <1>1, DivMod
<1> DEFINE d == k - j
<1>3. d \in 1 .. Delta - 1 /\ k = j + d
  BY <1>1
<1> HIDE DEF d
<1>4. CASE r + d < Delta
  <2>1. k = (q * Delta) + (r + d) /\ r + d \in 0 .. Delta - 1
    BY <1>1, <1>2, <1>3, <1>4
  <2>2. ((q * Delta) + (r + d)) % Delta = r + d
    BY <1>1, <2>1, ModUnique
  <2> QED BY <1>2, <1>3, <2>1, <2>2 DEF Slot
<1>5. CASE r + d >= Delta
  <2> DEFINE x == r + d - Delta
  <2>1. k = (q * Delta) + Delta + x /\ x \in 0 .. Delta - 1
    BY <1>1, <1>2, <1>3, <1>5
  <2>4. x # r
    BY <1>1, <1>3
  <2> HIDE DEF x
  <2>2. k = ((q + 1) * Delta) + x
    BY <1>1, <2>1, OneRound
  <2>3. (((q + 1) * Delta) + x) % Delta = x
    BY <1>1, <2>1, ModUnique
  <2> QED BY <1>2, <2>2, <2>3, <2>4 DEF Slot
<1> QED BY <1>1, <1>3, <1>4, <1>5

-----------------------------------------------------------------------------
(* What a channel carries, when a message is sent or read.                 *)

\* A channel carries the lists when there is such a pos.
LEMMA CarriesBy ==
  ASSUME NEW ch, NEW lists, NEW r, NEW pos \in [r + 1 .. Len(lists) -> DOMAIN ch],
         \A j, k \in r + 1 .. Len(lists) : j < k => pos[j] < pos[k],
         \A k \in r + 1 .. Len(lists) : ch[pos[k]] = [type |-> "frame", list |-> lists[k]],
         \A i \in DOMAIN ch : ch[i].type = "frame" => \E k \in r + 1 .. Len(lists) : pos[k] = i
  PROVE  Carries(ch, lists, r)
BY Zenon DEF Carries

\* A channel without frames carries no list.
LEMMA CarriesNothing ==
  ASSUME NEW ch \in Seq(Message), \A i \in DOMAIN ch : ch[i].type # "frame"
  PROVE  Carries(ch, <<>>, 0)
<1> DEFINE pos == [k \in {} |-> 1]
<1>1. 0 + 1 .. Len(<<>>) = {}
  OBVIOUS
<1>2. pos \in [0 + 1 .. Len(<<>>) -> DOMAIN ch]
  BY <1>1
<1> HIDE DEF pos
<1> QED BY <1>1, <1>2, CarriesBy

\* A message of another type changes nothing when it is sent ...
LEMMA CarriesControl ==
  ASSUME NEW ch \in Seq(Message), NEW lists \in Seq(EventList), NEW r \in Nat,
         Carries(ch, lists, r), NEW m \in Message, m.type # "frame"
  PROVE  Carries(Append(ch, m), lists, r)
<1>1. PICK pos \in [r + 1 .. Len(lists) -> DOMAIN ch] :
        /\ \A j, k \in r + 1 .. Len(lists) : j < k => pos[j] < pos[k]
        /\ \A k \in r + 1 .. Len(lists) : ch[pos[k]] = [type |-> "frame", list |-> lists[k]]
        /\ \A i \in DOMAIN ch : ch[i].type = "frame" => \E k \in r + 1 .. Len(lists) : pos[k] = i
  BY DEF Carries
<1> DEFINE ch2 == Append(ch, m)
<1>2. /\ \A i \in DOMAIN ch : i \in DOMAIN ch2 /\ ch2[i] = ch[i]
      /\ \A i \in DOMAIN ch2 : i \in DOMAIN ch \/ ch2[i] = m
  BY AppendProperties
<1> HIDE DEF ch2
<1>3. pos \in [r + 1 .. Len(lists) -> DOMAIN ch2]
  BY <1>1, <1>2
<1>4. \A k \in r + 1 .. Len(lists) : ch2[pos[k]] = [type |-> "frame", list |-> lists[k]]
  BY <1>1, <1>2
<1>5. \A i \in DOMAIN ch2 : ch2[i].type = "frame" => \E k \in r + 1 .. Len(lists) : pos[k] = i
  BY <1>1, <1>2
<1>6. Carries(ch2, lists, r)
  BY <1>1, <1>3, <1>4, <1>5, CarriesBy
<1> QED BY <1>6 DEF ch2

\* ... a frame that is sent is the last one ...
LEMMA CarriesMore ==
  ASSUME NEW ch \in Seq(Message), NEW lists \in Seq(EventList), NEW r \in 0 .. Len(lists),
         Carries(ch, lists, r), NEW l \in EventList
  PROVE  Carries(Append(ch, [type |-> "frame", list |-> l]), Append(lists, l), r)
<1> DEFINE n == Len(lists)
           m == [type |-> "frame", list |-> l]
           ch2 == Append(ch, m)
           lists2 == Append(lists, l)
<1>1. PICK pos \in [r + 1 .. n -> DOMAIN ch] :
        /\ \A j, k \in r + 1 .. n : j < k => pos[j] < pos[k]
        /\ \A k \in r + 1 .. n : ch[pos[k]] = [type |-> "frame", list |-> lists[k]]
        /\ \A i \in DOMAIN ch : ch[i].type = "frame" => \E k \in r + 1 .. n : pos[k] = i
  BY DEF Carries
<1>2. /\ Len(ch) \in Nat /\ DOMAIN ch = 1 .. Len(ch)
      /\ DOMAIN ch2 = 1 .. Len(ch) + 1
      /\ \A i \in 1 .. Len(ch) : ch2[i] = ch[i]
      /\ ch2[Len(ch) + 1] = m
  BY MessageType, AppendProperties, LenProperties
<1>3. /\ n \in Nat /\ Len(lists2) = n + 1
      /\ \A k \in 1 .. n : lists2[k] = lists[k]
      /\ lists2[n + 1] = l
  BY AppendProperties, LenProperties
<1> DEFINE pos2 == [k \in r + 1 .. n + 1 |-> IF k = n + 1 THEN Len(ch) + 1 ELSE pos[k]]
<1> HIDE DEF ch2, lists2, n
<1>4. pos2 \in [r + 1 .. n + 1 -> DOMAIN ch2]
  BY <1>1, <1>2, <1>3
<1>5. \A k \in r + 1 .. n : pos2[k] = pos[k] /\ pos[k] \in 1 .. Len(ch)
  BY <1>1, <1>2, <1>3
<1>6. n + 1 \in r + 1 .. n + 1 /\ pos2[n + 1] = Len(ch) + 1
  BY <1>3 DEF n
<1> HIDE DEF pos2
<1>7. \A j, k \in r + 1 .. n + 1 : j < k => pos2[j] < pos2[k]
  <2> TAKE j, k \in r + 1 .. n + 1
  <2> HAVE j < k
  <2>1. j \in r + 1 .. n
    BY <1>3
  <2>2. CASE k = n + 1
    BY <1>2, <1>5, <1>6, <2>1, <2>2
  <2>3. CASE k # n + 1
    <3>1. k \in r + 1 .. n
      BY <1>3, <2>3
    <3> QED BY <1>1, <1>5, <2>1, <3>1
  <2> QED BY <2>2, <2>3
<1>8. \A k \in r + 1 .. n + 1 : ch2[pos2[k]] = [type |-> "frame", list |-> lists2[k]]
  <2> TAKE k \in r + 1 .. n + 1
  <2>1. CASE k = n + 1
    BY <1>2, <1>3, <1>6, <2>1
  <2>2. CASE k # n + 1
    <3>1. k \in r + 1 .. n /\ k \in 1 .. n
      BY <1>3, <2>2
    <3> QED BY <1>1, <1>2, <1>3, <1>5, <3>1
  <2> QED BY <2>1, <2>2
<1>9. \A i \in DOMAIN ch2 : ch2[i].type = "frame" => \E k \in r + 1 .. n + 1 : pos2[k] = i
  <2> TAKE i \in DOMAIN ch2
  <2>1. CASE i = Len(ch) + 1
    BY <1>6, <2>1
  <2>2. CASE i # Len(ch) + 1
    <3>1. i \in DOMAIN ch /\ ch2[i] = ch[i]
      BY <1>2, <2>2
    <3>2. r + 1 .. n \subseteq r + 1 .. n + 1
      BY <1>3
    <3> QED BY <1>1, <1>5, <3>1, <3>2
  <2> QED BY <2>1, <2>2
<1> DEFINE K == r + 1 .. n + 1
<1>10. K = r + 1 .. Len(lists2)
  BY <1>3
<1>11. /\ pos2 \in [K -> DOMAIN ch2]
       /\ \A j, k \in K : j < k => pos2[j] < pos2[k]
       /\ \A k \in K : ch2[pos2[k]] = [type |-> "frame", list |-> lists2[k]]
       /\ \A i \in DOMAIN ch2 : ch2[i].type = "frame" => \E k \in K : pos2[k] = i
  BY <1>4, <1>7, <1>8, <1>9
<1> HIDE DEF K
<1>12. Carries(ch2, lists2, r)
  BY <1>10, <1>11, CarriesBy
<1> QED BY <1>12 DEF ch2, lists2

\* ... a message of another type changes nothing when it is read ...
LEMMA CarriesAfterControl ==
  ASSUME NEW ch \in Seq(Message), NEW lists \in Seq(EventList), NEW r \in Nat,
         Carries(ch, lists, r), ch # <<>>, Head(ch).type # "frame"
  PROVE  Carries(Tail(ch), lists, r)
<1> DEFINE n == Len(lists)
           ch2 == Tail(ch)
<1>1. PICK pos \in [r + 1 .. n -> DOMAIN ch] :
        /\ \A j, k \in r + 1 .. n : j < k => pos[j] < pos[k]
        /\ \A k \in r + 1 .. n : ch[pos[k]] = [type |-> "frame", list |-> lists[k]]
        /\ \A i \in DOMAIN ch : ch[i].type = "frame" => \E k \in r + 1 .. n : pos[k] = i
  BY DEF Carries
<1>2. /\ Len(ch) \in Nat /\ DOMAIN ch = 1 .. Len(ch)
      /\ DOMAIN ch2 = 1 .. Len(ch) - 1
      /\ \A i \in 1 .. Len(ch) - 1 : ch2[i] = ch[i + 1]
      /\ Head(ch) = ch[1]
  BY HeadTailProperties, LenProperties
<1>3. n \in Nat
  BY LenProperties
<1> HIDE DEF ch2, n
<1>4. \A k \in r + 1 .. n : pos[k] \in 1 .. Len(ch) /\ pos[k] # 1
  <2> TAKE k \in r + 1 .. n
  <2>1. pos[k] \in 1 .. Len(ch)
    BY <1>1, <1>2
  <2>2. ch[pos[k]] = [type |-> "frame", list |-> lists[k]]
    BY <1>1
  <2>3. ch[pos[k]].type = "frame"
    BY <2>2
  <2> QED BY <1>2, <2>1, <2>3
<1> DEFINE pos2 == [k \in r + 1 .. n |-> pos[k] - 1]
<1>5. pos2 \in [r + 1 .. n -> DOMAIN ch2] /\ \A k \in r + 1 .. n : pos2[k] = pos[k] - 1
  BY <1>2, <1>4
<1> HIDE DEF pos2
<1>6. \A j, k \in r + 1 .. n : j < k => pos2[j] < pos2[k]
  BY <1>1, <1>4, <1>5
<1>7. \A k \in r + 1 .. n : ch2[pos2[k]] = [type |-> "frame", list |-> lists[k]]
  BY <1>1, <1>2, <1>4, <1>5
<1>8. \A i \in DOMAIN ch2 : ch2[i].type = "frame" => \E k \in r + 1 .. n : pos2[k] = i
  <2> TAKE i \in DOMAIN ch2
  <2> HAVE ch2[i].type = "frame"
  <2>1. i \in Nat /\ i + 1 \in DOMAIN ch /\ ch[i + 1].type = "frame"
    BY <1>2
  <2>2. PICK k \in r + 1 .. n : pos[k] = i + 1
    BY <1>1, <2>1
  <2> QED BY <1>5, <2>1, <2>2
<1>9. Carries(ch2, lists, r)
  BY <1>5, <1>6, <1>7, <1>8, CarriesBy DEF n
<1> QED BY <1>9 DEF ch2

\* ... and a frame that is read is the next one.
LEMMA CarriesNext ==
  ASSUME NEW ch \in Seq(Message), NEW lists \in Seq(EventList), NEW r \in Nat,
         Carries(ch, lists, r), ch # <<>>, Head(ch).type = "frame"
  PROVE  /\ r + 1 \in DOMAIN lists
         /\ Head(ch).list = lists[r + 1]
         /\ Carries(Tail(ch), lists, r + 1)
<1> DEFINE n == Len(lists)
           ch2 == Tail(ch)
<1>1. PICK pos \in [r + 1 .. n -> DOMAIN ch] :
        /\ \A j, k \in r + 1 .. n : j < k => pos[j] < pos[k]
        /\ \A k \in r + 1 .. n : ch[pos[k]] = [type |-> "frame", list |-> lists[k]]
        /\ \A i \in DOMAIN ch : ch[i].type = "frame" => \E k \in r + 1 .. n : pos[k] = i
  BY DEF Carries
<1>2. /\ Len(ch) \in Nat /\ DOMAIN ch = 1 .. Len(ch) /\ 1 \in DOMAIN ch
      /\ DOMAIN ch2 = 1 .. Len(ch) - 1
      /\ \A i \in 1 .. Len(ch) - 1 : ch2[i] = ch[i + 1]
      /\ Head(ch) = ch[1]
  BY HeadTailProperties, LenProperties
<1>3. n \in Nat /\ DOMAIN lists = 1 .. n
  BY LenProperties
<1> HIDE DEF ch2, n
<1>4. PICK first \in r + 1 .. n : pos[first] = 1
  BY <1>1, <1>2
<1>5. r + 1 \in r + 1 .. n /\ pos[r + 1] \in 1 .. Len(ch)
  BY <1>1, <1>2, <1>3, <1>4
<1>6. pos[r + 1] = 1
  <2>1. CASE first = r + 1
    BY <1>4, <2>1
  <2>2. CASE first # r + 1
    <3>1. r + 1 < first
      BY <1>3, <1>4, <2>2
    <3>2. pos[r + 1] < pos[first]
      BY <1>1, <1>4, <1>5, <3>1
    <3> QED BY <1>2, <1>4, <1>5, <3>2
  <2> QED BY <2>1, <2>2
<1>7. r + 1 \in DOMAIN lists /\ Head(ch).list = lists[r + 1]
  <2>1. Head(ch) = [type |-> "frame", list |-> lists[r + 1]]
    BY <1>1, <1>2, <1>5, <1>6
  <2>2. r + 1 \in DOMAIN lists
    BY <1>3, <1>5
  <2> QED BY <2>1, <2>2
<1>8. \A k \in r + 2 .. n : k \in r + 1 .. n /\ pos[k] \in 2 .. Len(ch)
  <2> TAKE k \in r + 2 .. n
  <2>1. k \in r + 1 .. n /\ r + 1 < k
    BY <1>3
  <2>2. pos[r + 1] < pos[k] /\ pos[k] \in 1 .. Len(ch)
    BY <1>1, <1>2, <1>5, <2>1
  <2> QED BY <1>2, <1>6, <2>1, <2>2
<1> DEFINE pos2 == [k \in (r + 1) + 1 .. n |-> pos[k] - 1]
<1>9. /\ (r + 1) + 1 .. n = r + 2 .. n
      /\ pos2 \in [(r + 1) + 1 .. n -> DOMAIN ch2]
      /\ \A k \in (r + 1) + 1 .. n : pos2[k] = pos[k] - 1
  BY <1>2, <1>8
<1> HIDE DEF pos2
<1>10. \A j, k \in (r + 1) + 1 .. n : j < k => pos2[j] < pos2[k]
  BY <1>1, <1>8, <1>9
<1>11. \A k \in (r + 1) + 1 .. n : ch2[pos2[k]] = [type |-> "frame", list |-> lists[k]]
  <2> TAKE k \in (r + 1) + 1 .. n
  <2>1. k \in r + 1 .. n /\ pos[k] \in 2 .. Len(ch) /\ pos2[k] = pos[k] - 1
    BY <1>8, <1>9
  <2>2. ch2[pos2[k]] = ch[pos[k]]
    BY <1>2, <2>1
  <2> QED BY <1>1, <2>1, <2>2
<1>12. \A i \in DOMAIN ch2 : ch2[i].type = "frame" => \E k \in (r + 1) + 1 .. n : pos2[k] = i
  <2> TAKE i \in DOMAIN ch2
  <2> HAVE ch2[i].type = "frame"
  <2>1. i \in Nat /\ i \in 1 .. Len(ch) - 1 /\ i + 1 \in DOMAIN ch /\ ch[i + 1].type = "frame"
    BY <1>2
  <2>2. PICK k \in r + 1 .. n : pos[k] = i + 1
    BY <1>1, <2>1
  <2>3. k # r + 1
    BY <1>6, <2>1, <2>2
  <2>4. k \in (r + 1) + 1 .. n
    BY <1>3, <2>2, <2>3
  <2>5. pos2[k] = i
    BY <1>9, <2>1, <2>2, <2>4
  <2> QED BY <2>4, <2>5
<1>13. Carries(ch2, lists, r + 1)
  BY <1>9, <1>10, <1>11, <1>12, CarriesBy DEF n
<1> QED BY <1>7, <1>13 DEF ch2

-----------------------------------------------------------------------------
(* A step that leaves a peer's session alone.                              *)

\* Its ring and its machine are left alone, and it enters no session.
Calm(p) ==
  /\ machine'[p] = machine[p] /\ sent'[p] = sent[p]
  /\ list'[p] = list[p] /\ current'[p] = current[p] /\ toPlay'[p] = toPlay[p] /\ full'[p] = full[p]
  /\ Live(p)' => Live(p)
  /\ InSession(p)' =>
       /\ InSession(p)
       /\ Connected(p)' => Connected(p)
       /\ pc'[p] = "receive" => pc[p] = "receive"
       /\ pc'[p] = "run" /\ Connected(p)' => pc[p] \in {"run", "receive"}
       /\ pc'[p] \in {"run", "receive"} /\ Live(p)' => pc'[p] = pc[p]

\* It gets no frame and reads none.
Heard(p) ==
  Live(p)' =>
    \/ chan'[p] = chan[p]
    \/ \E m \in Message : m.type # "frame" /\ chan'[p] = Append(chan[p], m)
    \/ chan[p] # <<>> /\ Head(chan[p]).type # "frame" /\ chan'[p] = Tail(chan[p])

\* The lengths are numbers.
LEMMA Lens ==
  ASSUME TypeOK, NEW p \in Peer
  PROVE  /\ Len(sent[p]) \in Nat /\ DOMAIN sent[p] = 1 .. Len(sent[p])
         /\ Len(machine[p]) \in Nat /\ DOMAIN machine[p] = 1 .. Len(machine[p])
<1>1. sent[p] \in Seq(EventList) /\ machine[p] \in Seq(Seq(Seq(Event)))
  BY DEF TypeOK, Machine
<1> QED BY <1>1, LenProperties

\* Such a step keeps what is said of the ring ...
LEMMA CalmOwn ==
  ASSUME TypeOK, NEW p \in Peer, Counts(p), Ring(p), OwnLists(p), Calm(p)
  PROVE  Counts(p)' /\ Ring(p)' /\ OwnLists(p)'
<1>1. Counts(p)'
  BY DEF Counts, Calm
<1>2. Ring(p)'
  <2>1. SUFFICES ASSUME InSession(p)', pc'[p] = "receive" \/ (pc'[p] = "run" /\ Connected(p)')
                 PROVE  Ring(p)'
    BY DEF Ring
  <2>2. InSession(p) /\ (pc[p] = "receive" \/ (pc[p] = "run" /\ Connected(p)))
    BY <2>1 DEF Calm
  <2>3. pc'[p] = "receive" => pc[p] = "receive" /\ (Connected(p)' => Connected(p))
    BY <2>1 DEF Calm
  <2> QED BY <2>1, <2>2, <2>3 DEF Ring, Calm
<1>3. OwnLists(p)'
  <2>1. Live(p)' => InSession(p)'
    BY DEF Live, InSession
  <2> QED BY <2>1 DEF OwnLists, Calm
<1> QED BY <1>1, <1>2, <1>3

\* ... of what has been played, which new frames do not change either ...
LEMMA CalmSame ==
  ASSUME TypeOK, NEW p \in Peer, Same(p), InSession(p)' => InSession(p), machine'[p] = machine[p],
         \A q \in Peer : \A k \in DOMAIN sent[q] : k \in DOMAIN sent'[q] /\ sent'[q][k] = sent[q][k]
  PROVE  Same(p)'
<1>1. SUFFICES ASSUME InSession(p), NEW k \in DOMAIN machine[p]
               PROVE  IF k < Delta THEN machine[p][k] = <<>>
                      ELSE /\ \A q \in Peer : k - Delta + 1 \in DOMAIN sent'[q]
                           /\ machine[p][k] = <<sent'["server"][k - Delta + 1].events,
                                                sent'["client"][k - Delta + 1].events>>
  BY DEF Same
<1>2. CASE k < Delta
  BY <1>1, <1>2 DEF Same
<1>3. CASE ~ (k < Delta)
  <2>1. /\ \A q \in Peer : k - Delta + 1 \in DOMAIN sent[q]
        /\ machine[p][k] = <<sent["server"][k - Delta + 1].events,
                             sent["client"][k - Delta + 1].events>>
    BY <1>1, <1>3 DEF Same
  <2> QED BY <1>3, <2>1 DEF Peer
<1> QED BY <1>2, <1>3

\* ... and of the channel.
LEMMA CalmChannel ==
  ASSUME TypeOK, NEW p \in Peer, Channel(p), Live(p)' => Live(p), machine'[p] = machine[p],
         sent'[Other(p)] = sent[Other(p)], Heard(p)
  PROVE  Channel(p)'
<1>1. SUFFICES ASSUME Live(p)' PROVE Carries(chan'[p], sent[Other(p)], Taken(p))
  BY DEF Channel, Taken
<1>2. Carries(chan[p], sent[Other(p)], Taken(p))
  BY <1>1 DEF Channel
<1>3. chan[p] \in Seq(Message) /\ sent[Other(p)] \in Seq(EventList)
  BY DEF TypeOK, Other, Peer
<1>4. Taken(p) \in Nat
  BY Lens, NetplayAssumption DEF Taken
<1>5. CASE chan'[p] = chan[p]
  BY <1>2, <1>5
<1>6. ASSUME NEW m \in Message, m.type # "frame", chan'[p] = Append(chan[p], m)
      PROVE  Carries(chan'[p], sent[Other(p)], Taken(p))
  BY <1>2, <1>3, <1>4, <1>6, CarriesControl
<1>7. CASE chan[p] # <<>> /\ Head(chan[p]).type # "frame" /\ chan'[p] = Tail(chan[p])
  BY <1>2, <1>3, <1>4, <1>7, CarriesAfterControl
<1> QED BY <1>1, <1>5, <1>6, <1>7 DEF Heard

\* So does a step that leaves both peers alone.
LEMMA QuietStep ==
  ASSUME TypeOK, DataInv, \A p \in Peer : Calm(p) /\ Heard(p)
  PROVE  DataInv'
<1>1. SUFFICES ASSUME NEW p \in Peer
               PROVE  (Counts(p) /\ Ring(p) /\ OwnLists(p) /\ Channel(p) /\ Same(p))'
  BY DEF DataInv
<1>2. Counts(p)' /\ Ring(p)' /\ OwnLists(p)'
  BY CalmOwn DEF DataInv
<1>3. \A q \in Peer : sent'[q] = sent[q]
  BY DEF Calm
<1>4. Live(p)' => Live(p)
  BY DEF Calm
<1>5. InSession(p)' => InSession(p)
  BY DEF Calm
<1>6. machine'[p] = machine[p]
  BY DEF Calm
<1>7. Channel(p)'
  <2>1. Other(p) \in Peer
    BY DEF Other, Peer
  <2> QED BY <1>3, <1>4, <1>6, <2>1, CalmChannel DEF DataInv
<1>8. Same(p)'
  BY <1>3, <1>5, <1>6, CalmSame DEF DataInv
<1> QED BY <1>2, <1>7, <1>8

\* The messages of other types leave the frames alone: sent, ...
LEMMA SendHeard ==
  ASSUME TypeOK, NEW p \in Peer, NEW m \in Message, m.type # "frame", Send(p, m), NEW r \in Peer
  PROVE  Heard(r)
<1>1. chan'[r] = chan[r] \/ chan'[r] = Append(chan[r], m)
  BY DEF Send, TypeOK
<1> QED BY <1>1 DEF Heard

\* ... answered ...
LEMMA AnswerHeard ==
  ASSUME TypeOK, NEW p \in Peer, NEW m \in Message, m.type # "frame", Answer(p, m),
         chan[p] # <<>>, Head(chan[p]).type # "frame", NEW r \in Peer
  PROVE  Heard(r)
<1>1. CASE r = p
  <2>1. chan'[r] = Tail(chan[r])
    BY <1>1 DEF Answer, TypeOK, Other, Peer
  <2> QED BY <1>1, <2>1 DEF Heard
<1>2. CASE r # p
  <2>1. chan'[r] = chan[r] \/ chan'[r] = Append(chan[r], m)
    BY <1>2 DEF Answer, TypeOK, Other, Peer
  <2> QED BY <2>1 DEF Heard
<1> QED BY <1>1, <1>2

\* ... and read.
LEMMA ReadHeard ==
  ASSUME TypeOK, NEW p \in Peer, Read(p), chan[p] # <<>>, Head(chan[p]).type # "frame", NEW r \in Peer
  PROVE  Heard(r)
BY DEF Heard, Read, TypeOK

\* Nothing is said of a peer that is in no session.
LEMMA OutOfSession ==
  ASSUME NEW p \in Peer, ~ InSession(p)'
  PROVE  (Counts(p) /\ Ring(p) /\ OwnLists(p) /\ Channel(p) /\ Same(p))'
<1>1. ~ Live(p)'
  BY DEF Live, InSession
<1> QED BY <1>1 DEF Counts, Ring, OwnLists, Channel, Same

\* A session that has just begun.
LEMMA FreshOwn ==
  ASSUME NEW p \in Peer, machine'[p] = <<>>, sent'[p] = <<>>, pc'[p] \notin {"run", "receive"}
  PROVE  Counts(p)' /\ Ring(p)' /\ OwnLists(p)' /\ Same(p)'
<1>1. Counts(p)'
  BY DEF Counts
<1>2. Ring(p)' /\ OwnLists(p)'
  BY DEF Ring, OwnLists
<1>3. Same(p)'
  BY DEF Same
<1> QED BY <1>1, <1>2, <1>3

\* network_init_frame_event_list() begins the ring of a session in which nothing has
\* been played.
LEMMA RestartStep ==
  ASSUME TypeOK, ControlInv, DataInv, NEW p \in Peer, pc[p] \in {"ping", "test"},
         InitFrameEventList(p), Goto(p, "run"), UNCHANGED <<mode, link, session, sent, machine>>,
         Offered' => Offered, \A r \in Peer : Heard(r)
  PROVE  DataInv'
<1>1. machine[p] = <<>> /\ sent[p] = <<>>
  BY DEF ControlInv
<1>2. \A r \in Peer : /\ InSession(r)' => InSession(r)
                      /\ Live(r)' <=> Live(r)
                      /\ Connected(r)' <=> Connected(r)
  BY DEF InSession, SameSession, Live, Connected, CanSend
<1>3. \A r \in Peer : Channel(r)' /\ Same(r)'
  <2>1. \A r \in Peer : Other(r) \in Peer
    BY DEF Other, Peer
  <2> QED BY <1>2, <2>1, CalmChannel, CalmSame DEF DataInv
<1>4. Counts(p)' /\ Ring(p)' /\ OwnLists(p)'
  <2>1. pc'[p] = "run" /\ current'[p] = 0 /\ full'[p] = FALSE /\ machine'[p] = <<>> /\ sent'[p] = <<>>
    BY <1>1 DEF InitFrameEventList, Goto, TypeOK
  <2>2. Slot(0) = 0 /\ Delta \in Nat /\ Delta > 1
    BY SlotType, NetplayAssumption
  <2>3. Len(<<>>) = 0 /\ DOMAIN <<>> = {}
    OBVIOUS
  <2>4. Counts(p)'
    BY <2>1, <2>3 DEF Counts
  <2>5. Ring(p)'
    BY <2>1, <2>2, <2>3 DEF Ring
  <2>6. OwnLists(p)'
    BY <2>1, <2>3 DEF OwnLists
  <2> QED BY <2>4, <2>5, <2>6
<1>5. ASSUME NEW r \in Peer, r # p
      PROVE  Counts(r)' /\ Ring(r)' /\ OwnLists(r)'
  <2>1. pc'[r] = pc[r]
    BY <1>5 DEF Goto, TypeOK
  <2>2. list'[r] = list[r] /\ current'[r] = current[r] /\ toPlay'[r] = toPlay[r] /\ full'[r] = full[r]
    BY <1>5 DEF InitFrameEventList, TypeOK
  <2>3. Calm(r)
    BY <1>2, <2>1, <2>2 DEF Calm
  <2> QED BY <2>3, CalmOwn DEF DataInv
<1> QED BY <1>3, <1>4, <1>5 DEF DataInv

\* What is recorded goes to the current frame, which has not been sent.
LEMMA RecordStep ==
  ASSUME TypeOK, DataInv, NEW p \in Peer, pc[p] = "run", list[p] # NoList, NEW l,
         list' = [list EXCEPT ![p] = [list[p] EXCEPT ![current[p]] = l]],
         UNCHANGED <<pc, mode, link, chan, session, sent, machine, current, toPlay, full>>
  PROVE  DataInv'
<1>1. \A r \in Peer : /\ InSession(r)' <=> InSession(r)
                      /\ Live(r)' <=> Live(r)
                      /\ Connected(r)' <=> Connected(r)
  BY DEF InSession, SameSession, Offered, InOpening, Live, Connected, CanSend
<1>2. \A r \in Peer : Counts(r)' /\ Ring(r)' /\ Channel(r)' /\ Same(r)'
  BY <1>1 DEF DataInv, Counts, Ring, Channel, Same, Taken
<1>3. ASSUME NEW r \in Peer, r # p
      PROVE  OwnLists(r)'
  <2>1. list'[r] = list[r]
    BY <1>3 DEF TypeOK
  <2> QED BY <1>1, <2>1 DEF DataInv, OwnLists
<1>4. OwnLists(p)'
  <2>1. SUFFICES ASSUME Live(p)
                 PROVE  /\ Len(sent[p]) = Len(machine[p])
                        /\ \A k \in DOMAIN sent[p] :
                             k + Delta >= Len(machine[p]) + 2 => list'[p][Slot(k - 1)] = sent[p][k]
    BY <1>1 DEF OwnLists
  <2> DEFINE m == Len(machine[p])
  <2>2. Len(sent[p]) = m
    BY <2>1 DEF DataInv, OwnLists
  <2>3. current[p] = Slot(m)
    BY <2>1 DEF DataInv, Ring, Live, InSession
  <2>4. m \in Nat /\ DOMAIN sent[p] = 1 .. m
    BY <2>2, Lens
  <2>5. ASSUME NEW k \in DOMAIN sent[p], k + Delta >= m + 2
        PROVE  list'[p][Slot(k - 1)] = sent[p][k]
    <3>1. list[p][Slot(k - 1)] = sent[p][k]
      BY <2>1, <2>5 DEF DataInv, OwnLists
    <3> HIDE DEF m
    <3>2. k - 1 \in Nat /\ k - 1 < m /\ m - (k - 1) < Delta
      BY <2>4, <2>5, NetplayAssumption
    <3>3. Slot(k - 1) # current[p]
      BY <2>3, <2>4, <3>2, SlotApart
    <3>4. Slot(k - 1) \in 0 .. Delta - 1
      BY <3>2, SlotType
    <3>5. list[p] \in [0 .. Delta - 1 -> EventList]
      BY AllocType
    <3>6. list'[p] = [list[p] EXCEPT ![current[p]] = l]
      BY DEF TypeOK
    <3> QED BY <3>1, <3>3, <3>4, <3>5, <3>6
  <2> QED BY <2>2, <2>5
<1> QED BY <1>2, <1>3, <1>4 DEF DataInv

\* When HookSend(p) has set frame_buffer_full, it is so from frame Delta - 1 on.
LEMMA RingFull ==
  ASSUME TypeOK, NEW p \in Peer, InSession(p), pc[p] = "run", Connected(p), Ring(p),
         full' = [full EXCEPT ![p] = @ \/ current[p] = Delta - 1]
  PROVE  /\ full'[p] => Len(machine[p]) >= Delta - 1
         /\ Len(machine[p]) >= Delta - 1 => full'[p]
<1> DEFINE m == Len(machine[p])
<1>1. /\ current[p] = Slot(m)
      /\ full[p] => m >= Delta - 1
      /\ m >= Delta => full[p]
  BY DEF Ring
<1>2. m \in Nat /\ Delta \in Nat
  BY Lens, NetplayAssumption
<1>3. full'[p] <=> (full[p] \/ current[p] = Delta - 1)
  BY DEF TypeOK
<1> HIDE DEF m
<1>4. Slot(m) <= m /\ (m < Delta => Slot(m) = m) /\ Slot(m) \in 0 .. Delta - 1
  BY <1>2, SlotType
<1>5. full'[p] => m >= Delta - 1
  BY <1>1, <1>2, <1>3, <1>4
<1>6. m >= Delta - 1 => full'[p]
  <2>1. CASE m >= Delta
    BY <1>1, <1>3, <2>1
  <2>2. CASE m = Delta - 1
    BY <1>1, <1>2, <1>3, <1>4, <2>2
  <2> QED BY <1>2, <2>1, <2>2
<1> QED BY <1>5, <1>6 DEF m

\* A peer that sends a frame is in a session that both are in, and whoever
\* still reads gets the frame.
LEMMA SenderIsLive ==
  ASSUME TypeOK, OpeningInv, NEW p \in Peer, InSession(p), pc[p] \in {"run", "receive"},
         Connected(p), CanSend(p), pc[p] = "receive" => chan[p] # <<>>
  PROVE  Live(p)
<1>1. CASE SameSession
  BY <1>1 DEF Live
<1>2. CASE p = "server" /\ Offered
  <2>1. link["server"] = "up"
    BY <1>2 DEF OpeningInv, Offered, CanSend
  <2> QED BY <1>2, <2>1 DEF OpeningInv, Offered
<1> QED BY <1>1, <1>2 DEF InSession

\* The other half: an end that can be written to is up when the other peer is live.
LEMMA ReaderIsSentTo ==
  ASSUME LinkInv, OpeningInv, NEW p \in Peer, NEW q \in Peer, q # p,
         CanSend(p), Live(q)
  PROVE  link[p] = "up"
BY DEF LinkInv, OpeningInv, InOpening, CanSend, Live, Connected, Peer

\* A frame is sent: it is the last in the ring and in the channel.
LEMMA SendFrameStep ==
  ASSUME TypeOK, LinkInv, OpeningInv, DataInv, NEW p \in Peer, pc[p] = "run", Connected(p),
         list[p] # NoList, CanSend(p),
         full' = [full EXCEPT ![p] = @ \/ current[p] = Delta - 1],
         Send(p, [type |-> "frame", list |-> list[p][current[p]]]),
         sent' = [sent EXCEPT ![p] = Append(@, list[p][current[p]])],
         Goto(p, "receive"),
         UNCHANGED <<mode, list, current, toPlay, machine, session>>,
         Offered' => Offered
  PROVE  DataInv'
<1> DEFINE own == list[p][current[p]]
           msg == [type |-> "frame", list |-> own]
<1>1. own \in EventList /\ msg \in Message
  BY AllocType, MessageType DEF TypeOK
<1>2. sent'[p] = Append(sent[p], own) /\ Send(p, msg)
  BY DEF TypeOK
<1>3. PICK q \in Peer : q # p
  BY DEF Peer
<1>4. sent'[q] = sent[q] /\ q = Other(p) /\ p = Other(q)
  BY <1>3 DEF TypeOK, Other, Peer
<1>5. /\ Len(sent'[p]) = Len(sent[p]) + 1 /\ DOMAIN sent'[p] = 1 .. Len(sent[p]) + 1
      /\ \A k \in 1 .. Len(sent[p]) : sent'[p][k] = sent[p][k]
      /\ sent'[p][Len(sent[p]) + 1] = own
  BY <1>1, <1>2, AppendProperties, LenProperties DEF TypeOK
<1>6. /\ link' = link /\ chan'[p] = chan[p]
      /\ chan'[q] = IF link[p] = "up" THEN Append(chan[q], msg) ELSE chan[q]
  BY <1>2, <1>4 DEF Send, TypeOK
<1>7. pc'[p] = "receive" /\ pc'[q] = pc[q]
  BY <1>3 DEF Goto, TypeOK
<1>8. \A r \in Peer : /\ InSession(r)' => InSession(r)
                      /\ Live(r)' <=> Live(r)
                      /\ Connected(r)' <=> Connected(r)
  BY <1>6 DEF InSession, SameSession, Live, Connected, CanSend
<1>9. \A r \in Peer : Len(sent[r]) \in Nat /\ DOMAIN sent[r] = 1 .. Len(sent[r]) /\ Len(machine[r]) \in Nat
  BY Lens
<1> HIDE DEF own, msg
<1>10. \A r \in Peer : Same(r)'
  <2>1. \A r \in Peer : \A k \in DOMAIN sent[r] : k \in DOMAIN sent'[r] /\ sent'[r][k] = sent[r][k]
    BY <1>3, <1>4, <1>5, <1>9 DEF Peer
  <2> QED BY <1>8, <2>1, CalmSame DEF DataInv
<1>11. Channel(p)'
  BY <1>4, <1>6, <1>8 DEF DataInv, Channel, Taken
<1>12. Channel(q)'
  <2>1. SUFFICES ASSUME Live(q)
                 PROVE  Carries(chan'[q], sent'[p], Taken(q))
    BY <1>4, <1>8 DEF Channel, Taken
  <2>2. Carries(chan[q], sent[p], Taken(q))
    BY <1>4, <2>1 DEF DataInv, Channel
  <2>3. chan'[q] = Append(chan[q], msg)
    BY <1>3, <1>6, <2>1, ReaderIsSentTo
  <2>4. Taken(q) \in 0 .. Len(sent[p])
    <3>1. CASE Len(machine[q]) < Delta
      BY <1>9, <3>1 DEF Taken
    <3>2. CASE ~ (Len(machine[q]) < Delta)
      <4>1. Len(machine[q]) \in DOMAIN machine[q]
        BY <3>2, Lens, NetplayAssumption
      <4>2. Len(machine[q]) - Delta + 1 \in DOMAIN sent[p]
        BY <2>1, <3>2, <4>1 DEF DataInv, Same, Live, InSession
      <4> QED BY <1>9, <3>2, <4>2 DEF Taken
    <3> QED BY <3>1, <3>2
  <2>5. chan[q] \in Seq(Message) /\ sent[p] \in Seq(EventList)
    BY DEF TypeOK
  <2> QED BY <1>1, <1>2, <2>2, <2>3, <2>4, <2>5, CarriesMore DEF msg
<1>13. Counts(q)' /\ Ring(q)' /\ OwnLists(q)'
  <2>1. full'[q] = full[q]
    BY <1>3 DEF TypeOK
  <2>2. Calm(q)
    BY <1>4, <1>7, <1>8, <2>1 DEF Calm
  <2> QED BY <2>2, CalmOwn DEF DataInv
<1>14. Counts(p)' /\ Ring(p)' /\ OwnLists(p)'
  <2>1. CASE ~ InSession(p)
    BY <1>8, <2>1, OutOfSession
  <2>2. CASE InSession(p)
    <3> DEFINE m == Len(machine[p])
    <3>1. Live(p)
      BY <2>2, SenderIsLive
    <3>2. Len(sent[p]) = m /\ m \in Nat /\ Delta \in Nat
      BY <1>9, <3>1, NetplayAssumption DEF DataInv, OwnLists
    <3>3. current[p] = Slot(m) /\ (m >= 1 => toPlay[p] = Slot(m + 1))
      BY <2>2 DEF DataInv, Ring
    <3>4. (full'[p] => m >= Delta - 1) /\ (m >= Delta - 1 => full'[p])
      BY <2>2, RingFull DEF DataInv
    <3> HIDE DEF m
    <3>5. Counts(p)'
      BY <1>5, <3>2 DEF Counts, m
    <3>6. Ring(p)'
      <4>1. m >= Delta => full'[p]
        BY <3>2, <3>4
      <4> QED BY <1>5, <1>7, <3>2, <3>3, <3>4, <4>1 DEF Ring, m
    <3>7. \A k \in DOMAIN sent'[p] :
            k + Delta >= m + 2 => list[p][Slot(k - 1)] = sent'[p][k]
      <4> TAKE k \in DOMAIN sent'[p]
      <4> HAVE k + Delta >= m + 2
      <4>1. CASE k = m + 1
        <5>1. k - 1 = m
          BY <3>2, <4>1
        <5> QED BY <1>5, <3>2, <3>3, <4>1, <5>1 DEF own
      <4>2. CASE k # m + 1
        <5>1. k \in DOMAIN sent[p] /\ sent'[p][k] = sent[p][k]
          BY <1>5, <1>9, <3>2, <4>2
        <5> QED BY <3>1, <5>1 DEF DataInv, OwnLists, m
      <4> QED BY <4>1, <4>2
    <3>8. OwnLists(p)'
      BY <1>5, <1>7, <3>2, <3>7 DEF OwnLists, m
    <3> QED BY <3>5, <3>6, <3>8
  <2> QED BY <2>1, <2>2
<1> QED BY <1>3, <1>10, <1>11, <1>12, <1>13, <1>14 DEF DataInv, Peer

\* A frame cannot be sent: the peer leaves the session, and plays one more frame.
LEMMA SendFailsStep ==
  ASSUME TypeOK, LinkInv, OpeningInv, DataInv, NEW p \in Peer, pc[p] = "run", Connected(p),
         ~ CanSend(p), Disconnect(p, "receive"),
         full' = [full EXCEPT ![p] = @ \/ current[p] = Delta - 1],
         UNCHANGED <<list, current, toPlay, machine, session, sent>>,
         Offered' => Offered
  PROVE  DataInv'
<1>1. PICK q \in Peer : q # p
  BY DEF Peer
<1>2. /\ link'[p] = "none" /\ chan'[q] = chan[q]
      /\ link'[q] = link[q] \/ link'[q] = "reset"
      /\ mode'[q] = mode[q] /\ pc'[q] = pc[q]
      /\ pc'[p] \in {"abort", "receive"}
      /\ pc'[p] = "receive" => ~ Connected(p)'
  <2>1. link[p] # "up"
    BY DEF CanSend
  <2> QED BY <1>1, <2>1, DisconnectEffect DEF Connected
<1>3. \A r \in Peer : InSession(r)' => InSession(r)
  BY DEF InSession, SameSession
<1>4. ~ Live(p)' /\ (Live(q)' => Live(q)) /\ (Connected(q)' <=> Connected(q))
  BY <1>2 DEF Live, SameSession, Connected, CanSend
<1>5. \A r \in Peer : Same(r)'
  BY <1>3, CalmSame DEF DataInv
<1>6. Channel(p)' /\ Channel(q)'
  BY <1>2, <1>4 DEF DataInv, Channel, Taken
<1>7. Counts(q)' /\ Ring(q)' /\ OwnLists(q)'
  <2>1. full'[q] = full[q]
    BY <1>1 DEF TypeOK
  <2>2. Calm(q)
    BY <1>2, <1>3, <1>4, <2>1 DEF Calm
  <2> QED BY <2>2, CalmOwn DEF DataInv
<1>8. Counts(p)' /\ OwnLists(p)'
  BY <1>3, <1>4 DEF DataInv, Counts, OwnLists
<1>9. Ring(p)'
  <2>1. CASE ~ InSession(p)
    BY <1>3, <2>1 DEF Ring
  <2>2. CASE InSession(p)
    <3>1. (full'[p] => Len(machine[p]) >= Delta - 1) /\ (Len(machine[p]) >= Delta - 1 => full'[p])
      BY <2>2, RingFull DEF DataInv
    <3>2. Len(machine[p]) \in Nat /\ Delta \in Nat
      BY Lens, NetplayAssumption
    <3>3. Len(machine[p]) >= Delta => full'[p]
      BY <3>1, <3>2
    <3>4. /\ Len(sent[p]) >= Len(machine[p])
          /\ current[p] = Slot(Len(machine[p]))
          /\ Len(machine[p]) >= 1 => toPlay[p] = Slot(Len(machine[p]) + 1)
      BY <2>2 DEF DataInv, Ring
    <3> QED BY <1>2, <3>1, <3>2, <3>3, <3>4 DEF Ring
  <2> QED BY <2>1, <2>2
<1> QED BY <1>1, <1>5, <1>6, <1>7, <1>8, <1>9 DEF DataInv, Peer

\* A frame has been played: the next one is recorded where the oldest one was.
LEMMA NextFrameOwn ==
  ASSUME TypeOK, NEW p \in Peer, pc[p] = "receive", list[p] # NoList, PrepareNextFrame(p),
         Counts(p), Ring(p), OwnLists(p),
         NEW turn \in Seq(Seq(Event)), machine'[p] = Append(machine[p], turn),
         sent'[p] = sent[p], full'[p] = full[p], pc'[p] \in {"run", "abort"},
         InSession(p)' => InSession(p), Live(p)' => Live(p), Connected(p)' => Connected(p)
  PROVE  Counts(p)' /\ Ring(p)' /\ OwnLists(p)'
<1> SUFFICES ASSUME InSession(p)
             PROVE  Counts(p)' /\ Ring(p)' /\ OwnLists(p)'
  BY OutOfSession
<1> DEFINE m == Len(machine[p])
           n == Len(sent[p])
<1>1. m \in Nat /\ n \in Nat /\ DOMAIN sent[p] = 1 .. n /\ Delta \in Nat /\ Delta > 1
  BY Lens, NetplayAssumption
<1>2. Len(machine'[p]) = m + 1
  BY AppendProperties DEF TypeOK, Machine
<1>3. /\ n >= m /\ n <= m + 1
      /\ Connected(p) => n = m + 1
      /\ current[p] = Slot(m)
      /\ full[p] => m >= Delta - 1
      /\ m >= Delta \/ m = Delta - 1 => full[p]
  BY DEF Counts, Ring
<1>4. Live(p) => \A k \in DOMAIN sent[p] : k + Delta >= m + 2 => list[p][Slot(k - 1)] = sent[p][k]
  BY DEF OwnLists
<1> HIDE DEF m, n
<1>5. current'[p] = Slot(m + 1) /\ toPlay'[p] = Slot((m + 1) + 1)
  <2>1. current'[p] = (current[p] + 1) % Delta /\ toPlay'[p] = (current'[p] + 1) % Delta
    BY DEF PrepareNextFrame, TypeOK
  <2>2. (Slot(m) + 1) % Delta = Slot(m + 1) /\ (Slot(m + 1) + 1) % Delta = Slot((m + 1) + 1)
    <3>1. m + 1 \in Nat
      BY <1>1
    <3>2. \A x \in Nat : (Slot(x) + 1) % Delta = Slot(x + 1)
      BY SlotNext
    <3>3. (Slot(m) + 1) % Delta = Slot(m + 1)
      BY <1>1, <3>2
    <3>4. (Slot(m + 1) + 1) % Delta = Slot((m + 1) + 1)
      BY <3>1, <3>2
    <3> QED BY <3>3, <3>4
  <2> QED BY <1>3, <2>1, <2>2
<1>6. Counts(p)'
  BY <1>1, <1>2, <1>3 DEF Counts, n
<1>7. Ring(p)'
  <2>1. /\ full'[p] => m + 1 >= Delta - 1
        /\ m + 1 >= Delta => full'[p]
    BY <1>1, <1>3
  <2>2. Connected(p)' => Len(sent'[p]) >= m + 1
    BY <1>1, <1>3 DEF n
  <2> QED BY <1>2, <1>5, <2>1, <2>2 DEF Ring
<1>8. OwnLists(p)'
  <2>1. SUFFICES ASSUME Live(p)
                 PROVE  /\ n = m + 1
                        /\ \A k \in DOMAIN sent[p] :
                             k + Delta >= (m + 1) + 2 => list'[p][Slot(k - 1)] = sent[p][k]
    BY <1>2 DEF OwnLists, n
  <2>2. n = m + 1
    BY <1>3, <2>1 DEF Live
  <2>3. ASSUME NEW k \in DOMAIN sent[p], k + Delta >= (m + 1) + 2
        PROVE  list'[p][Slot(k - 1)] = sent[p][k]
    <3>1. k - 1 \in Nat /\ k - 1 < m + 1 /\ (m + 1) - (k - 1) < Delta /\ k + Delta >= m + 2
      BY <1>1, <2>2, <2>3
    <3>2. list[p][Slot(k - 1)] = sent[p][k]
      BY <1>4, <2>1, <3>1
    <3>3. Slot(k - 1) # current'[p] /\ Slot(k - 1) \in 0 .. Delta - 1
      <4> DEFINE j == k - 1
                 x == m + 1
      <4>1. j \in Nat /\ x \in Nat /\ j < x /\ x - j < Delta /\ current'[p] = Slot(x)
        BY <1>1, <1>5, <3>1
      <4> HIDE DEF j, x
      <4>2. Slot(j) # Slot(x)
        BY <4>1, SlotApart
      <4>3. Slot(j) \in 0 .. Delta - 1
        BY <4>1, SlotType
      <4> QED BY <4>1, <4>2, <4>3 DEF j
    <3>4. list[p] \in [0 .. Delta - 1 -> EventList]
      BY AllocType
    <3>5. list'[p] = [list[p] EXCEPT ![current'[p]] = Empty]
      BY DEF PrepareNextFrame, TypeOK
    <3> QED BY <3>2, <3>3, <3>4, <3>5
  <2> QED BY <2>2, <2>3
<1> QED BY <1>6, <1>7, <1>8

\* The first frames play nothing.
LEMMA SkipStep ==
  ASSUME TypeOK, ControlInv, DataInv, NEW p \in Peer, SkipReceive(p)
  PROVE  DataInv'
<1>1. PICK q \in Peer : q # p
  BY DEF Peer
<1>2. /\ pc[p] = "receive" /\ ~ full[p] /\ list[p] # NoList /\ PrepareNextFrame(p)
      /\ UNCHANGED <<full, mode, link, chan, session, sent>>
      /\ machine'[p] = Append(machine[p], <<>>) /\ machine'[q] = machine[q]
      /\ pc'[p] = "run" /\ pc'[q] = pc[q]
  BY <1>1 DEF SkipReceive, ControlInv, control, wire, history, Goto, TypeOK
<1>3. /\ \A r \in Peer : Live(r)' <=> Live(r)
      /\ \A r \in Peer : Connected(r)' <=> Connected(r)
      /\ \A r \in Peer : InSession(r)' => InSession(r)
  <2>1. InOpening' => InOpening
    BY <1>1, <1>2 DEF InOpening, Peer
  <2> QED BY <1>2, <2>1 DEF Live, SameSession, Connected, CanSend, InSession, Offered
<1>4. <<>> \in Seq(Seq(Event))
  OBVIOUS
<1>5. Counts(p)' /\ Ring(p)' /\ OwnLists(p)'
  BY <1>2, <1>3, <1>4, NextFrameOwn DEF DataInv
<1>6. Counts(q)' /\ Ring(q)' /\ OwnLists(q)'
  <2>1. list'[q] = list[q] /\ current'[q] = current[q] /\ toPlay'[q] = toPlay[q]
    BY <1>1, <1>2 DEF PrepareNextFrame, TypeOK
  <2>2. Calm(q)
    BY <1>2, <1>3, <2>1 DEF Calm
  <2> QED BY <2>2, CalmOwn DEF DataInv
<1>7. /\ Len(machine'[p]) = Len(machine[p]) + 1
      /\ DOMAIN machine'[p] = 1 .. Len(machine[p]) + 1
      /\ \A k \in 1 .. Len(machine[p]) : machine'[p][k] = machine[p][k]
      /\ machine'[p][Len(machine[p]) + 1] = <<>>
  BY <1>2, <1>4, AppendProperties, LenProperties DEF TypeOK, Machine
<1>8. InSession(p) => Len(machine[p]) + 1 < Delta
  <2>1. SUFFICES ASSUME InSession(p) PROVE Len(machine[p]) + 1 < Delta
    OBVIOUS
  <2>2. ~ (Len(machine[p]) >= Delta) /\ Len(machine[p]) # Delta - 1
    BY <1>2, <2>1 DEF DataInv, Ring
  <2> QED BY <2>2, Lens, NetplayAssumption
<1>9. Same(p)'
  <2>1. SUFFICES ASSUME InSession(p), NEW k \in DOMAIN machine'[p]
                 PROVE  k < Delta /\ machine'[p][k] = <<>>
    BY <1>3 DEF Same
  <2>2. k < Delta
    BY <1>7, <1>8, <2>1, Lens, NetplayAssumption
  <2>3. CASE k = Len(machine[p]) + 1
    BY <1>7, <2>2, <2>3
  <2>4. CASE k # Len(machine[p]) + 1
    <3>1. k \in DOMAIN machine[p] /\ machine'[p][k] = machine[p][k]
      BY <1>7, <2>4, Lens
    <3> QED BY <2>1, <2>2, <3>1 DEF DataInv, Same
  <2> QED BY <2>3, <2>4
<1>10. Same(q)'
  BY <1>2, <1>3, CalmSame DEF DataInv
<1>11. Channel(p)'
  <2>1. Live(p) => Taken(p)' = 0 /\ Taken(p) = 0
    <3>1. Live(p) => InSession(p)
      BY DEF Live, InSession
    <3> QED BY <1>7, <1>8, <3>1, Lens, NetplayAssumption DEF Taken
  <2> QED BY <1>2, <1>3, <2>1 DEF DataInv, Channel
<1>12. Channel(q)'
  BY <1>2, <1>3 DEF DataInv, Channel, Taken
<1> QED BY <1>1, <1>5, <1>6, <1>9, <1>10, <1>11, <1>12 DEF DataInv, Peer

\* What the hook reads and plays: the same frame of both peers.
LEMMA ReadsTheFrame ==
  ASSUME TypeOK, OpeningInv, ControlInv, DataInv, NEW p \in Peer, NEW q \in Peer, q # p,
         pc[p] = "receive", full[p], CanSend(p), chan[p] # <<>>, Head(chan[p]).type = "frame",
         InSession(p)
  PROVE  /\ Live(p)
         /\ Len(machine[p]) >= Delta - 1
         /\ Taken(p) + 1 = Len(machine[p]) - Delta + 2
         /\ Taken(p) + 1 \in DOMAIN sent[q] /\ Taken(p) + 1 \in DOMAIN sent[p]
         /\ Head(chan[p]).list = sent[q][Taken(p) + 1]
         /\ list[p][toPlay[p]] = sent[p][Taken(p) + 1]
         /\ Carries(Tail(chan[p]), sent[q], Taken(p) + 1)
<1> DEFINE m == Len(machine[p])
           t == Taken(p)
<1>1. Connected(p)
  BY DEF ControlInv
<1>2. Live(p)
  BY <1>1, SenderIsLive
<1>3. m \in Nat /\ DOMAIN sent[p] = 1 .. Len(sent[p]) /\ Delta \in Nat /\ Delta > 1
  BY Lens, NetplayAssumption
<1>4. m >= Delta - 1 /\ (m >= 1 => toPlay[p] = Slot(m + 1))
  BY DEF DataInv, Ring
<1>5. t \in Nat /\ t + 1 = m - Delta + 2
  BY <1>3, <1>4 DEF Taken
<1>6. /\ Len(sent[p]) = m + 1
      /\ \A k \in DOMAIN sent[p] : k + Delta >= m + 2 => list[p][Slot(k - 1)] = sent[p][k]
  BY <1>2 DEF DataInv, OwnLists
<1>7. Carries(chan[p], sent[q], t)
  <2>1. q = Other(p)
    BY DEF Other, Peer
  <2> QED BY <1>2, <2>1 DEF DataInv, Channel
<1> HIDE DEF m, t
<1>8. /\ t + 1 \in DOMAIN sent[q] /\ Head(chan[p]).list = sent[q][t + 1]
      /\ Carries(Tail(chan[p]), sent[q], t + 1)
  <2>1. chan[p] \in Seq(Message) /\ sent[q] \in Seq(EventList)
    BY DEF TypeOK
  <2> QED BY <1>5, <1>7, <2>1, CarriesNext
<1>9. t + 1 \in DOMAIN sent[p]
  BY <1>3, <1>5, <1>6
<1>10. toPlay[p] = Slot(t)
  <2>1. m + 1 = t + Delta /\ m >= 1
    BY <1>3, <1>4, <1>5
  <2> QED BY <1>4, <1>5, <2>1, SlotRound
<1>11. list[p][toPlay[p]] = sent[p][t + 1]
  <2>1. (t + 1) + Delta >= m + 2 /\ (t + 1) - 1 = t
    BY <1>3, <1>5
  <2> QED BY <1>6, <1>9, <1>10, <2>1
<1> QED BY <1>2, <1>4, <1>5, <1>8, <1>9, <1>11 DEF m, t

\* The peer's frame is played with the own one.
LEMMA ReceiveFrameStep ==
  ASSUME TypeOK, LinkInv, OpeningInv, ControlInv, DataInv, NEW p \in Peer, ReceiveFrame(p)
  PROVE  DataInv'
<1>1. PICK q \in Peer : q # p
  BY DEF Peer
<1> DEFINE remote == Head(chan[p]).list
           own == list[p][toPlay[p]]
           turn == IF mode[p] = "serverConnected" THEN <<own.events, remote.events>>
                                                  ELSE <<remote.events, own.events>>
<1>2. /\ pc[p] = "receive" /\ full[p] /\ CanSend(p)
      /\ chan[p] # <<>> /\ Head(chan[p]).type = "frame"
      /\ PrepareNextFrame(p)
      /\ machine' = [machine EXCEPT ![p] = Append(@, turn)]
      /\ UNCHANGED <<full, session, sent>>
      /\ \/ Goto(p, "run") /\ Read(p) /\ UNCHANGED <<mode, link>>
         \/ Disconnect(p, "run")
  BY DEF ReceiveFrame, Receives, CanSend, control, history
<1>3. list[p] # NoList /\ Connected(p)
  BY <1>2 DEF ControlInv
<1>4. turn \in Seq(Seq(Event))
  <2>1. remote \in EventList
    BY <1>2, HeadType, MessageType
  <2>2. own \in EventList
    BY <1>3, AllocType DEF TypeOK
  <2>3. own.events \in Seq(Event) /\ remote.events \in Seq(Event)
    BY <2>1, <2>2 DEF EventList
  <2> QED BY <2>3, PairType
<1> HIDE DEF turn
<1>5. /\ pc'[p] \in {"run", "abort"} /\ pc'[q] = pc[q]
      /\ mode'[q] = mode[q] /\ chan'[q] = chan[q]
      /\ Connected(p)' => Connected(p)
      /\ CanSend(q)' => CanSend(q)
      /\ CanSend(p)' => chan'[p] = Tail(chan[p])
  <2>1. CASE Goto(p, "run") /\ Read(p) /\ UNCHANGED <<mode, link>>
    BY <1>1, <2>1 DEF Goto, Read, Connected, CanSend, TypeOK
  <2>2. CASE Disconnect(p, "run")
    <3>1. /\ chan'[q] = chan[q] /\ link'[p] = "none"
          /\ link[p] = "up" => link'[q] \in {"eof", "reset"}
          /\ link[p] # "up" => link'[q] = link[q] \/ link'[q] = "reset"
          /\ mode'[q] = mode[q] /\ pc'[q] = pc[q]
          /\ \/ pc'[p] = "abort" /\ mode'[p] = mode[p]
             \/ pc'[p] = "run" /\ mode'[p] = IF mode[p] = "serverConnected" THEN "server" ELSE "idle"
      BY <1>1, <2>2, DisconnectEffect
    <3>2. link[p] = "up" => link[q] = "up"
      BY <1>1, <1>2, BothUp
    <3> QED BY <3>1, <3>2 DEF Connected, CanSend
  <2> QED BY <1>2, <2>1, <2>2
<1>6. \A r \in Peer : /\ Connected(r)' => Connected(r)
                      /\ InSession(r)' => InSession(r)
                      /\ Live(r)' => Live(r)
  <2>1. Offered' => Offered
    BY <1>1, <1>5 DEF Offered, InOpening, Peer
  <2>2. SameSession' <=> SameSession
    BY <1>2 DEF SameSession
  <2>3. \A r \in Peer : Connected(r)' => Connected(r)
    BY <1>1, <1>5 DEF Connected, Peer
  <2>4. \A r \in Peer : CanSend(r)' => CanSend(r)
    BY <1>1, <1>2, <1>5 DEF Peer
  <2> QED BY <2>1, <2>2, <2>3, <2>4 DEF InSession, Live
<1>7. machine'[p] = Append(machine[p], turn) /\ machine'[q] = machine[q]
  BY <1>1, <1>2 DEF TypeOK
<1>8. /\ Len(machine'[p]) = Len(machine[p]) + 1
      /\ DOMAIN machine'[p] = 1 .. Len(machine[p]) + 1
      /\ \A k \in 1 .. Len(machine[p]) : machine'[p][k] = machine[p][k]
      /\ machine'[p][Len(machine[p]) + 1] = turn
  BY <1>4, <1>7, AppendProperties, LenProperties DEF TypeOK, Machine
<1>9. Counts(p)' /\ Ring(p)' /\ OwnLists(p)'
  BY <1>2, <1>3, <1>4, <1>5, <1>6, <1>7, NextFrameOwn DEF DataInv
<1>10. Counts(q)' /\ Ring(q)' /\ OwnLists(q)'
  <2>1. /\ list'[q] = list[q] /\ current'[q] = current[q] /\ toPlay'[q] = toPlay[q]
        /\ full'[q] = full[q] /\ sent'[q] = sent[q]
    BY <1>1, <1>2 DEF PrepareNextFrame, TypeOK
  <2>2. Calm(q)
    BY <1>5, <1>6, <1>7, <2>1 DEF Calm
  <2> QED BY <2>2, CalmOwn DEF DataInv
<1>11. InSession(p) =>
         /\ Live(p)
         /\ Len(machine[p]) >= Delta - 1
         /\ Taken(p) + 1 = Len(machine[p]) - Delta + 2
         /\ Taken(p) + 1 \in DOMAIN sent[q] /\ Taken(p) + 1 \in DOMAIN sent[p]
         /\ remote = sent[q][Taken(p) + 1]
         /\ own = sent[p][Taken(p) + 1]
         /\ Carries(Tail(chan[p]), sent[q], Taken(p) + 1)
  BY <1>1, <1>2, ReadsTheFrame
<1>12. InSession(p) =>
         turn = <<sent["server"][Taken(p) + 1].events, sent["client"][Taken(p) + 1].events>>
  <2>1. CASE p = "server"
    <3>1. mode[p] = "serverConnected" /\ q = "client"
      BY <1>1, <1>3, <2>1 DEF Connected, ControlInv, Peer
    <3> QED BY <1>11, <2>1, <3>1 DEF turn
  <2>2. CASE p = "client"
    <3>1. mode[p] # "serverConnected" /\ q = "server"
      BY <1>1, <1>3, <2>2 DEF Connected, ControlInv, Peer
    <3> QED BY <1>11, <2>2, <3>1 DEF turn
  <2> QED BY <2>1, <2>2 DEF Peer
<1> HIDE DEF remote, own
<1>13. Same(p)'
  <2>1. SUFFICES ASSUME InSession(p), NEW k \in DOMAIN machine'[p]
                 PROVE  IF k < Delta THEN machine'[p][k] = <<>>
                        ELSE /\ \A r \in Peer : k - Delta + 1 \in DOMAIN sent[r]
                             /\ machine'[p][k] = <<sent["server"][k - Delta + 1].events,
                                                   sent["client"][k - Delta + 1].events>>
    BY <1>2, <1>6 DEF Same
  <2>2. CASE k = Len(machine[p]) + 1
    <3>1. ~ (k < Delta) /\ k - Delta + 1 = Taken(p) + 1
      BY <1>11, <2>1, <2>2, Lens, NetplayAssumption
    <3>2. \A r \in Peer : Taken(p) + 1 \in DOMAIN sent[r]
      BY <1>1, <1>11, <2>1 DEF Peer
    <3>3. machine'[p][k] = turn
      BY <1>8, <2>2
    <3> QED BY <1>12, <2>1, <3>1, <3>2, <3>3
  <2>3. CASE k # Len(machine[p]) + 1
    <3>1. k \in DOMAIN machine[p] /\ machine'[p][k] = machine[p][k]
      BY <1>8, <2>3, Lens
    <3> QED BY <2>1, <3>1 DEF DataInv, Same
  <2> QED BY <2>2, <2>3
<1>14. Same(q)'
  BY <1>2, <1>6, <1>7, CalmSame DEF DataInv
<1>15. Channel(p)'
  <2>1. SUFFICES ASSUME Live(p)' PROVE Carries(chan'[p], sent[q], Taken(p)')
    BY <1>1, <1>2 DEF Channel, Other, Peer
  <2>2. InSession(p) /\ chan'[p] = Tail(chan[p])
    BY <1>5, <1>6, <2>1 DEF Live, InSession
  <2>3. Taken(p)' = Taken(p) + 1
    BY <1>8, <1>11, <2>2, Lens, NetplayAssumption DEF Taken
  <2> QED BY <1>11, <2>2, <2>3
<1>16. Channel(q)'
  BY <1>2, <1>5, <1>6, <1>7 DEF DataInv, Channel, Taken
<1> QED BY <1>1, <1>9, <1>10, <1>13, <1>14, <1>15, <1>16 DEF DataInv, Peer

\* The client begins the session whose settings it has been offered.
LEMMA ReceiveSettingsStep ==
  ASSUME TypeOK, LinkInv, OpeningInv, ControlInv, DataInv, ReceiveSettings,
         Receives("client", "settings"), Read("client"), pc'["client"] = "test"
  PROVE  DataInv'
<1>1. /\ pc["client"] = "trap" /\ chan["client"] # <<>> /\ Head(chan["client"]).type = "settings"
      /\ UNCHANGED <<list, current, toPlay, full, link>>
      /\ chan' = [chan EXCEPT !["client"] = Tail(@)]
      /\ mode' = [mode EXCEPT !["client"] = "client"]
      /\ machine' = [machine EXCEPT !["client"] = <<>>]
      /\ session' = [session EXCEPT !["client"] = session["server"]]
      /\ sent' = [sent EXCEPT !["client"] = <<>>]
      /\ pc' = [pc EXCEPT !["client"] = "test"]
  BY DEF ReceiveSettings, Receives, Read, Goto, TypeOK, Peer, frames
<1>2. Offered /\ InSession("server")
  <2>1. 1 \in DOMAIN chan["client"] /\ chan["client"][1].type = "settings"
    BY <1>1, ChanTailItems DEF Peer
  <2> QED BY <1>1, <2>1 DEF Offered, InOpening, InSession
<1>3. /\ sent["server"] = <<>>
      /\ \A i \in DOMAIN chan["client"] : chan["client"][i].type # "frame"
      /\ link["server"] = "up" => chan["server"] = <<>> 
      /\ link["server"] # "eof"
  BY <1>1, <1>2 DEF OpeningInv, InOpening
<1>4. /\ machine'["client"] = <<>> /\ sent'["client"] = <<>> /\ pc'["client"] = "test"
      /\ machine'["server"] = machine["server"] /\ sent'["server"] = <<>>
      /\ sent'["server"] = sent["server"]
      /\ pc'["server"] = pc["server"] /\ mode'["server"] = mode["server"]
      /\ chan'["client"] = Tail(chan["client"]) /\ chan'["server"] = chan["server"]
  BY <1>1, <1>3 DEF TypeOK, Peer
<1>5. (Counts("client") /\ Ring("client") /\ OwnLists("client") /\ Same("client"))'
  BY <1>4, FreshOwn DEF Peer
<1>6. Counts("server")' /\ Ring("server")'
  <2>1. Counts("server") /\ Ring("server")
    BY DEF DataInv, Peer
  <2> QED BY <1>1, <1>2, <1>4, <2>1 DEF Counts, Ring, Connected
<1>7. OwnLists("server")'
  <2>1. SUFFICES ASSUME Live("server")', pc["server"] \in {"run", "receive"} PROVE FALSE
    BY <1>4 DEF OwnLists
  <2>2. link["server"] = "up" /\ Connected("server")
    BY <1>1, <1>3, <1>4, <2>1 DEF Live, CanSend, Connected
  <2> QED BY <1>1, <2>1, <2>2 DEF OpeningInv, InOpening
<1>8. Len(machine["server"]) <= 1
  BY <1>2, <1>3, Lens DEF DataInv, Counts, Peer
<1>9. Same("server")'
  <2>1. Same("server")
    BY DEF DataInv, Peer
  <2>2. \A k \in DOMAIN machine["server"] : k < Delta /\ machine["server"][k] = <<>>
    BY <1>2, <1>8, <2>1, Lens, NetplayAssumption DEF Same, Peer
  <2> QED BY <1>4, <2>2 DEF Same
<1>10. Taken("server")' = 0 /\ Taken("client")' = 0
  BY <1>4, <1>8, Lens, NetplayAssumption DEF Taken, Peer
<1>11. Channel("server")'
  <2>1. SUFFICES ASSUME Live("server")' PROVE Carries(chan'["server"], <<>>, 0)
    BY <1>4, <1>10 DEF Channel, Other
  <2>2. chan'["server"] = <<>>
    BY <1>1, <1>3, <1>4, <2>1 DEF Live, CanSend
  <2>3. \A i \in DOMAIN chan'["server"] : chan'["server"][i].type # "frame"
    BY <2>2
  <2> QED BY <2>2, <2>3, CarriesNothing, NoneType
<1>12. Channel("client")'
  <2>1. chan["client"] \in Seq(Message) /\ Tail(chan["client"]) \in Seq(Message)
    BY <1>1, HeadTailProperties DEF TypeOK, Peer
  <2>2. \A i \in DOMAIN Tail(chan["client"]) : Tail(chan["client"])[i].type # "frame"
    BY <1>1, <1>3, ChanTailItems DEF Peer
  <2> QED BY <1>4, <1>10, <2>1, <2>2, CarriesNothing DEF Channel, Other
<1> QED BY <1>5, <1>6, <1>7, <1>9, <1>11, <1>12 DEF DataInv, Peer

\* The sessions are numbers.
LEMMA Sessions ==
  ASSUME TypeOK
  PROVE  session["server"] \in Nat /\ session["client"] \in Nat
BY DEF TypeOK, Peer

\* A peer that writes through the list it has not allocated is gone.
LEMMA CrashStep ==
  ASSUME TypeOK, LinkInv, OpeningInv, ControlInv, DataInv, NEW p \in Peer, pc[p] = "run", Crash(p),
         UNCHANGED <<list, mode, machine, session, sent, current, toPlay, full>>
  PROVE  DataInv'
<1>1. ASSUME NEW r \in Peer PROVE Calm(r)
  BY <1>1 DEF Crash, Goto, CloseLink, Other, TypeOK, Calm, InSession, Offered,
     InOpening, Live, SameSession, Connected, CanSend, LinkInv, OpeningInv,
     ControlInv, Peer
<1>2. ASSUME NEW r \in Peer PROVE Heard(r)
  BY <1>2 DEF Crash, Goto, CloseLink, Other, TypeOK, Heard, Live, SameSession,
     Connected, CanSend, LinkInv, OpeningInv, ControlInv, InOpening, Peer
<1> QED BY <1>1, <1>2, QuietStep

\* Every step keeps the data.
LEMMA Datas ==
  ASSUME TypeOK, LinkInv, OpeningInv, ControlInv, DataInv, OpeningInv', ControlInv', [Next]_vars
  PROVE  DataInv'
<1>1. CASE UNCHANGED vars
  <2>1. ASSUME NEW r \in Peer PROVE Calm(r)
    BY <1>1, <2>1 DEF vars, control, frames, wire, history, Calm, InSession, Offered,
       InOpening, Live, SameSession, Connected, CanSend, LinkInv, OpeningInv,
       ControlInv, Peer
  <2>2. ASSUME NEW r \in Peer PROVE Heard(r)
    BY <1>1, <2>2 DEF vars, control, frames, wire, history, Heard
  <2> QED BY <2>1, <2>2, QuietStep
<1>2. CASE Accept
  <2>1. ASSUME NEW r \in Peer PROVE Calm(r)
    BY <1>2, <2>1 DEF TypeOK, Accept, Goto, frames, history, Calm, InSession, Offered,
       InOpening, Live, SameSession, Connected, CanSend, LinkInv, OpeningInv,
       ControlInv, Peer
  <2>2. ASSUME NEW r \in Peer PROVE Heard(r)
    BY <1>2, <2>2 DEF TypeOK, Accept, Goto, frames, history, Heard, Live, SameSession,
       Connected, CanSend, LinkInv, OpeningInv, ControlInv, InOpening, Peer
  <2> QED BY <2>1, <2>2, QuietStep
<1>3. CASE ReceiveSnapshot
  <2>1. ASSUME NEW r \in Peer PROVE Calm(r)
    BY <1>3, <2>1 DEF TypeOK, ReceiveSnapshot, Receives, Read, Goto, control, frames,
       history, Calm, InSession, Offered, InOpening, Live, SameSession, Connected,
       CanSend, LinkInv, OpeningInv, ControlInv, Peer
  <2>2. ASSUME NEW r \in Peer PROVE Heard(r)
    BY <1>3, <2>2, ReadHeard DEF ReceiveSnapshot, Receives, Peer
  <2> QED BY <2>1, <2>2, QuietStep
<1>4. CASE ConnectFails
  <2>1. ASSUME NEW r \in Peer PROVE Calm(r)
    BY <1>4, <2>1 DEF TypeOK, ConnectFails, ReadFails, CloseLink, Goto, frames,
       history, Other, Calm, InSession, Offered, InOpening, Live, SameSession,
       Connected, CanSend, LinkInv, OpeningInv, ControlInv, Peer
  <2>2. ASSUME NEW r \in Peer PROVE Heard(r)
    BY <1>4, <2>2 DEF TypeOK, ConnectFails, ReadFails, CloseLink, Goto, frames,
       history, Other, Heard, Live, SameSession, Connected, CanSend, LinkInv,
       OpeningInv, ControlInv, InOpening, Peer
  <2> QED BY <2>1, <2>2, QuietStep
<1>5. CASE Echo
  <2>1. ASSUME NEW r \in Peer PROVE Calm(r)
    BY <1>5, <2>1 DEF TypeOK, Echo, Receives, Answer, control, frames, history, Other,
       Calm, InSession, Offered, InOpening, Live, SameSession, Connected, CanSend,
       LinkInv, OpeningInv, ControlInv, Peer
  <2>2. ASSUME NEW r \in Peer PROVE Heard(r)
    <3>1. [type |-> "test"] \in Message
      BY MessageType
    <3> QED BY <1>5, <2>2, <3>1, AnswerHeard DEF Echo, Receives, Peer
  <2> QED BY <2>1, <2>2, QuietStep
<1>6. CASE StartServer
  <2>1. ASSUME NEW r \in Peer PROVE Calm(r)
    BY <1>6, <2>1 DEF TypeOK, StartServer, frames, wire, history, Calm, InSession,
       Offered, InOpening, Live, SameSession, Connected, CanSend, LinkInv, OpeningInv,
       ControlInv, Peer
  <2>2. ASSUME NEW r \in Peer PROVE Heard(r)
    BY <1>6, <2>2 DEF TypeOK, StartServer, frames, wire, history, Heard, Live,
       SameSession, Connected, CanSend, LinkInv, OpeningInv, ControlInv, InOpening,
       Peer
  <2> QED BY <2>1, <2>2, QuietStep
<1>7. CASE Connect
  <2>1. ASSUME NEW r \in Peer PROVE Calm(r)
    BY <1>7, <2>1 DEF TypeOK, Connect, Goto, frames, Calm, InSession, Offered,
       InOpening, Live, SameSession, Connected, CanSend, LinkInv, OpeningInv,
       ControlInv, Peer
  <2>2. ASSUME NEW r \in Peer PROVE Heard(r)
    BY <1>7, <2>2 DEF TypeOK, Connect, Goto, frames, Heard, Live, SameSession,
       Connected, CanSend, LinkInv, OpeningInv, ControlInv, InOpening, Peer
  <2> QED BY <2>1, <2>2, QuietStep
<1>8. CASE Break
  <2>1. ASSUME NEW r \in Peer PROVE Calm(r)
    BY <1>8, <2>1 DEF TypeOK, Break, control, frames, history, Calm, InSession,
       Offered, InOpening, Live, SameSession, Connected, CanSend, LinkInv, OpeningInv,
       ControlInv, Peer
  <2>2. ASSUME NEW r \in Peer PROVE Heard(r)
    BY <1>8, <2>2 DEF TypeOK, Break, control, frames, history, Heard, Live,
       SameSession, Connected, CanSend, LinkInv, OpeningInv, ControlInv, InOpening,
       Peer
  <2> QED BY <2>1, <2>2, QuietStep
<1>9. ASSUME NEW p \in Peer, UserDisconnect(p)
      PROVE  DataInv'
  <2>1. ASSUME NEW r \in Peer PROVE Calm(r)
    BY <1>9, <2>1 DEF TypeOK, UserDisconnect, Disconnect, frames, history, CloseLink,
       control, Other, Calm, InSession, Offered, InOpening, Live, SameSession,
       Connected, CanSend, LinkInv, OpeningInv, ControlInv, Peer
  <2>2. ASSUME NEW r \in Peer PROVE Heard(r)
    BY <1>9, <2>2 DEF TypeOK, UserDisconnect, Disconnect, frames, history, CloseLink,
       control, Other, Heard, Live, SameSession, Connected, CanSend, LinkInv,
       OpeningInv, ControlInv, InOpening, Peer
  <2> QED BY <2>1, <2>2, QuietStep
<1>10. ASSUME NEW p \in Peer, Suspend(p)
      PROVE  DataInv'
  <2>1. ASSUME NEW r \in Peer PROVE Calm(r)
    BY <1>10, <2>1 DEF TypeOK, Suspend, Connected, Send, control, frames, history,
       Other, Calm, InSession, Offered, InOpening, Live, SameSession, CanSend,
       LinkInv, OpeningInv, ControlInv, Peer
  <2>2. ASSUME NEW r \in Peer PROVE Heard(r)
    <3>1. [type |-> "suspended"] \in Message
      BY MessageType
    <3> QED BY <1>10, <2>2, <3>1, SendHeard DEF Suspend
  <2> QED BY <2>1, <2>2, QuietStep
<1>11. ASSUME NEW p \in Peer, Reset(p)
      PROVE  DataInv'
  <2>1. ASSUME NEW r \in Peer PROVE Calm(r)
    BY <1>11, <2>1 DEF TypeOK, Reset, control, frames, history, Calm, InSession,
       Offered, InOpening, Live, SameSession, Connected, CanSend, LinkInv, OpeningInv,
       ControlInv, Peer
  <2>2. ASSUME NEW r \in Peer PROVE Heard(r)
    BY <1>11, <2>2 DEF TypeOK, Reset, control, frames, history, Heard, Live,
       SameSession, Connected, CanSend, LinkInv, OpeningInv, ControlInv, InOpening,
       Peer
  <2> QED BY <2>1, <2>2, QuietStep
<1>12. ASSUME NEW p \in Peer, ReceiveSuspended(p)
      PROVE  DataInv'
  <2>1. ASSUME NEW r \in Peer PROVE Calm(r)
    BY <1>12, <2>1 DEF TypeOK, ReceiveSuspended, Receives, Read, control, frames,
       history, Calm, InSession, Offered, InOpening, Live, SameSession, Connected,
       CanSend, LinkInv, OpeningInv, ControlInv, Peer
  <2>2. ASSUME NEW r \in Peer PROVE Heard(r)
    BY <1>12, <2>2, ReadHeard DEF ReceiveSuspended, Receives
  <2> QED BY <2>1, <2>2, QuietStep
<1>13. ASSUME NEW p \in Peer, ReceiveFails(p)
      PROVE  DataInv'
  <2>1. ASSUME NEW r \in Peer PROVE Calm(r)
    BY <1>13, <2>1 DEF TypeOK, ReceiveFails, ReadFails, Disconnect, Goto, control,
       wire, frames, history, CloseLink, Other, Calm, InSession, Offered, InOpening,
       Live, SameSession, Connected, CanSend, LinkInv, OpeningInv, ControlInv, Peer
  <2>2. ASSUME NEW r \in Peer PROVE Heard(r)
    BY <1>13, <2>2 DEF TypeOK, ReceiveFails, ReadFails, Disconnect, Goto, control,
       wire, frames, history, CloseLink, Other, Heard, Live, SameSession, Connected,
       CanSend, LinkInv, OpeningInv, ControlInv, InOpening, Peer
  <2> QED BY <2>1, <2>2, QuietStep
<1>14. ASSUME NEW p \in Peer, Spin(p)
      PROVE  DataInv'
  <2>1. ASSUME NEW r \in Peer PROVE Calm(r)
    BY <1>14, <2>1 DEF TypeOK, Spin, AtEof, Waits, Goto, control, frames, wire,
       history, Calm, InSession, Offered, InOpening, Live, SameSession, Connected,
       CanSend, LinkInv, OpeningInv, ControlInv, Peer
  <2>2. ASSUME NEW r \in Peer PROVE Heard(r)
    BY <1>14, <2>2 DEF TypeOK, Spin, AtEof, Waits, Goto, control, frames, wire,
       history, Heard, Live, SameSession, Connected, CanSend, LinkInv, OpeningInv,
       ControlInv, InOpening, Peer
  <2> QED BY <2>1, <2>2, QuietStep
<1>15. CASE SendSnapshot
  <2>1. CASE pc'["server"] = "offer"
    <3>1. \A r \in Peer : ~ InSession(r)'
      <4>1. session'["client"] < session'["server"]
        BY <2>1 DEF ControlInv
      <4>2. ~ SameSession'
        <5>1. session'["client"] = session["client"] /\ session'["server"] = session["server"] + 1
          BY <1>15, <2>1 DEF SendSnapshot, Goto, TypeOK, Peer
        <5> QED BY <4>1, <5>1, Sessions DEF SameSession
      <4>3. ~ Offered'
        BY <2>1 DEF OpeningInv, Offered
      <4> QED BY <4>2, <4>3 DEF InSession
    <3> QED BY <3>1, OutOfSession DEF DataInv
  <2>2. CASE pc'["server"] # "offer"
    <3>1. UNCHANGED <<mode, machine, wire, session, sent, frames>> /\ Goto("server", "run")
          /\ pc["server"] = "trap"
      BY <1>15, <2>2 DEF SendSnapshot, Goto, TypeOK, Peer
    <3>2. ASSUME NEW r \in Peer PROVE Calm(r)
      BY <3>1, <3>2 DEF TypeOK, Goto, wire, frames, Calm, InSession, Offered,
         InOpening, Live, SameSession, Connected, CanSend, LinkInv, OpeningInv,
         ControlInv, Peer
    <3>3. ASSUME NEW r \in Peer PROVE Heard(r)
      BY <3>1, <3>3 DEF TypeOK, Goto, wire, frames, Heard, Live, SameSession,
         Connected, CanSend, LinkInv, OpeningInv, ControlInv, InOpening, Peer
    <3> QED BY <3>2, <3>3, QuietStep
  <2> QED BY <2>1, <2>2
<1>16. CASE SendSettings
  <2>1. CASE ~ CanSend("server")
    <3>1. UNCHANGED <<mode, machine, wire, session, sent, frames>> /\ Goto("server", "run")
          /\ pc["server"] = "offer"
      BY <1>16, <2>1 DEF SendSettings, control, history
    <3>2. ASSUME NEW r \in Peer PROVE Calm(r)
      BY <2>1, <3>1, <3>2 DEF TypeOK, Goto, wire, frames, Calm, InSession, Offered,
         InOpening, Live, SameSession, Connected, CanSend, LinkInv, OpeningInv,
         ControlInv, Peer
    <3>3. ASSUME NEW r \in Peer PROVE Heard(r)
      BY <3>1, <3>3 DEF Heard, wire
    <3> QED BY <3>2, <3>3, QuietStep
  <2>2. CASE CanSend("server")
    <3>1. /\ UNCHANGED <<mode, machine, session, sent, frames, link>> /\ Goto("server", "ping")
          /\ pc["server"] = "offer" /\ Send("server", [type |-> "settings"])
      BY <1>16, <2>2 DEF SendSettings, control, history, Send
    <3>2. ~ SameSession'
      BY <3>1, Sessions DEF ControlInv, SameSession
    <3>3. ~ InSession("client")'
      BY <3>2 DEF InSession
    <3>4. (/\ Counts("client") /\ Ring("client") /\ OwnLists("client")
           /\ Channel("client") /\ Same("client"))'
      BY <3>3, OutOfSession DEF Peer
    <3>5. (Counts("server") /\ Ring("server") /\ OwnLists("server") /\ Same("server"))'
      <4>1. pc'["server"] = "ping"
        BY <3>1 DEF Goto, TypeOK, Peer
      <4>2. machine'["server"] = <<>> /\ sent'["server"] = <<>>
        BY <4>1 DEF ControlInv, Peer
      <4> QED BY <4>1, <4>2, FreshOwn DEF Peer
    <3>6. Channel("server")'
      BY <3>2 DEF Channel, Live
    <3> QED BY <3>4, <3>5, <3>6 DEF DataInv, Peer
  <2> QED BY <2>1, <2>2
<1>17. CASE SendTest
  <2>1. CASE ~ CanSend("server")
    <3>1. /\ pc["server"] = "ping" /\ InitFrameEventList("server") /\ Goto("server", "run")
          /\ UNCHANGED <<mode, wire, session, sent, machine>>
      BY <1>17, <2>1 DEF SendTest, control, history
    <3>2. Offered' => Offered
      BY <3>1 DEF Goto, wire, Offered, InOpening, TypeOK, Peer
    <3>3. ASSUME NEW r \in Peer PROVE Heard(r)
      BY <3>1, <3>3 DEF Heard, wire
    <3> QED BY <3>1, <3>2, <3>3, RestartStep DEF wire, Peer
  <2>2. CASE CanSend("server")
    <3>1. /\ pc["server"] = "ping" /\ Send("server", [type |-> "test"]) /\ Goto("server", "test")
          /\ UNCHANGED <<mode, frames, session, sent, machine>>
      BY <1>17, <2>2 DEF SendTest, control, history
    <3>2. ASSUME NEW r \in Peer PROVE Calm(r)
      <4>1. /\ link' = link /\ pc'["client"] = pc["client"] /\ pc'["server"] = "test"
            /\ UNCHANGED <<mode, list, current, toPlay, full, session, sent, machine>>
        BY <3>1 DEF Goto, Send, TypeOK, frames, Peer
      <4>2. [type |-> "test"] \in Message /\ [type |-> "test"].type \notin {"frame", "settings"}
        BY MessageType
      <4>3. Offered' => Offered
        BY <3>1, <4>1, <4>2, SendEffect DEF Offered, InOpening, Peer
      <4> QED BY <3>1, <4>1, <4>3 DEF Calm, InSession, Live, SameSession, Connected,
         CanSend, Peer
    <3>3. ASSUME NEW r \in Peer PROVE Heard(r)
      <4>1. [type |-> "test"] \in Message
        BY MessageType
      <4> QED BY <3>1, <3>3, <4>1, SendHeard DEF Peer
    <3> QED BY <3>2, <3>3, QuietStep
  <2> QED BY <2>1, <2>2
<1>18. CASE SendDelta
  <2>1. /\ pc["server"] = "test" /\ InitFrameEventList("server") /\ Goto("server", "run")
        /\ UNCHANGED <<mode, link, session, sent, machine>>
    BY <1>18 DEF SendDelta, control, history
  <2>2. Offered' => Offered
    BY <1>18, ChanTailItems DEF SendDelta, Receives, Answer, Goto, Offered, InOpening,
       Other, TypeOK, Peer
  <2>3. ASSUME NEW r \in Peer PROVE Heard(r)
    <3>1. [type |-> "delta"] \in Message
      BY MessageType
    <3> QED BY <1>18, <2>3, <3>1, AnswerHeard DEF SendDelta, Receives, Peer
  <2> QED BY <2>1, <2>2, <2>3, RestartStep DEF Peer
<1>19. CASE ReceiveDelta
  <2>1. /\ pc["client"] = "test" /\ InitFrameEventList("client") /\ Goto("client", "run")
        /\ UNCHANGED <<mode, link, session, sent, machine>>
    BY <1>19 DEF ReceiveDelta, control, history
  <2>2. Offered' => Offered
    BY <2>1 DEF Goto, Offered, InOpening, TypeOK, Peer
  <2>3. ASSUME NEW r \in Peer PROVE Heard(r)
    BY <1>19, <2>3, ReadHeard DEF ReceiveDelta, Receives, Peer
  <2> QED BY <2>1, <2>2, <2>3, RestartStep DEF Peer
<1>20. ASSUME NEW p \in Peer, TestFails(p)
      PROVE  DataInv'
  <2>1. /\ pc[p] = "test" /\ InitFrameEventList(p) /\ Goto(p, "run")
        /\ UNCHANGED <<mode, link, session, sent, machine>>
    BY <1>20 DEF TestFails, control, wire, history
  <2>2. Offered' => Offered
    BY <1>20 DEF TestFails, wire, Goto, Offered, InOpening, TypeOK, Peer
  <2>3. ASSUME NEW r \in Peer PROVE Heard(r)
    BY <1>20, <2>3 DEF TestFails, wire, Heard
  <2> QED BY <2>1, <2>2, <2>3, RestartStep DEF Peer
<1>21. CASE ReceiveSettings
  <2>1. CASE Receives("client", "settings") /\ Read("client") /\ pc'["client"] = "test"
    BY <2>1, <1>21, ReceiveSettingsStep
  <2>2. CASE ~ (Receives("client", "settings") /\ Read("client") /\ pc'["client"] = "test")
    <3>1. /\ pc["client"] = "trap" /\ Goto("client", "run")
          /\ UNCHANGED <<mode, machine, session, sent, frames, link>>
          /\ \/ Receives("client", "settings") /\ Read("client")
             \/ UNCHANGED chan
      BY <2>2, <1>21 DEF ReceiveSettings, Goto, TypeOK, Peer
    <3>2. ASSUME NEW r \in Peer PROVE Calm(r)
      BY <3>1, <3>2 DEF TypeOK, Goto, frames, Calm, InSession, Offered, InOpening, Live,
         SameSession, Connected, CanSend, LinkInv, OpeningInv, ControlInv, Peer
    <3>3. ASSUME NEW r \in Peer PROVE Heard(r)
      <4>1. CASE UNCHANGED chan
        BY <4>1 DEF Heard
      <4>2. CASE Receives("client", "settings") /\ Read("client")
        BY <3>3, <4>2, ReadHeard DEF Receives, Peer
      <4> QED BY <3>1, <4>1, <4>2
    <3> QED BY <3>2, <3>3, QuietStep
  <2> QED BY <2>1, <2>2
<1>22. ASSUME NEW p \in Peer, SyncTest(p)
      PROVE  DataInv'
  <2>1. list[p] # NoList
    BY <1>22 DEF SyncTest, ControlInv
  <2>2. UNCHANGED <<pc, mode, link, chan, session, sent, machine, current, toPlay, full>>
    BY <1>22 DEF SyncTest, control, wire, history
  <2>3. \E l : list' = [list EXCEPT ![p] = [list[p] EXCEPT ![current[p]] = l]]
    BY <1>22 DEF SyncTest
  <2> QED BY <1>22, <2>1, <2>2, <2>3, RecordStep DEF SyncTest
<1>23. ASSUME NEW p \in Peer, NEW e \in Event, Record(p, e)
      PROVE  DataInv'
  <2>1. CASE list[p] = NoList
    <3>1. /\ pc[p] = "run" /\ Crash(p)
          /\ UNCHANGED <<list, mode, machine, session, sent, current, toPlay, full>>
      BY <1>23, <2>1 DEF Record, control, history
    <3> QED BY <3>1, CrashStep
  <2>2. CASE list[p] # NoList
    <3>1. UNCHANGED <<pc, mode, link, chan, session, sent, machine, current, toPlay, full>>
      BY <1>23, <2>2 DEF Record, control, wire, history
    <3>2. \E l : list' = [list EXCEPT ![p] = [list[p] EXCEPT ![current[p]] = l]]
      BY <1>23, <2>2 DEF Record
    <3> QED BY <1>23, <2>2, <3>1, <3>2, RecordStep DEF Record
  <2> QED BY <2>1, <2>2
<1>24. ASSUME NEW p \in Peer, HookSend(p)
      PROVE  DataInv'
  <2>1. /\ pc[p] = "run" /\ Connected(p)
        /\ UNCHANGED <<list, current, toPlay, machine, session>>
    BY <1>24, HookSendCases
  <2>2. CASE list[p] = NoList /\ Crash(p) /\ UNCHANGED <<control, full, sent>>
    BY <2>1, <2>2, CrashStep DEF control
  <2>3. CASE /\ list[p] # NoList
             /\ full' = [full EXCEPT ![p] = @ \/ current[p] = Delta - 1]
             /\ CanSend(p)
             /\ Send(p, [type |-> "frame", list |-> list[p][current[p]]])
             /\ sent' = [sent EXCEPT ![p] = Append(@, list[p][current[p]])]
             /\ Goto(p, "receive")
             /\ UNCHANGED control
    <3>1. Offered' => Offered
      <4>1. CASE p = "client"
        BY <2>3, <4>1 DEF Goto, Offered, InOpening, TypeOK, Peer
      <4>2. CASE p = "server"
        <5>1. [type |-> "frame", list |-> list[p][current[p]]].type # "settings"
          OBVIOUS
        <5>2. [type |-> "frame", list |-> list[p][current[p]]] \in Message
          <6>1. list[p] \in [0 .. Delta - 1 -> EventList] /\ current[p] \in 0 .. Delta - 1
            BY <2>3, AllocType DEF TypeOK
          <6> QED BY <6>1, MessageType
        <5>3. \A i \in DOMAIN chan'["client"] : chan'["client"][i].type = "settings"
                => i \in DOMAIN chan["client"] /\ chan["client"][i].type = "settings"
          <6> DEFINE m == [type |-> "frame", list |-> list[p][current[p]]]
          <6>1. \/ chan'["client"] = Append(chan["client"], m)
                \/ chan' = chan
            BY <2>3, <4>2 DEF Send, Other, TypeOK, Peer
          <6>2. m.type # "settings" /\ m \in Message
            BY <5>1, <5>2
          <6> HIDE DEF m
          <6> QED BY <6>1, <6>2, ChanAppendItems DEF Peer
        <5>4. pc'["client"] = pc["client"]
          BY <2>3, <4>2 DEF Goto, TypeOK, Peer
        <5> QED BY <5>3, <5>4 DEF Offered, InOpening
      <4> QED BY <4>1, <4>2 DEF Peer
    <3> QED BY <2>1, <2>3, <3>1, SendFrameStep DEF control
  <2>4. CASE /\ list[p] # NoList
             /\ full' = [full EXCEPT ![p] = @ \/ current[p] = Delta - 1]
             /\ ~ CanSend(p) /\ Disconnect(p, "receive") /\ UNCHANGED sent
    <3>1. Offered' => Offered
      <4>1. PICK q \in Peer : q # p
        BY DEF Peer
      <4>2. /\ chan'[p] = <<>> /\ chan'[q] = chan[q] /\ pc'[q] = pc[q]
            /\ pc'[p] \in {"receive", "abort"}
        BY <2>4, <4>1, DisconnectEffect
      <4> QED BY <4>1, <4>2 DEF Offered, InOpening, Peer
    <3> QED BY <2>1, <2>4, <3>1, SendFailsStep
  <2> QED BY <1>24, <2>2, <2>3, <2>4, HookSendCases
<1>25. ASSUME NEW p \in Peer, SkipReceive(p)
      PROVE  DataInv'
  BY <1>25, SkipStep
<1>26. ASSUME NEW p \in Peer, ReceiveFrame(p)
      PROVE  DataInv'
  BY <1>26, ReceiveFrameStep
<1> QED
  BY <1>1, <1>2, <1>3, <1>4, <1>5, <1>6, <1>7, <1>8, <1>9, <1>10, <1>11, <1>12, <1>13,
     <1>14, <1>15, <1>16, <1>17, <1>18, <1>19, <1>20, <1>21, <1>22, <1>23, <1>24,
     <1>25, <1>26 DEF Next, Server, Client, Frame

-----------------------------------------------------------------------------
(* The theorems.                                                           *)

\* The invariant holds in the first state: both peers idle, nothing recorded or sent ...
LEMMA InvInit ==
  ASSUME Init
  PROVE  Inv
<1>1. TypeOK
  <2>1. 0 \in 0 .. Delta - 1
    BY NetplayAssumption
  <2>2. <<>> \in Seq(Message) /\ <<>> \in Machine /\ <<>> \in Seq(EventList)
    BY NoneType
  <2> QED BY <2>1, <2>2 DEF Init, TypeOK, Peer
<1>2. ControlInv
  BY DEF Init, ControlInv, Connected, Peer
<1>3. LinkInv
  BY DEF Init, LinkInv, Peer
<1>4. OpeningInv
  BY DEF Init, OpeningInv, InOpening, Offered, Peer
<1>5. DataInv
  <2>1. ASSUME NEW p \in Peer
        PROVE  Counts(p) /\ Ring(p) /\ OwnLists(p) /\ Channel(p) /\ Same(p)
    <3>1. machine[p] = <<>> /\ sent[p] = <<>> /\ mode[p] = "idle" /\ pc[p] = "run"
      BY <2>1 DEF Init
    <3>2. ~ Connected(p)
      BY <3>1 DEF Connected
    <3>3. Counts(p)
      BY <3>1 DEF Counts
    <3>4. Ring(p)
      BY <3>1, <3>2 DEF Ring
    <3>5. OwnLists(p) /\ Channel(p)
      BY <3>2 DEF OwnLists, Channel, Live
    <3>6. Same(p)
      BY <3>1 DEF Same
    <3> QED BY <3>3, <3>4, <3>5, <3>6
  <2> QED BY <2>1 DEF DataInv
<1> QED BY <1>1, <1>2, <1>3, <1>4, <1>5 DEF Inv

\* ... and every step keeps it.
LEMMA InvNext ==
  ASSUME Inv, [Next]_vars
  PROVE  Inv'
<1>1. TypeOK /\ ControlInv /\ LinkInv /\ OpeningInv /\ DataInv
  BY DEF Inv
<1>2. TypeOK'
  BY <1>1, Types
<1>3. LinkInv' /\ OpeningInv' /\ ControlInv'
  BY <1>1, Links, Openings, Controls
<1>4. DataInv'
  BY <1>1, <1>3, Datas
<1> QED BY <1>2, <1>3, <1>4 DEF Inv

\* The invariant holds in every state.
THEOREM SpecInv == Spec => []Inv
<1>1. Init => Inv
  BY InvInit
<1>2. Inv /\ [Next]_vars => Inv'
  BY InvNext
<1> QED BY <1>1, <1>2, PTL DEF Spec

\* The variables keep their types: no list outside the ring is written, and no list
\* before it is allocated.
THEOREM NetplayTypes == Spec => []TypeOK
<1>1. Inv => TypeOK
  BY DEF Inv
<1> QED BY <1>1, SpecInv, PTL

\* Two machines of one session have played the same events in the same frames, those
\* of both users, each once and Delta - 1 frames after it was recorded.
THEOREM StayInLockstep == Spec => []Lockstep
<1>1. Inv => Lockstep
  BY DEF Inv, DataInv, Same, InSession, Lockstep
<1> QED BY <1>1, SpecInv, PTL

\* A peer that does not hear from the other stops at most Delta frames after it, so no
\* list is recorded again before it has been played.
THEOREM SkewIsBounded == Spec => []BoundedSkew
<1>1. Inv => BoundedSkew
  <2> SUFFICES ASSUME TypeOK, DataInv, SameSession
               PROVE  \A p, q \in Peer : Len(sent[p]) - Len(sent[q]) <= Delta
    BY DEF Inv, BoundedSkew, Peer
  <2> TAKE p, q \in Peer
  <2>1. Counts(p) /\ Same(p) /\ InSession(p)
    BY DEF DataInv, InSession
  <2> DEFINE m == Len(machine[p])
  <2>2. m \in Nat /\ Len(sent[p]) \in Nat /\ Len(sent[q]) \in Nat
        /\ DOMAIN machine[p] = 1 .. m /\ DOMAIN sent[q] = 1 .. Len(sent[q])
        /\ Delta \in Nat /\ Delta > 1
    BY Lens, NetplayAssumption
  <2>3. Len(sent[p]) <= m + 1
    BY <2>1 DEF Counts
  <2>4. CASE m < Delta
    BY <2>2, <2>3, <2>4
  <2>5. CASE m >= Delta
    <3>1. m \in DOMAIN machine[p] /\ ~ (m < Delta)
      BY <2>2, <2>5
    <3> HIDE DEF m
    <3>2. m - Delta + 1 \in DOMAIN sent[q]
      BY <2>1, <3>1 DEF Same
    <3> QED BY <2>2, <2>3, <3>2
  <2> QED BY <2>2, <2>4, <2>5
<1> QED BY <1>1, SpecInv, PTL

=============================================================================
