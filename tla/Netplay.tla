------------------------------- MODULE Netplay -------------------------------
(***************************************************************************)
(* Netplay (src/vice/src/network.c): a server and a client emulate the     *)
(* same machine in lockstep over one TCP connection.                       *)
(*                                                                         *)
(* At a frame's end network_hook() sends the events recorded during the    *)
(* frame and, once Delta - 1 frames have been sent, waits for the peer's   *)
(* events of Delta - 1 frames before and plays them with its own.  The     *)
(* machine is the sequence of the inputs played since the snapshot: two    *)
(* machines are in the same state when these are equal.                    *)
(*                                                                         *)
(* TCP delivers in order; when an end is closed the other one reads what   *)
(* is left ("eof") or fails ("reset").  A length and the bytes it          *)
(* announces are one message; a length of zero is the message "suspended". *)
(* The fifty packets of the delay test are one, and Delta is the same in   *)
(* every session (the code finds at least 5).  The UI is the GTK3 one,     *)
(* which calls network_disconnect() unless the mode is NETWORK_IDLE.       *)
(***************************************************************************)
EXTENDS Integers, SequencesExt

CONSTANTS
  Event,        \* what users do: keys, joysticks, resets ...
  Control,      \* the events network_control lets each peer record
  Delta,        \* frame_delta, found by the delay test
  Failures,     \* among "save", "load": the snapshot is not written, not read
  Breaks,       \* may the connection break?
  MaxFrames,    \* bound: frames in a session
  MaxEvents,    \* bound: events in a session
  MaxSuspend,   \* bound: the frames of a session in which a peer may suspend
  MaxSessions   \* bound: connections

Peer == {"server", "client"}
Other(p) == IF p = "server" THEN "client" ELSE "server"

\* No list: the pointer is NULL.
NoList == <<>>

VARIABLES
  mode,       \* network_mode
  socket,     \* network_socket: "none", "open", or "closed" and not reset
  listen,     \* listen_socket, the server's
  pc,         \* where the VICE thread of a peer is
  list,       \* frame_event_list: what is recorded in each of Delta frames
  current,    \* current_frame
  toPlay,     \* frame_to_play
  full,       \* frame_buffer_full
  suspended,  \* suspended
  syncTrap,   \* network_event_record_sync_test() waits to be called
  machine,    \* the inputs played since the snapshot, one per frame
  link,       \* the connection as the TCP of each peer sees it
  chan,       \* what each peer has not read yet
  backlog,    \* the client has connected, the server has not accepted
  session,    \* history: the number of the session the machine is in
  sent,       \* history: the frames sent in the session
  connects,   \* history: calls of network_connect_client()
  failed      \* history: a snapshot could not be written or read

control == <<mode, socket, listen>>
frames == <<list, current, toPlay, full, syncTrap>>
wire == <<link, chan, backlog>>
history == <<session, sent, connects, failed>>
vars == <<control, pc, frames, suspended, machine, wire, history>>

ASSUME NetplayAssumption ==
  /\ Control \in [Peer -> SUBSET Event]
  /\ Delta \in Nat \ {0, 1}
  /\ Failures \subseteq {"save", "load"}
  /\ Breaks \in BOOLEAN
  /\ {MaxFrames, MaxEvents, MaxSuspend, MaxSessions} \subseteq Nat

Machine == Seq(Seq(Seq(Event)))

\* An event list: the events to play, and the sync test when it is the list's
\* first event (anywhere else nobody looks at it).
EventList == [sync : Seq(Machine), events : Seq(Event)]
Empty == [sync |-> <<>>, events |-> <<>>]

Message == [type : {"snapshot", "settings", "test", "delta", "suspended"}]
             \cup [type : {"frame"}, list : EventList]

Connected(p) == mode[p] \in {"serverConnected", "client"}

-----------------------------------------------------------------------------
(* The connection.                                                         *)

CanSend(p) == link[p] \in {"up", "eof"}

\* network_send_buffer(): what is sent to a peer that has closed is lost.
Send(p, m) ==
  /\ chan' = IF link[p] = "up" THEN [chan EXCEPT ![Other(p)] = Append(@, m)] ELSE chan
  /\ UNCHANGED <<link, backlog>>

\* network_recv_buffer() returns with a message, with an error, or, when recv() returns
\* 0, never.
Receives(p, type) ==
  link[p] \in {"up", "eof"} /\ chan[p] # <<>> /\ Head(chan[p]).type = type
ReadFails(p) == link[p] \in {"reset", "none"}
AtEof(p) == link[p] = "eof" /\ chan[p] = <<>>
Read(p) == chan' = [chan EXCEPT ![p] = Tail(@)]

\* A message is read and answered.
Answer(p, m) ==
  chan' = [chan EXCEPT ![p] = Tail(@),
                       ![Other(p)] = IF link[p] = "up" THEN Append(@, m) ELSE @]

\* A peer closes its end and, when ports, the listening socket.
CloseLink(p, ports) ==
  /\ chan' = [chan EXCEPT ![p] = <<>>]
  /\ \E l \in IF link[p] = "up" THEN {"eof", "reset"}
                ELSE IF ports /\ p = "server" /\ backlog THEN {"reset"}
                ELSE {link[Other(p)]} :
       link' = [link EXCEPT ![p] = "none", ![Other(p)] = l]
  /\ backlog' = (backlog /\ ~ (ports /\ p = "server"))

\* The connection breaks.
Break ==
  /\ Breaks
  /\ link["client"] = "up"
  /\ link' = [p \in Peer |-> IF link[p] = "up" THEN "reset" ELSE link[p]]
  /\ UNCHANGED <<control, pc, frames, suspended, machine, chan, backlog, history>>

\* What is sent to an end that is closed is answered with a reset.
Reset(p) ==
  /\ link[p] = "eof"
  /\ link' = [link EXCEPT ![p] = "reset"]
  /\ UNCHANGED <<control, pc, frames, suspended, machine, chan, backlog, history>>

\* network_disconnect(); the VICE thread goes on at next.  Closing a socket that
\* is closed fails an assertion.
Disconnect(p, next) ==
  IF socket[p] = "closed"
    THEN /\ pc' = [pc EXCEPT ![p] = "abort"]
         /\ CloseLink(p, TRUE)
         /\ UNCHANGED control
    ELSE /\ pc' = [pc EXCEPT ![p] = next]
         /\ socket' = [socket EXCEPT ![p] = IF @ = "open" THEN "closed" ELSE @]
         /\ CloseLink(p, mode[p] # "serverConnected")
         /\ IF mode[p] = "serverConnected"
              THEN mode' = [mode EXCEPT ![p] = "server"] /\ UNCHANGED listen
              ELSE /\ mode' = [mode EXCEPT ![p] = "idle"]
                   /\ listen' = IF p = "server" THEN "closed" ELSE listen

\* The same from the user interface, while the VICE thread yields the lock.
UserDisconnect(p) ==
  /\ pc[p] \in {"run", "trap"}
  /\ mode[p] # "idle"
  /\ Disconnect(p, pc[p])
  /\ UNCHANGED <<frames, suspended, machine, history>>

Goto(p, next) == pc' = [pc EXCEPT ![p] = next]

\* The VICE thread is in recv().
Waits(p) ==
  pc[p] \in {"connecting", "receive", "test"} \/ (p = "client" /\ pc[p] = "trap")

\* The VICE thread waits in recv() for ever, with the lock.
Spin(p) ==
  /\ AtEof(p)
  /\ Waits(p)
  /\ Goto(p, "spin")
  /\ UNCHANGED <<control, frames, suspended, machine, wire, history>>

-----------------------------------------------------------------------------
(* A session begins.                                                       *)

\* network_init_frame_event_list()
InitFrameEventList(p) ==
  /\ list' = [list EXCEPT ![p] = [i \in 0 .. Delta - 1 |-> Empty]]
  /\ current' = [current EXCEPT ![p] = 0]
  /\ full' = [full EXCEPT ![p] = FALSE]
  /\ syncTrap' = [syncTrap EXCEPT ![p] = TRUE]
  /\ UNCHANGED toPlay

\* network_start_server()
StartServer ==
  /\ pc["server"] = "run"
  /\ mode["server"] = "idle"
  /\ mode' = [mode EXCEPT !["server"] = "server"]
  /\ listen' = "open"
  /\ UNCHANGED <<socket, pc, frames, suspended, machine, wire, history>>

\* network_connect_client(), up to the wait for the snapshot.
Connect ==
  /\ pc["client"] = "run"
  /\ mode["client"] = "idle"
  /\ listen = "open" /\ pc["server"] \notin {"abort", "crash"}
  /\ link["server"] # "up"  \* bound: no socket left open by a failed session
  /\ connects < MaxSessions
  /\ socket' = [socket EXCEPT !["client"] = "open"]
  /\ link' = [link EXCEPT !["client"] = "up"]
  /\ chan' = [chan EXCEPT !["client"] = <<>>]
  /\ backlog' = TRUE
  /\ connects' = connects + 1
  /\ Goto("client", "connecting")
  /\ UNCHANGED <<mode, listen, frames, suspended, machine, session, sent, failed>>

\* network_hook() of a server that waits for a client.
Accept ==
  /\ pc["server"] = "run" /\ ~ syncTrap["server"]
  /\ mode["server"] = "server"
  /\ backlog
  /\ socket' = [socket EXCEPT !["server"] = "open"]
  /\ link' = [link EXCEPT !["server"] = link["client"]]
  /\ chan' = [chan EXCEPT !["server"] = <<>>]
  /\ backlog' = FALSE
  /\ Goto("server", "trap")
  /\ UNCHANGED <<mode, listen, frames, suspended, machine, history>>

\* network_server_connect_trap(): the snapshot ...
SendSnapshot ==
  /\ pc["server"] = "trap"
  /\ \/ /\ CanSend("server")
        /\ Send("server", [type |-> "snapshot"])
        /\ mode' = [mode EXCEPT !["server"] = "serverConnected"]
        /\ machine' = [machine EXCEPT !["server"] = <<>>]
        /\ session' = [session EXCEPT !["server"] = @ + 1]
        /\ sent' = [sent EXCEPT !["server"] = <<>>]
        /\ Goto("server", "offer")
        /\ UNCHANGED failed
     \/ /\ ~ CanSend("server") \/ "save" \in Failures
        /\ failed' = (failed \/ CanSend("server"))
        /\ Goto("server", "run")
        /\ UNCHANGED <<mode, machine, wire, session, sent>>
  /\ UNCHANGED <<socket, listen, frames, suspended, connects>>

\* ... the settings ...
SendSettings ==
  /\ pc["server"] = "offer"
  /\ IF CanSend("server")
       THEN Send("server", [type |-> "settings"]) /\ Goto("server", "ping")
       ELSE UNCHANGED wire /\ Goto("server", "run")
  /\ UNCHANGED <<control, frames, suspended, machine, history>>

\* ... and the delay test, whose failure leaves the default delay.
SendTest ==
  /\ pc["server"] = "ping"
  /\ IF CanSend("server")
       THEN Send("server", [type |-> "test"]) /\ Goto("server", "test") /\ UNCHANGED frames
       ELSE UNCHANGED wire /\ Goto("server", "run") /\ InitFrameEventList("server")
  /\ UNCHANGED <<control, suspended, machine, history>>

SendDelta ==
  /\ pc["server"] = "test"
  /\ Receives("server", "test")
  /\ Answer("server", [type |-> "delta"])
  /\ InitFrameEventList("server")
  /\ Goto("server", "run")
  /\ UNCHANGED <<control, suspended, machine, link, backlog, history>>

\* network_connect_client(), from the wait on.
ReceiveSnapshot ==
  /\ pc["client"] = "connecting"
  /\ Receives("client", "snapshot")
  /\ Read("client")
  /\ Goto("client", "trap")
  /\ UNCHANGED <<control, frames, suspended, machine, link, backlog, history>>

ConnectFails ==
  /\ pc["client"] = "connecting"
  /\ ReadFails("client")
  /\ socket' = [socket EXCEPT !["client"] = "closed"]
  /\ CloseLink("client", TRUE)
  /\ Goto("client", "run")
  /\ UNCHANGED <<mode, listen, frames, suspended, machine, history>>

\* network_client_connect_trap(); when it fails the socket stays open.
ReceiveSettings ==
  /\ pc["client"] = "trap"
  /\ \/ /\ Receives("client", "settings")
        /\ Read("client")
        /\ \/ /\ mode' = [mode EXCEPT !["client"] = "client"]
              /\ machine' = [machine EXCEPT !["client"] = <<>>]
              /\ session' = [session EXCEPT !["client"] = session["server"]]
              /\ sent' = [sent EXCEPT !["client"] = <<>>]
              /\ Goto("client", "test")
              /\ UNCHANGED failed
           \/ /\ "load" \in Failures
              /\ failed' = TRUE
              /\ Goto("client", "run")
              /\ UNCHANGED <<mode, machine, session, sent>>
     \/ /\ ReadFails("client")
        /\ Goto("client", "run")
        /\ UNCHANGED <<mode, machine, chan, session, sent, failed>>
  /\ UNCHANGED <<socket, listen, frames, suspended, link, backlog, connects>>

\* Mutant: the last test packet is not sent back.
EchoAllButLast ==
  /\ pc["client"] = "test"
  /\ Receives("client", "test")
  /\ Read("client")
  /\ UNCHANGED <<control, pc, frames, suspended, machine, link, backlog, history>>

\* The client's network_test_delay(): it sends back what it gets ...
Echo ==
  /\ pc["client"] = "test"
  /\ Receives("client", "test")
  /\ Answer("client", [type |-> "test"])
  /\ UNCHANGED <<control, pc, frames, suspended, machine, link, backlog, history>>

\* ... until the delay arrives.
ReceiveDelta ==
  /\ pc["client"] = "test"
  /\ Receives("client", "delta")
  /\ Read("client")
  /\ InitFrameEventList("client")
  /\ Goto("client", "run")
  /\ UNCHANGED <<control, suspended, machine, link, backlog, history>>

TestFails(p) ==
  /\ pc[p] = "test"
  /\ ReadFails(p)
  /\ InitFrameEventList(p)
  /\ Goto(p, "run")
  /\ UNCHANGED <<control, suspended, machine, wire, history>>

-----------------------------------------------------------------------------
(* The frames of a session.                                                *)

\* Mutant: the index is not wrapped.
PrepareNextFrameUnwrapped(p) ==
  /\ current' = [current EXCEPT ![p] = @ + 1]
  /\ toPlay' = [toPlay EXCEPT ![p] = (current'[p] + 1) % Delta]
  /\ list' = [list EXCEPT ![p][current'[p] % Delta] = Empty]
  /\ syncTrap' = [syncTrap EXCEPT ![p] = TRUE]

\* network_prepare_next_frame()
PrepareNextFrame(p) ==
  /\ current' = [current EXCEPT ![p] = (@ + 1) % Delta]
  /\ toPlay' = [toPlay EXCEPT ![p] = (current'[p] + 1) % Delta]
  /\ list' = [list EXCEPT ![p][current'[p]] = Empty]
  /\ syncTrap' = [syncTrap EXCEPT ![p] = TRUE]

\* A write through the frame list that was never allocated.
Crash(p) ==
  /\ Goto(p, "crash")
  /\ CloseLink(p, TRUE)

\* The events of a peer in its session.
Events(p) ==
  Len(FlattenSeq([k \in DOMAIN sent[p] |-> sent[p][k].events]))
    + IF list[p] = NoList THEN 0 ELSE Len(list[p][current[p]].events)

\* network_event_record(): an event waits for its frame.
Record(p, e) ==
  /\ pc[p] = "run"
  /\ Connected(p)
  /\ e \in Control[p]
  /\ IF list[p] = NoList
       THEN Crash(p) /\ UNCHANGED list
       ELSE /\ Events(p) + Events(Other(p)) < MaxEvents
            /\ list' = [list EXCEPT ![p][current[p]].events = Append(@, e)]
            /\ UNCHANGED <<pc, wire>>
  /\ UNCHANGED <<control, current, toPlay, full, syncTrap, suspended, machine, history>>

\* network_event_record_sync_test(), the first trap of a frame.
SyncTest(p) ==
  /\ pc[p] = "run"
  /\ syncTrap[p]
  /\ syncTrap' = [syncTrap EXCEPT ![p] = FALSE]
  /\ list' = [list EXCEPT ![p][current[p]] =
                          IF @ = Empty THEN [@ EXCEPT !.sync = <<machine[p]>>] ELSE @]
  /\ UNCHANGED <<control, pc, current, toPlay, full, suspended, machine, wire, history>>

\* network_suspend(): the peer is told that no frame comes for a while.
Suspend(p) ==
  /\ pc[p] = "run"
  /\ Connected(p)
  /\ ~ suspended[p]
  /\ Len(sent[p]) < MaxSuspend
  /\ suspended' = [suspended EXCEPT ![p] = TRUE]
  /\ Send(p, [type |-> "suspended"])
  /\ UNCHANGED <<control, pc, frames, machine, history>>

\* Mutant: the buffer is full one frame late.
HookSendFullLate(p) ==
  /\ pc[p] = "run" /\ ~ syncTrap[p]
  /\ Connected(p)
  /\ Len(sent[p]) < MaxFrames \/ link[p] # "up"
  /\ IF list[p] = NoList
       THEN Crash(p) /\ UNCHANGED <<control, full, suspended, sent>>
       ELSE /\ suspended' = [suspended EXCEPT ![p] = FALSE]
            /\ full' = [full EXCEPT ![p] = @ \/ current[p] = Delta]
            /\ IF CanSend(p)
                 THEN /\ Send(p, [type |-> "frame", list |-> list[p][current[p]]])
                      /\ sent' = [sent EXCEPT ![p] = Append(@, list[p][current[p]])]
                      /\ Goto(p, "receive")
                      /\ UNCHANGED control
                 ELSE Disconnect(p, "receive") /\ UNCHANGED sent
  /\ UNCHANGED <<list, current, toPlay, syncTrap, machine, session, connects, failed>>

\* network_hook_connected_send(), and network_hook_connected_receive() up to the
\* question whether there is anything to wait for.  A failure to send is not
\* told to the second.
HookSend(p) ==
  /\ pc[p] = "run" /\ ~ syncTrap[p]
  /\ Connected(p)
  /\ Len(sent[p]) < MaxFrames \/ link[p] # "up"
  /\ IF list[p] = NoList
       THEN Crash(p) /\ UNCHANGED <<control, full, suspended, sent>>
       ELSE /\ suspended' = [suspended EXCEPT ![p] = FALSE]
            /\ full' = [full EXCEPT ![p] = @ \/ current[p] = Delta - 1]
            /\ IF CanSend(p)
                 THEN /\ Send(p, [type |-> "frame", list |-> list[p][current[p]]])
                      /\ sent' = [sent EXCEPT ![p] = Append(@, list[p][current[p]])]
                      /\ Goto(p, "receive")
                      /\ UNCHANGED control
                 ELSE Disconnect(p, "receive") /\ UNCHANGED sent
  /\ UNCHANGED <<list, current, toPlay, syncTrap, machine, session, connects, failed>>

\* network_hook_connected_receive(): the first frames have nothing to wait for.
SkipReceive(p) ==
  /\ pc[p] = "receive"
  /\ ~ full[p]
  /\ machine' = [machine EXCEPT ![p] = Append(@, <<>>)]
  /\ PrepareNextFrame(p)
  /\ Goto(p, "run")
  /\ UNCHANGED <<control, full, suspended, wire, history>>

\* The peer has suspended: the wait goes on.
ReceiveSuspended(p) ==
  /\ pc[p] = "receive" /\ full[p]
  /\ Receives(p, "suspended")
  /\ Read(p)
  /\ suspended' = [suspended EXCEPT ![p] = TRUE]
  /\ UNCHANGED <<control, pc, frames, machine, link, backlog, history>>

\* The test for sync: it compares five registers, which may be equal when the
\* machines are not.
InSync(own, remote) ==
  own.sync # <<>> /\ remote.sync # <<>> => own.sync = remote.sync

\* Mutant: the lists are played in the order own, remote.
ReceiveFrameOwnFirst(p) ==
  /\ pc[p] = "receive" /\ full[p]
  /\ Receives(p, "frame")
  /\ LET remote == Head(chan[p]).list
         own == list[p][toPlay[p]]
     IN  /\ machine' = [machine EXCEPT ![p] = Append(@, <<own.events, remote.events>>)]
         /\ \E equal \in {TRUE, InSync(own, remote)} :
              IF equal
                THEN Goto(p, "run") /\ Read(p) /\ UNCHANGED <<control, link, backlog>>
                ELSE Disconnect(p, "run")
  /\ PrepareNextFrame(p)
  /\ UNCHANGED <<full, suspended, history>>

\* The peer's frame: the server's list is played first on both sides.
ReceiveFrame(p) ==
  /\ pc[p] = "receive" /\ full[p]
  /\ Receives(p, "frame")
  /\ LET remote == Head(chan[p]).list
         own == list[p][toPlay[p]]
     IN  /\ machine' = [machine EXCEPT ![p] = Append(@,
                          IF mode[p] = "serverConnected"
                            THEN <<own.events, remote.events>>
                            ELSE <<remote.events, own.events>>)]
         /\ \E equal \in {TRUE, InSync(own, remote)} :
              IF equal
                THEN Goto(p, "run") /\ Read(p) /\ UNCHANGED <<control, link, backlog>>
                ELSE Disconnect(p, "run")
  /\ PrepareNextFrame(p)
  /\ UNCHANGED <<full, suspended, history>>

\* No length: the hook ends with the session.  No bytes after the length: it
\* ends without a word, and the frame is sent again.
ReceiveFails(p) ==
  /\ pc[p] = "receive" /\ full[p]
  /\ ReadFails(p)
  /\ \/ Disconnect(p, "run")
     \/ link[p] = "reset" /\ Goto(p, "run") /\ UNCHANGED <<control, wire>>
  /\ UNCHANGED <<frames, suspended, machine, history>>

-----------------------------------------------------------------------------

Init ==
  /\ mode = [p \in Peer |-> "idle"]
  /\ socket = [p \in Peer |-> "none"]
  /\ listen = "none"
  /\ pc = [p \in Peer |-> "run"]
  /\ list = [p \in Peer |-> NoList]
  /\ current = [p \in Peer |-> 0]
  /\ toPlay = [p \in Peer |-> 0]
  /\ full = [p \in Peer |-> FALSE]
  /\ suspended = [p \in Peer |-> FALSE]
  /\ syncTrap = [p \in Peer |-> FALSE]
  /\ machine = [p \in Peer |-> <<>>]
  /\ link = [p \in Peer |-> "none"]
  /\ chan = [p \in Peer |-> <<>>]
  /\ backlog = FALSE
  /\ session = [p \in Peer |-> 0]
  /\ sent = [p \in Peer |-> <<>>]
  /\ connects = 0
  /\ failed = FALSE

\* What the VICE thread of a peer does by itself.
Server == Accept \/ SendSnapshot \/ SendSettings \/ SendTest \/ SendDelta
Client == ReceiveSnapshot \/ ConnectFails \/ ReceiveSettings \/ Echo \/ ReceiveDelta
Frame(p) ==
  \/ TestFails(p) \/ SyncTest(p) \/ HookSend(p) \/ SkipReceive(p)
  \/ ReceiveSuspended(p) \/ ReceiveFrame(p) \/ ReceiveFails(p) \/ Spin(p)

Next ==
  \/ Server \/ Client \/ \E p \in Peer : Frame(p)
  \/ StartServer \/ Connect \/ Break
  \/ \E p \in Peer : UserDisconnect(p) \/ Suspend(p) \/ Reset(p)
  \/ \E p \in Peer : \E e \in Event : Record(p, e)

Spec == Init /\ [][Next]_vars

\* A machine that is not paused runs, and with it both hooks.
FairSpec ==
  /\ Spec
  /\ WF_vars(Server) /\ WF_vars(Client)
  /\ \A p \in Peer : WF_vars(Frame(p))

-----------------------------------------------------------------------------

\* The variables keep their types; both frame indexes stay in the ring.
TypeOK ==
  /\ mode \in [Peer -> {"idle", "server", "serverConnected", "client"}]
  /\ socket \in [Peer -> {"none", "open", "closed"}]
  /\ listen \in {"none", "open", "closed"}
  /\ pc \in [Peer -> {"run", "connecting", "trap", "offer", "ping", "test",
                      "receive", "spin", "abort", "crash"}]
  /\ list \in [Peer -> {NoList} \cup [0 .. Delta - 1 -> EventList]]
  /\ current \in [Peer -> 0 .. Delta - 1]
  /\ toPlay \in [Peer -> 0 .. Delta - 1]
  /\ full \in [Peer -> BOOLEAN]
  /\ suspended \in [Peer -> BOOLEAN]
  /\ syncTrap \in [Peer -> BOOLEAN]
  /\ machine \in [Peer -> Machine]
  /\ link \in [Peer -> {"none", "up", "eof", "reset"}]
  /\ chan \in [Peer -> Seq(Message)]
  /\ backlog \in BOOLEAN
  /\ session \in [Peer -> Nat]
  /\ sent \in [Peer -> Seq(EventList)]
  /\ connects \in Nat
  /\ failed \in BOOLEAN

SameSession == session["server"] = session["client"]

\* Both machines play the same: frame k plays what both users did Delta - 1
\* frames before, the server's events first; every event of either user is
\* played by both, once (network_hook_connected_receive()).
Lockstep ==
  SameSession =>
    \A p \in Peer : \A k \in DOMAIN machine[p] :
      IF k < Delta THEN machine[p][k] = <<>>
      ELSE /\ \A q \in Peer : k - Delta + 1 \in DOMAIN sent[q]
           /\ machine[p][k] = <<sent["server"][k - Delta + 1].events,
                                sent["client"][k - Delta + 1].events>>

\* Neither peer runs more than Delta frames ahead of the other, so that a frame
\* is played before its list is used again (network_prepare_next_frame()).
BoundedSkew ==
  SameSession => /\ Len(sent["server"]) - Len(sent["client"]) <= Delta
                 /\ Len(sent["client"]) - Len(sent["server"]) <= Delta

\* A peer that waits for the other is answered while the connection is up, the
\* other does not wait on a connection that has ended and every snapshot has
\* been written and read (network_hook(), network_suspend()).
WaitEnds ==
  \A p \in Peer :
    Waits(p) ~> ~ Waits(p) \/ link[p] # "up" \/ pc[Other(p)] = "spin" \/ failed

\* The pool's assertion: no socket is closed twice
\* (vice_network_socket_close(), network_disconnect()).
NoDoubleClose == \A p \in Peer : pc[p] # "abort"
=============================================================================
