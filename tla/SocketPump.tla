----------------------------- MODULE SocketPump ------------------------------
(***************************************************************************)
(* The socket pump of libZaeUtil/socket_pump.c and the client sessions it  *)
(* drives: telnet sessions of the command line (cli_commands.c, socket_    *)
(* io.c), requests of the REST interface and its event subscribers (vty_   *)
(* io.c, cli_rest.c).                                                      *)
(*                                                                         *)
(* A session is a vty with its file descriptor.  It enters the table when  *)
(* its connection is accepted.  Unregistering it only marks the entry; the *)
(* entry goes, and vty_free runs and closes the descriptor, when           *)
(* socket_pump_poll comes by.  A command may wait for the Z-Wave network,  *)
(* and then polls the sockets again inside the handler that runs it.       *)
(***************************************************************************)
EXTENDS Integers, FiniteSets

CONSTANTS
  MaxPollFds,   \* entries of the table (256 in the code)
  MaxFds,       \* bound: descriptors the process may open for sessions
  MaxSessions,  \* bound: connections accepted in a behaviour
  MaxDepth      \* bound: polls active at once

ASSUME LimitsAssumption ==
  /\ MaxPollFds \in Nat \ {0}
  /\ MaxFds \in Nat /\ MaxSessions \in Nat
  /\ MaxDepth \in Nat \ {0}

Index == 1 .. MaxPollFds
Sessions == 1 .. MaxSessions
Server == 0      \* the listening socket: its descriptor, and its entry's context
NoFd == -1       \* what a failed accept returns
Fds == NoFd .. MaxFds

Entry == [ fd      : Fds,
           sess    : Sessions \cup {Server},
           out     : BOOLEAN,               \* POLLOUT is in events
           revents : SUBSET {"in", "out"},
           drop    : Sessions \cup {Server} ]  \* unsubscribe_arg while
                                            \* remove_pending_flag is set, or Server

Vty == [ state   : {"none", "live", "freed"},
         kind    : {"telnet", "http"},
         fd      : Fds,
         pending : BOOLEAN,                 \* a flush left data behind
         sse     : {"no", "on", "off"} ]    \* in_use is set unless "no"; "off"
                                            \* when sse_event_handler is gone

Frame == [ at     : {"scan", "greet", "read", "command", "write", "purge"},
           i      : Nat \ {0},
           sess   : Sessions \cup {Server}, \* context of the handler that runs
           nested : BOOLEAN ]               \* history: that handler polled

VARIABLES
  table,     \* fds and event_callbacks
  free,      \* free_index: entries 1 .. free are in use
  vty,       \* the sessions, numbered as they are accepted
  peer,      \* what the other end of each has done
  again,     \* errno is EAGAIN
  refused,   \* history: the sessions that found the table full
  frame,     \* the active polls, innermost last
  depth,     \* how many polls are active
  dangling   \* a handler went on with a freed session: undefined from here on

vars == <<table, free, vty, peer, again, refused, frame, depth, dangling>>

-----------------------------------------------------------------------------
Zeroed == [fd |-> Server, sess |-> Server, out |-> FALSE, revents |-> {},
           drop |-> Server]
NoVty == [state |-> "none", kind |-> "http", fd |-> Server, pending |-> FALSE,
          sse |-> "no"]
NewFrame == [at |-> "scan", i |-> 1, sess |-> Server, nested |-> FALSE]

InUse == 1 .. free
Alive == {s \in Sessions : vty[s].state = "live"}
Unused == {s \in Sessions : vty[s].state = "none"}
FreeFds == (1 .. MaxFds) \ {vty[s].fd : s \in Alive}
Least(S) == {n \in S : \A m \in S : n <= m}

Top == frame[depth]
Here == table[Top.i]
Running(at) == depth > 0 /\ Top.at = at
Goto(at) == frame' = [frame EXCEPT ![depth].at = at]

Init ==
  /\ table = [k \in Index |-> Zeroed]
  /\ free = 1
  /\ vty = [s \in Sessions |-> NoVty]
  /\ peer = [s \in Sessions |-> "quiet"]
  /\ again = FALSE
  /\ refused = {}
  /\ frame = [k \in 1 .. MaxDepth |-> NewFrame]
  /\ depth = 0
  /\ dangling = FALSE

-----------------------------------------------------------------------------
\* The other ends, at the moments the program can tell.
PeerActs(s) ==
  /\ s \in Alive
  /\ vty[s].fd # NoFd
  /\ depth > 0 => Top.at \notin {"scan", "purge"}
  /\ \E act \in {"talking", "gone"} :
       /\ peer[s] \notin {act, "gone"}
       /\ peer' = [peer EXCEPT ![s] = act]
  /\ UNCHANGED <<table, free, vty, again, refused, frame, depth, dangling>>

-----------------------------------------------------------------------------
\* The first entry with this descriptor, as the loops over the table find it.
FirstWith(n) == {k \in InUse : table[k].fd = n /\ \A j \in 1 .. k - 1 : table[j].fd # n}

\* socket_pump_remove_sock of a session's descriptor, always with vty_free and that
\* session.  The entry found is another session's when both have descriptor -1.
Unregistered(s) ==
  [k \in Index |-> IF k \in FirstWith(vty[s].fd) THEN [table[k] EXCEPT !.drop = s]
                                                 ELSE table[k]]

\* socket_pump_set_event_flags with POLLOUT, for a session that was written to and
\* that ends with the write, or not.
Flushed(s, rest, ends) ==
  [k \in Index |->
     IF k \in FirstWith(vty[s].fd)
       THEN [table[k] EXCEPT !.out = rest, !.drop = IF ends THEN s ELSE @]
       ELSE table[k]]

\* Mutant: POLLOUT stays set after the last byte.
SendAll_KeepsOut(s, ends, sse) ==
  /\ vty[s].fd # NoFd
  /\ vty' = [vty EXCEPT ![s].pending = FALSE, ![s].sse = sse]
  /\ table' = Flushed(s, TRUE, ends)
  /\ UNCHANGED again

\* socket_send and socket_send_v, for a session that is or becomes an event
\* subscriber, or not: everything is sent; or a part, or nothing (EAGAIN), and POLLOUT
\* stays set for the rest; or it fails, and socket_write_cb or http_flush_cb
\* unregisters the session.  What is sent to a peer that is gone may or may not fail.
SendAll(s, ends, sse) ==
  /\ vty[s].fd # NoFd
  /\ vty' = [vty EXCEPT ![s].pending = FALSE, ![s].sse = sse]
  /\ table' = Flushed(s, FALSE, ends)
  /\ UNCHANGED again

SendPart(s, ends, sse) ==
  /\ peer[s] # "gone" /\ vty[s].fd # NoFd
  /\ vty' = [vty EXCEPT ![s].pending = TRUE, ![s].sse = sse]
  /\ table' = Flushed(s, TRUE, ends)
  /\ again' \in {again, TRUE}

\* Mutant: a failed send frees the session at once.
SendFails_FreesNow(s, sse) ==
  /\ peer[s] = "gone" \/ vty[s].fd = NoFd
  /\ vty' = [vty EXCEPT ![s] = [NoVty EXCEPT !.state = "freed"]]
  /\ table' = Flushed(s, FALSE, TRUE)
  /\ again' = FALSE

SendFails(s, sse) ==
  /\ peer[s] = "gone" \/ vty[s].fd = NoFd
  /\ vty' = [vty EXCEPT ![s].pending = TRUE, ![s].sse = sse]
  /\ table' = Flushed(s, FALSE, TRUE)
  /\ again' = FALSE

\* vty_flush of a session that stays the subscriber it is, or is none.
Send(s, ends) ==
  LET sse == vty[s].sse
  IN  SendAll(s, ends, sse) \/ SendPart(s, ends, sse) \/ SendFails(s, sse)

-----------------------------------------------------------------------------
\* Code of the dispatcher thread that is not the pump's own.
InClient == depth > 0 => Top.at = "command" /\ Top.sess \in Alive

\* vty_write to a telnet session: by the command it runs, or by valogger_log, from
\* anywhere, to the sessions that asked for the log.
Output(s) ==
  /\ InClient
  /\ s \in Alive
  /\ vty[s].kind = "telnet"
  /\ Send(s, FALSE)
  /\ UNCHANGED <<free, peer, refused, frame, depth, dangling>>

\* sse_event_handler: an event for a subscriber.  The handler is unregistered when the
\* flush fails.
SseEvent(s) ==
  /\ InClient
  /\ s \in Alive
  /\ vty[s].sse = "on"
  /\ SendAll(s, FALSE, "on") \/ SendPart(s, FALSE, "on") \/ SendFails(s, "off")
  /\ UNCHANGED <<free, peer, refused, frame, depth, dangling>>

-----------------------------------------------------------------------------
\* socket_pump_poll, when poll() reports something: a connection, data, the end of
\* one, room to write, or something about a descriptor that has no session here
\* (stdin, the pipe from homebridge).  When it reports nothing the pump does nothing.
Readable(k) ==
  table[k].sess \in Alive /\ peer[table[k].sess] # "quiet" /\ table[k].fd # NoFd
Writable(k) == table[k].out /\ table[k].fd # NoFd
Connects(k) == table[k].sess = Server /\ Unused # {}
Reported(k, in, out) == {e \in {"in"} : k \in in} \cup {e \in {"out"} : k \in out}

PollBegin ==
  /\ InClient
  /\ depth < MaxDepth
  /\ \E out \in SUBSET {k \in InUse : Writable(k)},
        connect \in SUBSET {k \in InUse : Connects(k)} :
       LET in == {k \in InUse : Readable(k)} \cup connect
       IN  table' = [k \in Index |->
             IF k \in InUse THEN [table[k] EXCEPT !.revents = Reported(k, in, out)]
                            ELSE table[k]]
  /\ depth' = depth + 1
  /\ frame' = [k \in 1 .. MaxDepth |->
                 IF k <= depth THEN [frame[k] EXCEPT !.nested = TRUE]
                 ELSE IF k = depth + 1 THEN NewFrame ELSE frame[k]]
  /\ UNCHANGED <<free, vty, peer, again, refused, dangling>>

\* What poll() reported for the entry is looked at.  An inner poll may have
\* written it anew.
Visit ==
  /\ Running("scan")
  /\ Top.i <= free
  /\ Here.revents # {}
  /\ frame' = [frame EXCEPT ![depth] =
       [at |-> IF "in" \in Here.revents THEN "read" ELSE "write",
        i |-> Top.i, sess |-> Here.sess, nested |-> FALSE]]
  /\ UNCHANGED <<table, free, vty, peer, again, refused, depth, dangling>>

HasRoom == free < MaxPollFds

\* socket_pump_add_sock, when the table is not full.
Added(n, s) ==
  [table EXCEPT ![free + 1] = [fd |-> n, sess |-> s, out |-> FALSE,
                               revents |-> @.revents, drop |-> Server]]

\* The connect handlers: accept, vty_io_create and socket_pump_add_sock, which
\* answers -1 when the table is full.  Nobody looks at either result.  The command
\* line then writes its banner.
Accept(kind) ==
  /\ Running("read")
  /\ Top.sess = Server
  /\ \E s \in Least(Unused), n \in IF FreeFds = {} THEN {NoFd} ELSE Least(FreeFds) :
      /\ vty' = [vty EXCEPT ![s] =
           [state |-> "live", kind |-> kind, fd |-> n, pending |-> FALSE, sse |-> "no"]]
      /\ IF HasRoom
           THEN /\ table' = Added(n, s)
                /\ free' = free + 1
                /\ UNCHANGED refused
           ELSE refused' = refused \cup {s} /\ UNCHANGED <<table, free>>
      /\ frame' = [frame EXCEPT ![depth].at = IF kind = "telnet" THEN "greet" ELSE "purge",
                                ![depth].sess = s]
  /\ UNCHANGED <<peer, again, depth, dangling>>

Greet ==
  /\ Running("greet")
  /\ Send(Top.sess, FALSE)
  /\ Goto("purge")
  /\ UNCHANGED <<free, peer, refused, depth, dangling>>

\* socket_recv in a read handler.  Data: the command is carried out, if it is
\* complete.  No data: EAGAIN.  The end of the stream: recv answers 0 and leaves errno
\* alone, so the session is unregistered unless the last failure was an EAGAIN.
Receive ==
  /\ Running("read")
  /\ Top.sess # Server
  /\ \/ /\ peer[Top.sess] = "talking"
        /\ peer' = [peer EXCEPT ![Top.sess] = "quiet"]
        /\ Goto("command") \/ Goto("write")
        /\ UNCHANGED <<table, again>>
     \/ /\ peer[Top.sess] = "quiet"
        /\ again' = TRUE
        /\ Goto("write")
        /\ UNCHANGED <<table, peer>>
     \/ /\ peer[Top.sess] = "gone"
        /\ table' = IF again THEN table ELSE Unregistered(Top.sess)
        /\ Goto("write")
        /\ UNCHANGED <<peer, again>>
  /\ UNCHANGED <<free, vty, refused, depth, dangling>>

\* cmd_subscribe_sse: the headers are flushed and the session is marked in use,
\* whatever became of them.
Subscribe ==
  /\ Running("command")
  /\ Top.sess \in Alive
  /\ vty[Top.sess].kind = "http"
  /\ \/ SendAll(Top.sess, FALSE, "on")
     \/ SendPart(Top.sess, FALSE, "on")
     \/ SendFails(Top.sess, "on")
  /\ UNCHANGED <<free, peer, refused, frame, depth, dangling>>

\* The handler goes on after the command.  A telnet session is given its prompt, and
\* ends if the command was exit; a request is answered and ends, with what could not be
\* sent yet, unless it became a subscription, which is not flushed here.
CommandDone ==
  /\ Running("command")
  /\ Top.sess \in Alive
  /\ \/ /\ vty[Top.sess].kind = "telnet"
        /\ \E exit \in BOOLEAN : Send(Top.sess, exit)
     \/ /\ vty[Top.sess].kind = "http" /\ vty[Top.sess].sse = "no"
        /\ Send(Top.sess, TRUE)
     \/ /\ vty[Top.sess].sse # "no"
        /\ UNCHANGED <<table, vty, again>>
  /\ Goto("write")
  /\ UNCHANGED <<free, peer, refused, depth, dangling>>

\* The session was freed while its command waited: the thread goes no further here.
Dangle ==
  /\ Running("command")
  /\ Top.sess \notin Alive
  /\ dangling' = TRUE
  /\ UNCHANGED <<table, free, vty, peer, again, refused, frame, depth>>

\* vty_nonblock_write_event, if POLLOUT is reported for the entry by now.
\* socket_flush_cb looks whether there is anything to write, http_flush_cb does not.
Write ==
  /\ Running("write")
  /\ "out" \in Here.revents
  /\ Here.sess \in Alive
  /\ IF vty[Here.sess].pending \/ vty[Here.sess].kind = "http"
       THEN Send(Here.sess, FALSE)
       ELSE UNCHANGED <<table, vty, again>>
  /\ Goto("purge")
  /\ UNCHANGED <<free, peer, refused, depth, dangling>>

\* Mutant: on_unsubscribe is not run.
Closed_Never(v) == v

\* vty_free, which does nothing to a session in use.
Closed(v) == IF v.sse = "no" THEN [NoVty EXCEPT !.state = "freed"] ELSE v

\* Mutant: only the descriptor moves, the callbacks stay.
Compacted_FdOnly(k) ==
  [[table EXCEPT ![k] = [table[k] EXCEPT !.fd = table[free].fd]] EXCEPT ![free] = Zeroed]

\* socket_purge_sockets: the last entry is copied over, and its old place zeroed.
Compacted(k) == [[table EXCEPT ![k] = table[free]] EXCEPT ![free] = Zeroed]

NextEntry == frame' = [frame EXCEPT ![depth] = [NewFrame EXCEPT !.i = Top.i + 1]]

\* The handlers of the entry are done, or it had none to call.
Leaving ==
  depth > 0 /\ \/ Top.at = "purge"
               \/ Top.at = "write" /\ "out" \notin Here.revents
               \/ Top.at = "scan" /\ Top.i <= free /\ Here.revents = {}

\* A session that is freed a second time leaves the program undefined as well.
Purge ==
  /\ Leaving
  /\ Here.drop # Server
  /\ IF Here.drop \in Alive
       THEN /\ vty' = [vty EXCEPT ![Here.drop] = Closed(@)]
            /\ table' = Compacted(Top.i)
            /\ free' = free - 1
            /\ peer' = [peer EXCEPT ![Here.drop] =
                          IF vty[Here.drop].sse = "no" THEN "quiet" ELSE @]
            /\ NextEntry
            /\ UNCHANGED dangling
       ELSE dangling' = TRUE /\ UNCHANGED <<vty, table, free, peer, frame>>
  /\ UNCHANGED <<again, refused, depth>>

Keep ==
  /\ Leaving
  /\ Here.drop = Server
  /\ NextEntry
  /\ UNCHANGED <<table, free, vty, peer, again, refused, depth, dangling>>

\* The next poll of the main loop writes revents anew before it reads them.
Unreported == [k \in Index |-> [table[k] EXCEPT !.revents = {}]]

PollEnd ==
  /\ Running("scan")
  /\ Top.i > free
  /\ depth' = depth - 1
  /\ frame' = [frame EXCEPT ![depth] = NewFrame]
  /\ table' = IF depth = 1 THEN Unreported ELSE table
  /\ UNCHANGED <<free, vty, peer, again, refused, dangling>>

-----------------------------------------------------------------------------
Step ==
  \/ PollBegin
  \/ Visit
  \/ \E kind \in {"telnet", "http"} : Accept(kind)
  \/ Greet
  \/ Receive
  \/ Dangle
  \/ Write
  \/ Purge
  \/ Keep
  \/ PollEnd

Next ==
  \/ \E s \in Sessions : PeerActs(s) \/ Output(s) \/ SseEvent(s)
  \/ Subscribe
  \/ CommandDone
  \/ Step

Spec == Init /\ [][Next]_vars

\* The dispatcher keeps polling, handlers run on, and commands come to an end.
FairSpec == Spec /\ WF_vars(Step) /\ SF_vars(CommandDone)
-----------------------------------------------------------------------------
Listed(s) == \E k \in InUse : table[k].sess = s

\* An entry is that of a session which exists, with the session's own descriptor,
\* and no two entries are for one session or one open descriptor: although
\* descriptors are reused, a callback gets the session of its connection.  An entry
\* with descriptor -1, which poll() passes by, may outlive its session.
Open(k) == k \in InUse \ {1} /\ table[k].fd # NoFd

EntriesMatch ==
  /\ \A k \in Index : Open(k) => /\ table[k].sess \in Alive
                                 /\ table[k].fd = vty[table[k].sess].fd
  /\ \A j, k \in InUse : j # k => /\ table[j].sess # table[k].sess
                                  /\ table[j].fd # table[k].fd \/ table[j].fd = NoFd

\* A session is freed once the pump has dropped it.  The ones that stay behind are
\* those that subscribed to events, those that found the table full, and those
\* without a descriptor, whose entries are taken for each other's.
NoneForgotten ==
  \A s \in Alive : Listed(s) \/ vty[s].sse # "no" \/ s \in refused \/ vty[s].fd = NoFd

\* POLLOUT is set for nothing but data that a flush of a command line session, of an
\* answer or of an event left behind, and such data has POLLOUT set as long as its entry
\* is not to go: a failed send takes it off, and unregisters the session.
WriteInterest ==
  \A k \in Index : Open(k) =>
    LET waits == vty[table[k].sess].pending
    IN  (table[k].out => waits) /\ (waits /\ table[k].drop = Server => table[k].out)

\* Only a command that waits, and so polls the sockets itself, can find its session
\* freed when it is done, and only a session without a descriptor is freed twice.
DanglesOnlyNested == dangling => Top.nested \/ Here.fd = NoFd

\* The session of a client that disconnected leaves the table, as the return values
\* of socket_recv promise (socket.c:62).
ClosedPeerGoes ==
  \A s \in Sessions : (Listed(s) /\ peer[s] = "gone") ~> (~Listed(s) \/ dangling)
=============================================================================
