---------------------------- MODULE CommandServer ----------------------------
(***************************************************************************)
(* The command server of bcp-fetch-client: a thread that polls a listening *)
(* socket and the connections of its clients and writes what they send to  *)
(* a pipe, and the application's thread, which takes commands from the     *)
(* pipe, broadcasts and destroys the server.  The threads share the table  *)
(* of connections and the flag "running" without a lock.                   *)
(*                                                                         *)
(* What clients send is counted in pieces: piece n of client c; a read     *)
(* returns some of those that have arrived.  A file descriptor is named by *)
(* its client.                                                             *)
(***************************************************************************)
EXTENDS Integers, Sequences, FiniteSets

CONSTANTS
  Clients,         \* the clients that may connect, each once
  MaxConnections,  \* max_connections
  PipeSize,        \* what the commands pipe holds
  BufferSize,      \* BUFFER_SIZE - 1
  Aborting,        \* the clients that go by resetting the connection, if they go
  MaxPieces        \* bound: MaxPieces[c] pieces are sent by c

ASSUME ConstantsAssumption ==
  /\ MaxConnections \in Nat \ {0} /\ MaxPieces \in [Clients -> Nat]
  /\ PipeSize \in Nat \ {0} /\ BufferSize \in Nat \ {0}
  /\ Aborting \subseteq Clients

VARIABLES
  running,    \* server->running
  thread,     \* where server_thread is
  i,          \* ... its index in the table
  j,          \* ... and that of memmove
  rev,        \* rev[k]: POLLIN in fds[k].revents, stale behind what was polled
  tab,        \* connections, num_connections of them
  buf,        \* buffer of server_thread
  pipe,       \* the commands pipe
  app,        \* where the application's thread is
  b,          \* the index of command_server_broadcast
  success,    \* ... and its success
  heard,      \* heard[c]: how often the broadcast was written to c
  present,    \* history: the clients in the table when it began
  disturbed,  \* history: a connection was removed during it
  sock,       \* sock[c]: the server's end of the connection
  peer,       \* peer[c]: the client's end
  inq,        \* inq[c]: pieces that have arrived and are not read
  sent,       \* sent[c]: how many pieces c has sent
  got         \* got[c]: the last piece of c that command_server_recv returned

threadVars == <<thread, i, j, rev, buf>>
appVars == <<running, app, b, success, heard, present, disturbed, got>>
clientVars == <<peer, sent>>
vars == <<threadVars, tab, appVars, clientVars, pipe, sock, inq>>

-----------------------------------------------------------------------------
Slots == 1 .. MaxConnections

\* The client has closed its end; or it has reset the connection, which the next
\* call on the socket reports; or that is reported already, or not for a call to
\* report: the next write raises SIGPIPE.
Gone == {"closed", "aborted", "reset"}

\* A piece of what a client sent, and the newline behind what one read returned.
Piece(c, n) == [num |-> n, from |-> c]

NewLine == [num |-> 0]

Cells == [num : Nat \ {0}, from : Clients] \union {NewLine}

TypeOK ==
  /\ running \in BOOLEAN
  /\ thread \in {"top", "polling", "accept", "read", "write", "newline", "shift", "exited"}
  /\ i \in Slots /\ j \in Slots
  /\ rev \in [Slots -> BOOLEAN]
  /\ tab \in Seq(Clients) /\ Len(tab) <= MaxConnections
  /\ buf \in Seq(Cells) /\ pipe \in Seq(Cells)
  /\ app \in {"idle", "broadcast", "joining", "destroyed", "killed"}
  /\ b \in 1 .. MaxConnections + 1
  /\ success \in BOOLEAN
  /\ heard \in [Clients -> Nat]
  /\ present \in SUBSET Clients
  /\ disturbed \in BOOLEAN
  /\ sock \in [Clients -> {"none", "backlog", "open", "closed"}]
  /\ peer \in [Clients -> {"none", "open"} \union Gone]
  /\ inq \in [Clients -> Seq(Cells)]
  /\ sent \in [Clients -> Nat]
  /\ got \in [Clients -> Nat]

\* command_server_create and command_server_listen have returned.  The thread
\* ends at once if it gets no memory; what malloc leaves in revents is arbitrary.
Init ==
  /\ running = TRUE
  /\ thread \in {"top", "exited"}
  /\ i = 1 /\ j = 1
  /\ rev \in [Slots -> BOOLEAN]
  /\ tab = << >>
  /\ buf = << >> /\ pipe = << >>
  /\ app = "idle" /\ b = 1 /\ success = TRUE
  /\ heard = [c \in Clients |-> 0]
  /\ present = {} /\ disturbed = FALSE
  /\ sock = [c \in Clients |-> "none"]
  /\ peer = [c \in Clients |-> "none"]
  /\ inq = [c \in Clients |-> << >>]
  /\ sent = [c \in Clients |-> 0]
  /\ got = [c \in Clients |-> 0]

-----------------------------------------------------------------------------
(* server_thread.                                                          *)

At(pc) == thread = pc /\ app # "killed"

\* Fault: the loop does not look at running.
LoopForever ==
  /\ At("top")
  /\ thread' = "polling"
  /\ UNCHANGED <<i, j, rev, buf, tab, appVars, clientVars, pipe, sock, inq>>

\* while(server->running): the poll set is made of the table.
Loop ==
  /\ At("top")
  /\ thread' = IF running THEN "polling" ELSE "exited"
  /\ UNCHANGED <<i, j, rev, buf, tab, appVars, clientVars, pipe, sock, inq>>

\* The next connection, from k on, whose revents say POLLIN; if there is none the
\* turn is over.
GoOn(k, n, r) ==
  LET ready == {s \in Slots : k <= s /\ s <= n /\ r[s]}
  IN  IF ready = {}
      THEN thread' = "top" /\ i' = 1
      ELSE thread' = "read" /\ i' = CHOOSE s \in ready : \A t \in ready : s <= t

\* A read would not block.
Readable(c) == inq[c] # << >> \/ peer[c] \in Gone

Waiting == {c \in Clients : sock[c] = "backlog"}

\* What poll reports of the connections it was given.
Polled == [s \in Slots |-> IF s <= Len(tab) THEN Readable(tab[s]) ELSE rev[s]]

\* poll returns, at the latest after a second.
PollReturns ==
  /\ At("polling")
  /\ rev' = Polled
  /\ \/ Waiting # {} /\ thread' = "accept" /\ UNCHANGED i
     \/ Waiting = {} /\ GoOn(1, Len(tab), Polled)
  /\ UNCHANGED <<j, buf, tab, appVars, clientVars, pipe, sock, inq>>

\* ... with an error: after EINTR the loop goes on, after any other it ends.
PollFails ==
  /\ At("polling")
  /\ thread' \in {"top", "exited"}
  /\ UNCHANGED <<i, j, rev, buf, tab, appVars, clientVars, pipe, sock, inq>>

\* Fault: the limit of the table is not checked.
AcceptedUnlimited(c) ==
  /\ sock' = [sock EXCEPT ![c] = "open"]
  /\ tab' = Append(tab, c)

\* The connection is added to the table, or closed if that is full.
Accepted(c) ==
  \/ /\ Len(tab) < MaxConnections
     /\ sock' = [sock EXCEPT ![c] = "open"]
     /\ tab' = Append(tab, c)
  \/ /\ Len(tab) = MaxConnections
     /\ sock' = [sock EXCEPT ![c] = "closed"]
     /\ UNCHANGED tab

\* accept, which may fail.  Then the connections are gone through, the new one
\* with what is left in its revents.
Accept ==
  /\ At("accept")
  /\ \/ \E c \in Waiting : Accepted(c)
     \/ UNCHANGED <<sock, tab>>
  /\ GoOn(1, Len(tab'), rev)
  /\ UNCHANGED <<j, rev, buf, appVars, clientVars, pipe, inq>>

\* read returns k pieces.
ReadData(k) ==
  /\ At("read") /\ k <= Len(inq[tab[i]]) /\ k <= BufferSize
  /\ buf' = SubSeq(inq[tab[i]], 1, k)
  /\ inq' = [inq EXCEPT ![tab[i]] = SubSeq(@, k + 1, Len(@))]
  /\ thread' = "write"
  /\ UNCHANGED <<i, j, rev, tab, appVars, clientVars, pipe, sock>>

\* Fault: the descriptor of a connection that has ended is not closed.
ReadEndsUnclosed ==
  /\ At("read") /\ inq[tab[i]] = << >> /\ peer[tab[i]] \in Gone
  /\ thread' = "shift" /\ j' = i
  /\ disturbed' = (app = "broadcast")
  /\ UNCHANGED <<i, rev, buf, tab, running, app, b, success, heard, present, got,
                 clientVars, pipe, sock, inq>>

\* read returns 0 or an error: the descriptor is closed, and memmove begins.
ReadEnds ==
  /\ At("read") /\ inq[tab[i]] = << >> /\ peer[tab[i]] \in Gone
  /\ sock' = [sock EXCEPT ![tab[i]] = "closed"]
  /\ thread' = "shift" /\ j' = i
  /\ disturbed' = (app = "broadcast")
  /\ UNCHANGED <<i, rev, buf, tab, running, app, b, success, heard, present, got,
                 clientVars, pipe, inq>>

\* memmove, entry by entry, in front of the other thread; then the number of
\* connections, and on with the entry that took the place, whose revents are
\* those of the one removed.
Shift ==
  /\ At("shift")
  /\ \/ /\ j < Len(tab)
        /\ tab' = [tab EXCEPT ![j] = tab[j + 1]]
        /\ j' = j + 1
        /\ UNCHANGED <<thread, i>>
     \/ /\ j = Len(tab)
        /\ tab' = SubSeq(tab, 1, j - 1)
        /\ GoOn(i, j - 1, rev)
        /\ j' = 1
  /\ UNCHANGED <<rev, buf, appVars, clientVars, pipe, sock, inq>>

\* Fault: what does not fit into the pipe is dropped.
WriteDataOrDrop ==
  /\ At("write")
  /\ pipe' = IF Len(pipe) + Len(buf) <= PipeSize THEN pipe \o buf ELSE pipe
  /\ buf' = << >>
  /\ thread' = "newline"
  /\ UNCHANGED <<i, j, rev, tab, appVars, clientVars, sock, inq>>

\* write of the data to the pipe: at once as a whole, when there is room.
WriteData ==
  /\ At("write") /\ Len(pipe) + Len(buf) <= PipeSize
  /\ pipe' = pipe \o buf
  /\ buf' = << >>
  /\ thread' = "newline"
  /\ UNCHANGED <<i, j, rev, tab, appVars, clientVars, sock, inq>>

\* Fault: the newline is written once a turn, behind what the last client sent.
WriteNewLineOnce ==
  /\ At("newline") /\ Len(pipe) < PipeSize
  /\ pipe' = IF \E s \in Slots : i < s /\ s <= Len(tab) /\ rev[s]
             THEN pipe ELSE Append(pipe, NewLine)
  /\ GoOn(i + 1, Len(tab), rev)
  /\ UNCHANGED <<j, rev, buf, tab, appVars, clientVars, sock, inq>>

\* write of the newline.
WriteNewLine ==
  /\ At("newline") /\ Len(pipe) < PipeSize
  /\ pipe' = Append(pipe, NewLine)
  /\ GoOn(i + 1, Len(tab), rev)
  /\ UNCHANGED <<j, rev, buf, tab, appVars, clientVars, sock, inq>>

Thread ==
  \/ Loop \/ PollReturns \/ Accept \/ ReadEnds \/ Shift \/ WriteData \/ WriteNewLine
  \/ \E k \in 1 .. BufferSize : ReadData(k)

-----------------------------------------------------------------------------
(* The application's thread.                                               *)

\* command_server_recv: what is in the pipe, as much as the buffer holds.
Recv ==
  /\ app = "idle" /\ pipe # << >>
  /\ LET n == IF Len(pipe) <= BufferSize THEN Len(pipe) ELSE BufferSize
         mine(c) == {pipe[k].num : k \in {l \in 1 .. n : pipe[l].num # 0 /\ pipe[l].from = c}}
     IN  /\ pipe' = SubSeq(pipe, n + 1, Len(pipe))
         /\ got' = [c \in Clients |-> got[c] + Cardinality(mine(c))]
  /\ UNCHANGED <<threadVars, tab, running, app, b, success, heard, present, disturbed,
                 clientVars, sock, inq>>

\* command_server_broadcast begins.
Broadcast ==
  /\ app = "idle"
  /\ app' = "broadcast"
  /\ present' = {tab[k] : k \in 1 .. Len(tab)}
  /\ disturbed' = (thread = "shift")
  /\ UNCHANGED <<threadVars, tab, running, b, success, heard, got, clientVars, pipe, sock,
                 inq>>

\* Fault: the result of the write is not looked at.
WriteFailsUnseen(c) ==
  /\ sock[c] = "open" => peer[c] = "aborted"
  /\ b' = b + 1
  /\ peer' = [peer EXCEPT ![c] = IF sock[c] = "open" THEN "reset" ELSE @]
  /\ UNCHANGED <<app, success, heard>>

\* write fails: the descriptor is closed, or the client has reset the connection,
\* which is reported once (ECONNRESET).
WriteFails(c) ==
  /\ sock[c] = "open" => peer[c] = "aborted"
  /\ b' = b + 1
  /\ success' = FALSE
  /\ peer' = [peer EXCEPT ![c] = IF sock[c] = "open" THEN "reset" ELSE @]
  /\ UNCHANGED <<app, heard>>

\* write takes the whole message.  A client that has gone answers with a reset.
WriteSucceeds(c) ==
  /\ sock[c] = "open" /\ peer[c] \in {"open", "closed"}
  /\ b' = b + 1
  /\ heard' = [heard EXCEPT ![c] = @ + 1]
  /\ peer' = [peer EXCEPT ![c] = IF @ = "closed" THEN "reset" ELSE @]
  /\ UNCHANGED <<app, success>>

\* A socket that was reset raises SIGPIPE, which nobody handles.
WriteKills(c) ==
  /\ sock[c] = "open" /\ peer[c] = "reset"
  /\ app' = "killed"
  /\ UNCHANGED <<b, success, heard, peer>>

\* The message is written to the next entry of the table.
BroadcastWrite ==
  /\ app = "broadcast" /\ b <= Len(tab)
  /\ WriteSucceeds(tab[b]) \/ WriteFails(tab[b]) \/ WriteKills(tab[b])
  /\ UNCHANGED <<threadVars, tab, running, present, disturbed, got, sent, pipe, sock,
                 inq>>

\* The end of the table, as it is now.
BroadcastEnds ==
  /\ app = "broadcast" /\ b > Len(tab)
  /\ app' = "idle" /\ b' = 1 /\ success' = TRUE
  /\ heard' = [c \in Clients |-> 0] /\ present' = {} /\ disturbed' = FALSE
  /\ UNCHANGED <<threadVars, tab, running, got, clientVars, pipe, sock, inq>>

\* command_server_destroy: the thread is told to stop and waited for.
Destroy ==
  /\ app = "idle"
  /\ app' = "joining" /\ running' = FALSE
  /\ UNCHANGED <<threadVars, tab, b, success, heard, present, disturbed, got, clientVars,
                 pipe, sock, inq>>

\* pthread_join returns: all sockets are closed, those not yet accepted with the
\* listening one.
Joined ==
  /\ app = "joining" /\ thread = "exited"
  /\ app' = "destroyed"
  /\ sock' = [c \in Clients |->
       IF sock[c] = "backlog" \/ c \in {tab[k] : k \in 1 .. Len(tab)} THEN "closed" ELSE sock[c]]
  /\ tab' = << >>
  /\ UNCHANGED <<threadVars, running, b, success, heard, present, disturbed, got,
                 clientVars, pipe, inq>>

-----------------------------------------------------------------------------
(* The clients.                                                            *)

Connects(c) ==
  /\ peer[c] = "none" /\ app \notin {"destroyed", "killed"}
  /\ peer' = [peer EXCEPT ![c] = "open"]
  /\ sock' = [sock EXCEPT ![c] = "backlog"]
  /\ UNCHANGED <<threadVars, tab, appVars, sent, pipe, inq>>

Sends(c) ==
  /\ peer[c] = "open" /\ sock[c] \in {"backlog", "open"} /\ sent[c] < MaxPieces[c]
  /\ sent' = [sent EXCEPT ![c] = @ + 1]
  /\ inq' = [inq EXCEPT ![c] = Append(@, Piece(c, sent[c] + 1))]
  /\ UNCHANGED <<threadVars, tab, appVars, peer, pipe, sock>>

\* The client closes its connection.  What has arrived survives that, and the
\* reset that a write to the connection then brings.
Leaves(c) ==
  /\ peer[c] = "open" /\ c \notin Aborting
  /\ peer' = [peer EXCEPT ![c] = "closed"]
  /\ UNCHANGED <<threadVars, tab, appVars, sent, pipe, sock, inq>>

\* The client, or its host, gives the connection up: it closes it with data
\* unread, or dies.
Aborts(c) ==
  /\ peer[c] = "open" /\ c \in Aborting
  /\ peer' = [peer EXCEPT ![c] = "aborted"]
  /\ UNCHANGED <<threadVars, tab, appVars, sent, pipe, sock, inq>>

-----------------------------------------------------------------------------
Next ==
  \/ Thread \/ PollFails
  \/ Recv \/ Broadcast \/ BroadcastWrite \/ BroadcastEnds \/ Destroy \/ Joined
  \/ \E c \in Clients : Connects(c) \/ Sends(c) \/ Leaves(c) \/ Aborts(c)

Spec == Init /\ [][Next]_vars

\* Both threads run; nothing is assumed of what the application and the clients
\* call and send.
Fairness == WF_vars(Thread) /\ WF_vars(Joined)

FairSpec == Spec /\ Fairness

-----------------------------------------------------------------------------
(* Properties.                                                             *)

\* The places in s that hold a piece of c.
PlacesOf(c, s) == {k \in 1 .. Len(s) : s[k].num # 0 /\ s[k].from = c}

\* The pieces of c in s are those behind the first m up to n, each once and in
\* their order.
InOrder(c, s, m, n) ==
  /\ m <= n
  /\ {s[k].num : k \in PlacesOf(c, s)} = m + 1 .. n
  /\ \A k, l \in PlacesOf(c, s) : k < l => s[k].num < s[l].num

\* Nothing that a client sent is lost, repeated or reordered between its socket
\* and command_server_recv, whatever revents server_thread goes by, however the
\* table is shifted and however full the pipe is: the pieces in the pipe, in
\* server_thread's buffer and in the socket follow those received without a gap.
CommandsInOrder ==
  \A c \in Clients : InOrder(c, pipe \o buf \o inq[c], got[c], sent[c])

\* What two reads returned is parted by a newline in the pipe: no line that the
\* application reads mixes the commands of two clients.
LinesIntact ==
  \A k \in 1 .. Len(pipe) - 1 :
    (pipe[k] # NewLine /\ pipe[k + 1] # NewLine) => pipe[k].from = pipe[k + 1].from

\* Outside of a removal the table holds the connections that are open, each once:
\* none is left open that is not polled, written to and closed by
\* command_server_destroy, and no descriptor is used that is closed.
NoSocketLeaks ==
  thread # "shift" =>
    /\ {tab[k] : k \in 1 .. Len(tab)} = {c \in Clients : sock[c] = "open"}
    /\ \A k, l \in 1 .. Len(tab) : tab[k] = tab[l] => k = l

\* A broadcast during which server_thread removes no connection is written at most
\* once to every client that was connected when it began, and if it returns 0 to
\* all of them, whoever is accepted, leaves or resets its connection meanwhile.
BroadcastReachesAll ==
  [][(app = "broadcast" /\ app' = "idle" /\ ~disturbed)
       => \A c \in present : heard[c] <= 1 /\ (success => heard[c] = 1)]_vars

\* server_thread is in a read that does not return: revents said POLLIN of another
\* connection, or of none.
HeldByClient == thread = "read" /\ ~Readable(tab[i])

\* server_thread is in a write to a pipe that nobody reads.
HeldByPipe ==
  \/ thread = "write" /\ Len(pipe) + Len(buf) > PipeSize
  \/ thread = "newline" /\ Len(pipe) = PipeSize

\* command_server_destroy does not wait for ever, unless server_thread is held for
\* ever by a client that sends nothing or by the full pipe.
DestroyEnds == []<>(app # "joining") \/ <>[](HeldByClient \/ HeldByPipe)
=============================================================================
