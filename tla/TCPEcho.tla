------------------------------ MODULE TCPEcho ------------------------------
(***************************************************************************)
(* TCPSocket and TCPServer of socket.cpp with the callbacks of its main(): *)
(* clients send, the server polls epoll, reads what has arrived and sends  *)
(* it back behind "ACK: ".                                                 *)
(*                                                                         *)
(* The server's thread runs poll() and sendAndRecv() in turn.  The clients *)
(* are threads of their own here; main() runs them in its one thread, in   *)
(* one of the orders this allows.  A connection is named by its client.    *)
(* The kernel (byte queues, accept queue, edge-triggered events) is        *)
(* external and modelled as far as the calls show it.  Byte k of a client  *)
(* is the number k, the "ACK: " of a reply is one byte, 0.                 *)
(***************************************************************************)
EXTENDS Integers, Sequences, SequencesExt

CONSTANTS
    Clients,
    CanClose,   \* the clients that may close their connection
    MaxBytes,   \* how many bytes a client sends
    MaxPushes,  \* messages the server's owner sends unasked; main() sends none
    WireCap     \* WireCap[c]: the unread bytes of c the kernel holds in one direction

ASSUME TCPAssumption ==
    /\ CanClose \subseteq Clients
    /\ MaxBytes \in Nat /\ MaxPushes \in Nat
    /\ WireCap \in [Clients -> Nat \ {0}]

VARIABLES
    (* the kernel *)
    link,          \* link[c]: what became of c's connection
    queue,         \* the listener's accept queue
    up, down,      \* bytes on their way to the server, and back
    edge,          \* edge[c]: events of the server's end not yet reported
    listen_edge,   \* the same for the listener
    (* the clients *)
    sent,          \* sent[c]: how many bytes c has sent
    got,           \* got[c]: what c has received
    (* TCPServer *)
    spc,
    sockets_, receive_sockets_, send_sockets_, disconnected_sockets_,
    unwatched,     \* the sockets that epoll_add() failed for
    todo,          \* the sockets this sendAndRecv() has still to call
    send_buffer_,  \* send_buffer_[c]: what is staged on the server's end
    pushes

kernelVars == <<link, queue, up, down, edge, listen_edge>>
clientVars == <<sent, got>>
pollVars == <<sockets_, receive_sockets_, send_sockets_, disconnected_sockets_, unwatched>>
vars == <<link, queue, up, down, edge, listen_edge, sent, got, spc, sockets_,
          receive_sockets_, send_sockets_, disconnected_sockets_, unwatched, todo,
          send_buffer_, pushes>>

Ack == 0
Bytes == 0 .. MaxBytes

TypeOK ==
    /\ link \in [Clients -> {"none", "open", "fin", "rst"}]
    /\ queue \in Seq(Clients)
    /\ up \in [Clients -> Seq(Bytes)]
    /\ down \in [Clients -> Seq(Bytes)]
    /\ \A c \in Clients : Len(up[c]) <= WireCap[c] /\ Len(down[c]) <= WireCap[c]
    /\ edge \in [Clients -> SUBSET {"IN", "OUT", "HUP"}]
    /\ listen_edge \in BOOLEAN
    /\ sent \in [Clients -> 0 .. MaxBytes]
    /\ got \in [Clients -> Seq(Bytes)]
    /\ spc \in {"idle", "accept", "polled", "serve"}
    /\ sockets_ \subseteq Clients
    /\ receive_sockets_ \subseteq Clients
    /\ send_sockets_ \subseteq Clients
    /\ disconnected_sockets_ \subseteq Clients
    /\ unwatched \subseteq Clients
    /\ todo \subseteq Clients
    /\ todo # {} => spc = "serve"
    /\ send_buffer_ \in [Clients -> Seq(Bytes)]
    /\ pushes \in 0 .. MaxPushes

Init ==
    /\ link = [c \in Clients |-> "none"]
    /\ queue = <<>>
    /\ up = [c \in Clients |-> <<>>]
    /\ down = [c \in Clients |-> <<>>]
    /\ edge = [c \in Clients |-> {}]
    /\ listen_edge = FALSE
    /\ sent = [c \in Clients |-> 0]
    /\ got = [c \in Clients |-> <<>>]
    /\ spc = "idle"
    /\ sockets_ = {}
    /\ receive_sockets_ = {}
    /\ send_sockets_ = {}
    /\ disconnected_sockets_ = {}
    /\ unwatched = {}
    /\ todo = {}
    /\ send_buffer_ = [c \in Clients |-> <<>>]
    /\ pushes = 0

-----------------------------------------------------------------------------
\* What the kernel takes of c's bytes s when q is waiting to be read.
Accepted(c, q, s) == SubSeq(s, 1, IF Len(s) <= WireCap[c] - Len(q)
                                  THEN Len(s) ELSE WireCap[c] - Len(q))

\* Mutated form of the operator below.
MutInterest == {}

\* epoll_add(): the events asked for; EPOLLHUP and EPOLLERR are always reported.
Interest == {"IN"}

\* An edge is remembered for the sockets that are registered with epoll.
Signal(c, events) ==
    IF c \in sockets_ \ unwatched
    THEN edge' = [edge EXCEPT ![c] = @ \cup (events \cap (Interest \cup {"HUP"}))]
    ELSE UNCHANGED edge

-----------------------------------------------------------------------------
(* The clients: TCPSocket as main() uses it on their side. *)

Connect(c) ==
    /\ link[c] = "none"
    /\ link' = [link EXCEPT ![c] = "open"]
    /\ queue' = Append(queue, c)
    /\ listen_edge' = TRUE
    /\ UNCHANGED <<up, down, edge, clientVars, spc, pollVars, todo, send_buffer_, pushes>>

\* send() of n bytes, then sendAndRecv(): what has come is read and shown; what
\* was staged goes out as far as the kernel takes it, and the rest is dropped.
ClientSendAndRecv(c, n) ==
    LET staged == [k \in 1 .. n |-> sent[c] + k]
        wired == Accepted(c, up[c], staged)
    IN /\ link[c] = "open"
       /\ sent[c] + n <= MaxBytes
       /\ got' = [got EXCEPT ![c] = @ \o down[c]]
       /\ down' = [down EXCEPT ![c] = <<>>]
       /\ sent' = [sent EXCEPT ![c] = @ + n]
       /\ up' = [up EXCEPT ![c] = @ \o wired]
       /\ Signal(c, (IF wired # <<>> THEN {"IN"} ELSE {}) \cup {"OUT"})
       /\ UNCHANGED <<link, queue, listen_edge, spc, pollVars, todo, send_buffer_, pushes>>

\* ~TCPSocket() closes the descriptor; with unread bytes, that is a reset.
ClientClose(c) ==
    /\ c \in CanClose /\ link[c] = "open"
    /\ IF down[c] = <<>>
       THEN /\ link' = [link EXCEPT ![c] = "fin"]
            /\ Signal(c, {"IN"})
            /\ UNCHANGED up
       ELSE /\ link' = [link EXCEPT ![c] = "rst"]
            /\ Signal(c, {"IN", "HUP"})
            /\ up' = [up EXCEPT ![c] = <<>>]
    /\ down' = [down EXCEPT ![c] = <<>>]
    /\ UNCHANGED <<queue, listen_edge, clientVars, spc, pollVars, todo, send_buffer_, pushes>>

-----------------------------------------------------------------------------
(* Mutated forms of the actions below. *)

MutPollKeepsReceived ==
    /\ spc = "idle" \/ (spc = "polled" /\ \A c \in Clients : sent[c] = 0)
    /\ LET live == sockets_ \ disconnected_sockets_
       IN /\ sockets_' = live
          /\ receive_sockets_' = receive_sockets_ \cup {c \in live : "IN" \in edge[c]}
          /\ send_sockets_' = {c \in live : "OUT" \in edge[c]}
          /\ disconnected_sockets_' = {c \in live : "HUP" \in edge[c]}
          /\ edge' = [c \in Clients |-> IF c \in live THEN {} ELSE edge[c]]
    /\ spc' = IF listen_edge THEN "accept" ELSE "polled"
    /\ listen_edge' = FALSE
    /\ UNCHANGED <<link, queue, up, down, clientVars, unwatched, todo, send_buffer_, pushes>>

MutAcceptUnregistered(c) ==
    /\ spc = "accept"
    /\ queue # <<>> /\ c = Head(queue)
    /\ queue' = Tail(queue)
    /\ sockets_' = sockets_ \cup {c}
    /\ edge' = [edge EXCEPT ![c] = {}]
    /\ UNCHANGED <<link, up, down, listen_edge, clientVars, spc, receive_sockets_,
                   send_sockets_, disconnected_sockets_, unwatched, todo, send_buffer_, pushes>>

MutServeResends(c) ==
    LET received == up[c]
        staged == send_buffer_[c] \o (IF received = <<>> THEN <<>> ELSE <<Ack>> \o received)
        wired == Accepted(c, down[c], staged)
    IN /\ spc = "serve" /\ c \in todo
       /\ todo' = todo \ {c}
       /\ up' = [up EXCEPT ![c] = <<>>]
       /\ send_buffer_' = [send_buffer_ EXCEPT ![c] = IF wired = staged THEN <<>> ELSE staged]
       /\ down' = IF link[c] = "open" THEN [down EXCEPT ![c] = @ \o wired] ELSE down
       /\ UNCHANGED <<link, edge, queue, listen_edge, clientVars, spc, pollVars, pushes>>

-----------------------------------------------------------------------------
(* TCPServer::poll() *)

\* Last round's disconnected sockets are deleted, the buckets emptied and filled
\* with what epoll_wait() reports; it has room for every registered socket.
\* The owner polls again without sendAndRecv() only while it accepts clients
\* that have not sent anything, as main() does.
Poll ==
    /\ spc = "idle" \/ (spc = "polled" /\ \A c \in Clients : sent[c] = 0)
    /\ LET live == sockets_ \ disconnected_sockets_
       IN /\ sockets_' = live
          /\ receive_sockets_' = {c \in live : "IN" \in edge[c]}
          /\ send_sockets_' = {c \in live : "OUT" \in edge[c]}
          /\ disconnected_sockets_' = {c \in live : "HUP" \in edge[c]}
          /\ edge' = [c \in Clients |-> IF c \in live THEN {} ELSE edge[c]]
    /\ spc' = IF listen_edge THEN "accept" ELSE "polled"
    /\ listen_edge' = FALSE
    /\ UNCHANGED <<link, queue, up, down, clientVars, unwatched, todo, send_buffer_, pushes>>

\* The events that a socket has the moment it is registered.
FirstEdge(c) == {e \in Interest : e = "IN" => up[c] # <<>> \/ link[c] # "open"}
                \cup (IF link[c] = "rst" THEN {"HUP"} ELSE {})

\* while (have_new_connection): one accept(); the new socket is registered, if
\* epoll_add() does not fail, which nobody looks at, and it is read in this round
\* whether or not epoll has reported it.
Accept(c) ==
    /\ spc = "accept"
    /\ queue # <<>> /\ c = Head(queue)
    /\ queue' = Tail(queue)
    /\ sockets_' = sockets_ \cup {c}
    /\ receive_sockets_' = receive_sockets_ \cup {c}
    /\ \/ edge' = [edge EXCEPT ![c] = FirstEdge(c)] /\ UNCHANGED unwatched
       \/ edge' = [edge EXCEPT ![c] = {}] /\ unwatched' = unwatched \cup {c}
    /\ UNCHANGED <<link, up, down, listen_edge, clientVars, spc, send_sockets_,
                   disconnected_sockets_, todo, send_buffer_, pushes>>

\* ... until accept() fails: it finds the queue empty, or it has no descriptor or
\* memory left for the first connection.  Those that are still queued wait for
\* another connection to come, since the listener's edge has been reported.
AcceptEnds ==
    /\ spc = "accept"
    /\ spc' = "polled"
    /\ UNCHANGED <<kernelVars, clientVars, pollVars, todo, send_buffer_, pushes>>

-----------------------------------------------------------------------------
(* TCPServer::sendAndRecv() *)

ServeBegins ==
    /\ spc = "polled"
    /\ spc' = "serve"
    /\ todo' = receive_sockets_ \cup send_sockets_
    /\ UNCHANGED <<kernelVars, clientVars, pollVars, send_buffer_, pushes>>

\* TCPSocket::sendAndRecv() on the server's end of c, with the callback: all
\* that has arrived is taken and a reply staged, and the kernel gets what it
\* takes of the staged bytes; the rest is dropped.
Serve(c) ==
    LET received == up[c]
        staged == send_buffer_[c] \o (IF received = <<>> THEN <<>> ELSE <<Ack>> \o received)
    IN /\ spc = "serve" /\ c \in todo
       /\ todo' = todo \ {c}
       /\ up' = [up EXCEPT ![c] = <<>>]
       /\ send_buffer_' = [send_buffer_ EXCEPT ![c] = <<>>]
       /\ IF link[c] = "fin" /\ staged # <<>>
          THEN link' = [link EXCEPT ![c] = "rst"] /\ Signal(c, {"IN", "HUP"})
          ELSE UNCHANGED <<link, edge>>
       /\ down' = IF link[c] = "open"
                  THEN [down EXCEPT ![c] = @ \o Accepted(c, @, staged)] ELSE down
       /\ UNCHANGED <<queue, listen_edge, clientVars, spc, pollVars, pushes>>

ServeEnds ==
    /\ spc = "serve" /\ todo = {}
    /\ spc' = "idle"
    /\ UNCHANGED <<kernelVars, clientVars, pollVars, todo, send_buffer_, pushes>>

\* The owner stages a message of its own, one byte, between two calls.
Push(c) ==
    /\ spc = "idle" /\ pushes < MaxPushes
    /\ c \in sockets_ \ disconnected_sockets_
    /\ pushes' = pushes + 1
    /\ send_buffer_' = [send_buffer_ EXCEPT ![c] = Append(@, Ack)]
    /\ UNCHANGED <<kernelVars, clientVars, spc, pollVars, todo>>

-----------------------------------------------------------------------------
Server == Poll \/ AcceptEnds \/ ServeBegins \/ ServeEnds
          \/ (\E c \in Clients : Accept(c) \/ Serve(c))

Client(c) == \/ Connect(c)
             \/ \E n \in 0 .. MaxBytes : ClientSendAndRecv(c, n)
             \/ ClientClose(c)

Next == Server \/ (\E c \in Clients : Client(c) \/ Push(c))

\* The server's loop goes on, and a client that is connected goes on reading.
Spec == /\ Init /\ [][Next]_vars
        /\ WF_vars(Server)
        /\ \A c \in Clients : WF_vars(ClientSendAndRecv(c, 0))

-----------------------------------------------------------------------------
\* Every pointer in a bucket is that of a socket that has not been deleted: the
\* buckets outlive the poll() that filled them (socket.cpp:279-282, 329-332).
NoDanglingSocket ==
    /\ disconnected_sockets_ \subseteq sockets_
    /\ receive_sockets_ \cup send_sockets_ \cup todo \subseteq sockets_

\* Edges are reported once: bytes nobody has read are always announced, to
\* epoll or to the round that is under way (socket.cpp:300, 347, 372), unless
\* epoll_add() failed for their socket.
NoForgottenBytes ==
    \A c \in sockets_ \ unwatched :
        up[c] # <<>> => \/ "IN" \in edge[c]
                        \/ c \in receive_sockets_ /\ spc \in {"accept", "polled"}
                        \/ c \in todo

\* A client that has sent nothing has no bytes to be forgotten when the owner
\* polls twice.
UnsentUnread == \A c \in Clients : up[c] # <<>> => sent[c] > 0

\* poll() and sendAndRecv() work on live sockets, and what they have not read
\* they hear of (socket.cpp:270-372).
BucketsInv ==
    /\ TypeOK
    /\ NoDanglingSocket
    /\ NoForgottenBytes
    /\ UnsentUnread

IsData(b) == b # Ack

Data(s) == {b \in Range(s) : IsData(b)}

Rising(s) == \A i, j \in DOMAIN s :
                i < j /\ IsData(s[i]) /\ IsData(s[j]) => s[i] < s[j]

\* The bytes that belong to c, the ones it has got first and the ones the server
\* has still to read last.
Way(c) == got[c] \o down[c] \o send_buffer_[c] \o up[c]

\* The kernel has room for all that c's connection can have unread: every byte
\* may get a reply of its own.  Where it has not, sends are taken in part.
Roomy(c) == 2 * MaxBytes + MaxPushes <= WireCap[c]

\* The bytes that down may come to hold if nothing more is sent.
Load(c) == Len(down[c]) + Len(send_buffer_[c]) + 2 * Len(up[c])

\* What is on the way back is in order, and while the kernel has room there is
\* enough of it to take every reply whole.
Echoes(c) ==
    /\ Rising(Way(c))
    /\ Data(Way(c)) \subseteq 1 .. sent[c]
    /\ link[c] = "none" => sent[c] = 0
    /\ Roomy(c) /\ link[c] \in {"none", "open"} =>
          /\ Load(c) <= 2 * sent[c] + pushes
          /\ 1 .. sent[c] \subseteq Data(Way(c))

\* The inductive invariant of the buckets and of what goes through them.
IInv == BucketsInv /\ (\A c \in Clients : Echoes(c))

\* A client gets back the bytes it sent, each once and in order, and nothing else,
\* whatever becomes of the connection and however little of a send the kernel
\* takes; and while the connection is open and the kernel has the room, nothing
\* that was staged on either end is lost (socket.cpp:203-204, 248-263).
EchoFaithful ==
    \A c \in Clients :
        /\ Rising(Way(c))
        /\ Data(Way(c)) \subseteq 1 .. sent[c]
        /\ Roomy(c) /\ link[c] = "open" => 1 .. sent[c] \subseteq Data(Way(c))

\* A connection that a failed accept() has left in the queue: only another
\* connection makes poll() accept again.
Stranded(c) == c \in Range(queue) /\ ~listen_edge /\ spc # "accept"

\* Bytes on a socket that epoll was not told of are never read.
Unheard(c) == c \in unwatched /\ up[c] # <<>>

\* All of it comes back in the end, while the connection is open and the kernel
\* has the room, unless one of the two calls that may fail cuts the client off
\* for good: accept() before its connection was taken, or epoll_add()
\* (socket.cpp:361, 370).
EchoArrives ==
    \A c \in Clients :
        sent[c] = MaxBytes ~>
            \/ ~Roomy(c) \/ link[c] # "open"
            \/ Len(SelectSeq(got[c], IsData)) = MaxBytes
            \/ []Stranded(c) \/ []Unheard(c)

=============================================================================
