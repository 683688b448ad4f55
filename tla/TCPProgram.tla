----------------------------- MODULE TCPProgram -----------------------------
(***************************************************************************)
(* socket.cpp from its first call on: sockets are made and deleted, calls  *)
(* fail and are repeated, as in SocketSetup; and once a server is up that  *)
(* clients can reach, it serves them as in TCPEcho.                        *)
(***************************************************************************)
EXTENDS TCPEcho

CONSTANTS Descriptors, Listener, MaxAddresses

ASSUME SetupAssumption ==
    /\ Descriptors \subseteq Nat
    /\ Listener \notin Clients
    /\ MaxAddresses \in Nat

VARIABLES phase,    \* "setup", then "echo"
          kernel, efd_, fd_, creating, fd, left, aborted

S == INSTANCE SocketSetup WITH ClientSockets <- Clients

setupVars == <<kernel, efd_, fd_, creating, fd, left, aborted>>
programVars == <<vars, phase, setupVars>>

-----------------------------------------------------------------------------
ProgramInit == Init /\ S!Init /\ phase = "setup"

SetUp == phase = "setup" /\ S!Next /\ UNCHANGED <<vars, phase>>

\* main() goes on after listen(): its epoll descriptor is the first there is, and
\* no client has a descriptor. The clients of TCPEcho can reach the server if
\* the two calls that nobody looks at, ::listen() and epoll_add(), succeeded.
StartEcho ==
    /\ phase = "setup" /\ S!Ready
    /\ efd_ = S!Min(Descriptors)
    /\ \A c \in Clients : fd_[c] = S!Nothing
    /\ fd_[Listener] # S!Nothing
    /\ {"listening", "watched"} \subseteq kernel[fd_[Listener]]
    /\ phase' = "echo"
    /\ UNCHANGED <<vars, setupVars>>

InEcho(A) == phase = "echo" /\ A /\ UNCHANGED <<phase, setupVars>>

ProgramNext == SetUp \/ StartEcho \/ InEcho(Next)

\* The fairness of TCPEcho, from the start of its loop on.
ProgramSpec ==
    /\ ProgramInit /\ [][ProgramNext]_programVars
    /\ WF_programVars(InEcho(Server))
    /\ \A c \in Clients : WF_programVars(InEcho(ClientSendAndRecv(c, 0)))

-----------------------------------------------------------------------------
\* Whatever calls were made and failed before, no descriptor is lost or shared,
\* and listen() comes back with a listener that has an address or not at all
\* (socket.cpp:125, 141, 183, 196, 315, 320).
DescriptorsHeld == S!HeldOnce /\ S!ListenerBound

\* The inductive invariant of the program: that of the set-up, and that of the
\* server, which has nothing on the wire before it is up.
ProgramInv == S!SetupInv /\ IInv

-----------------------------------------------------------------------------
\* The kernel of the run: it has room for all that a client can have unread, but
\* of those that may close it holds two bytes, fewer than one reply to both
\* their bytes.
RunWireCap == [c \in Clients |-> IF c \in CanClose THEN 2 ELSE 2 * MaxBytes + MaxPushes]

=============================================================================
