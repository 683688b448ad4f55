---------------------------- MODULE SocketSetup ----------------------------
(***************************************************************************)
(* How socket.cpp comes by its descriptors: createSocket() with the system *)
(* calls that may fail in it, TCPSocket::connect(), TCPServer::listen()    *)
(* and the destructors.  The kernel's table of descriptors is external; it *)
(* gives out the lowest one that is free, or none.  What connect() to the  *)
(* other side comes to the code does not look at.                          *)
(***************************************************************************)
EXTENDS Integers, FiniteSets, FiniteSetsExt

CONSTANTS
    Descriptors,    \* what the process may have open at once, numbers
    Listener,       \* TCPServer::listener_socket_
    ClientSockets,  \* the other TCPSocket objects
    MaxAddresses    \* bound: the addresses that getaddrinfo() finds

Sockets == {Listener} \cup ClientSockets
Nothing == -1       \* a descriptor variable that holds none

VARIABLES
    kernel,     \* kernel[d]: what is known of d, {} if it is free
    efd_,       \* TCPServer::efd_
    fd_,        \* fd_[s]: TCPSocket::fd_
    creating,   \* the socket, at most one, that createSocket() is called for
    fd,         \* createSocket()'s variable
    left,       \* the addresses its loop has not tried
    aborted     \* an ASSERT has ended the program

setupVars == <<kernel, efd_, fd_, creating, fd, left, aborted>>

Init ==
    /\ kernel = [d \in Descriptors |-> {}]
    /\ efd_ = Nothing
    /\ fd_ = [s \in Sockets |-> Nothing]
    /\ creating = {} /\ fd = Nothing /\ left = 0
    /\ aborted = FALSE

-----------------------------------------------------------------------------
Free(k) == {d \in DOMAIN k : k[d] = {}}

Give(k, d, facts) == [k EXCEPT ![d] = @ \cup facts]

\* close(), if d is a descriptor. What is registered with the epoll descriptor
\* is forgotten with it.
Close(k, d) ==
    [e \in DOMAIN k |-> IF e = d THEN {}
                        ELSE IF d = efd_ THEN k[e] \ {"watched"} ELSE k[e]]

-----------------------------------------------------------------------------
Ready == creating = {} /\ ~aborted

\* createSocket() for s, after getaddrinfo(): n addresses, none if it failed.
\* The old descriptor of s has been closed.
Create(s, n) ==
    /\ creating' = {s} /\ left' = n
    /\ fd_' = [fd_ EXCEPT ![s] = Nothing]

\* TCPSocket::connect() of a client.
Connect(s, n) ==
    /\ Ready
    /\ kernel' = Close(kernel, fd_[s])
    /\ Create(s, n)
    /\ UNCHANGED <<efd_, fd, aborted>>

\* TCPServer::listen(): a new epoll descriptor in place of the old one, then
\* TCPSocket::connect() of the listener. Without a descriptor it aborts.
Listen(n) ==
    LET closed == Close(kernel, efd_)
    IN  /\ Ready
        /\ \/ \E d \in Free(closed) :
                 /\ d = Min(Free(closed))
                 /\ kernel' = Close(Give(closed, d, {"epoll"}), fd_[Listener])
                 /\ efd_' = d
                 /\ Create(Listener, n)
                 /\ UNCHANGED aborted
           \/ /\ kernel' = closed
              /\ efd_' = Nothing
              /\ aborted' = TRUE
              /\ UNCHANGED <<fd_, creating, left>>
        /\ UNCHANGED fd

\* A mutant: what could not be bound is not closed.
MutTryAddressKeepsUnbound ==
    /\ creating # {} /\ fd = Nothing /\ left > 0
    /\ left' = left - 1
    /\ \/ UNCHANGED <<kernel, fd>>
       \/ \E d \in Free(kernel) :
             LET opened == Give(kernel, d, {"socket"})
             IN  /\ d = Min(Free(kernel))
                 /\ \/ creating # {Listener} /\ fd' = d /\ kernel' = opened
                    \/ creating = {Listener} /\ fd' = Nothing /\ kernel' = opened
                    \/ /\ creating = {Listener} /\ fd' = d
                       /\ \E more \in {{}, {"listening"}} :
                             kernel' = Give(opened, d, {"bound"} \cup more)
    /\ UNCHANGED <<efd_, fd_, creating, aborted>>

\* One round of createSocket()'s loop: socket() fails; or it is a client's and
\* the loop ends; or bind() fails, and the descriptor is closed; or it is bound,
\* and the loop ends whatever ::listen() comes to.
TryAddress ==
    /\ creating # {} /\ fd = Nothing /\ left > 0
    /\ left' = left - 1
    /\ \/ UNCHANGED <<kernel, fd>>
       \/ \E d \in Free(kernel) :
             LET opened == Give(kernel, d, {"socket"})
             IN  /\ d = Min(Free(kernel))
                 /\ \/ creating # {Listener} /\ fd' = d /\ kernel' = opened
                    \/ creating = {Listener} /\ fd' = Nothing /\ kernel' = Close(opened, d)
                    \/ /\ creating = {Listener} /\ fd' = d
                       /\ \E more \in {{}, {"listening"}} :
                             kernel' = Give(opened, d, {"bound"} \cup more)
    /\ UNCHANGED <<efd_, fd_, creating, aborted>>

\* createSocket() has returned to a client's connect().
Connected ==
    /\ \E s \in creating \ {Listener} : fd_' = [fd_ EXCEPT ![s] = fd]
    /\ fd # Nothing \/ left = 0
    /\ creating' = {} /\ fd' = Nothing /\ left' = 0
    /\ UNCHANGED <<kernel, efd_, aborted>>

\* ... or to that of the listener: listen() asserts that there is a descriptor
\* and registers it, which may fail and is not looked at.
Listening ==
    /\ creating = {Listener}
    /\ fd # Nothing \/ left = 0
    /\ fd_' = [fd_ EXCEPT ![Listener] = fd]
    /\ aborted' = (fd = Nothing)
    /\ \/ UNCHANGED kernel
       \/ fd # Nothing /\ kernel' = Give(kernel, fd, {"watched"})
    /\ creating' = {} /\ fd' = Nothing /\ left' = 0
    /\ UNCHANGED efd_

\* ~TCPSocket() of a client. A new object is as one that never had a descriptor.
Delete(s) ==
    /\ Ready /\ fd_[s] # Nothing
    /\ kernel' = Close(kernel, fd_[s])
    /\ fd_' = [fd_ EXCEPT ![s] = Nothing]
    /\ UNCHANGED <<efd_, creating, fd, left, aborted>>

\* ~TCPServer(), and after it the destructor of its member.
DeleteServer ==
    /\ Ready /\ efd_ # Nothing
    /\ kernel' = Close(Close(kernel, efd_), fd_[Listener])
    /\ efd_' = Nothing
    /\ fd_' = [fd_ EXCEPT ![Listener] = Nothing]
    /\ UNCHANGED <<creating, fd, left, aborted>>

Terminated == aborted /\ UNCHANGED setupVars

Next ==
    \/ \E n \in 0 .. MaxAddresses :
          Listen(n) \/ \E s \in ClientSockets : Connect(s, n)
    \/ TryAddress \/ Connected \/ Listening
    \/ \E s \in ClientSockets : Delete(s)
    \/ DeleteServer
    \/ Terminated

-----------------------------------------------------------------------------
\* Every descriptor that is open is held by one variable, which alone will
\* close it, and every variable holds one that is open: whatever failed, and
\* however often connect() and listen() were called before
\* (socket.cpp:125, 141, 183, 196, 293, 315).
HeldOnce ==
    LET holders == {<<"efd_">>, <<"fd">>} \cup {<<"fd_", s>> : s \in Sockets}
        held(h) == IF h = <<"efd_">> THEN efd_ ELSE IF h = <<"fd">> THEN fd ELSE fd_[h[2]]
        holding == {h \in holders : held(h) # Nothing}
    IN  /\ DOMAIN kernel \ Free(kernel) = {held(h) : h \in holding}
        /\ \A g, h \in holding : held(g) = held(h) => g = h

\* A server that came back from listen() has a listener with an address, or the
\* program was aborted (socket.cpp:140, 320); its epoll descriptor reports that
\* listener or nothing, and never a socket of an earlier call.
ListenerBound ==
    /\ Ready /\ efd_ # Nothing => fd_[Listener] # Nothing /\ "bound" \in kernel[fd_[Listener]]
    /\ \A d \in Descriptors : "watched" \in kernel[d] => d = fd_[Listener] /\ efd_ # Nothing

-----------------------------------------------------------------------------
(* The inductive invariant. *)

Facts == {"epoll", "socket", "bound", "listening", "watched"}

TypeOK ==
    /\ kernel \in [Descriptors -> SUBSET Facts]
    /\ efd_ \in Descriptors \cup {Nothing}
    /\ fd_ \in [Sockets -> Descriptors \cup {Nothing}]
    /\ creating = {} \/ \E s \in Sockets : creating = {s}
    /\ fd \in Descriptors \cup {Nothing}
    /\ left \in 0 .. MaxAddresses
    /\ aborted \in BOOLEAN

\* Open descriptors, and only they, are held; what a closed epoll descriptor
\* leaves behind of one that was registered is still a socket.
OpenIsHeld ==
    \A d \in Descriptors :
        /\ kernel[d] # {} <=> d \in {efd_, fd} \/ \E s \in Sockets : fd_[s] = d
        /\ kernel[d] # {} => kernel[d] # {"watched"}

\* No two variables hold the same one.
HeldApart ==
    /\ efd_ # Nothing => efd_ # fd /\ \A s \in Sockets : fd_[s] # efd_
    /\ fd # Nothing => \A s \in Sockets : fd_[s] # fd
    /\ \A s, t \in Sockets : fd_[s] # Nothing /\ fd_[s] = fd_[t] => s = t

\* Where createSocket() is; to the listener it gives only what is bound.
Phases ==
    /\ creating = {} => fd = Nothing
    /\ aborted => creating = {}
    /\ \A s \in creating : fd_[s] = Nothing
    /\ creating = {Listener} => efd_ # Nothing
    /\ creating = {Listener} /\ fd # Nothing => "bound" \in kernel[fd]

\* The listener of a server that is up has an address at any time, and nothing
\* but that listener is registered.
ListenerHeld ==
    /\ efd_ # Nothing /\ creating # {Listener} /\ ~aborted =>
          fd_[Listener] # Nothing /\ "bound" \in kernel[fd_[Listener]]
    /\ \A d \in Descriptors : "watched" \in kernel[d] => d = fd_[Listener] /\ efd_ # Nothing

\* Whatever is called and fails, every descriptor has one owner
\* (socket.cpp:125, 141, 183, 196, 293, 315).
SetupInv ==
    /\ TypeOK
    /\ OpenIsHeld
    /\ HeldApart
    /\ Phases
    /\ ListenerHeld

=============================================================================
