\* The kernel holds all that c1 can have unread, two bytes, their ACKs and a
\* push; c2 may go away at any time, and a send to it or by it may be taken
\* in part.
\* Three descriptors are one less than the server and two clients need.
CONSTANTS
    Clients = {c1, c2}
    CanClose = {c2}
    MaxBytes = 2
    MaxPushes = 1
    WireCap <- RunWireCap
    Descriptors = {3, 4, 5}
    Listener = listener_socket_
    MaxAddresses = 2
SPECIFICATION ProgramSpec
INVARIANTS
    ProgramInv
    NoForgottenBytes
    EchoFaithful
    DescriptorsHeld
PROPERTIES
    EchoArrives
