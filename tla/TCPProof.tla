------------------------------ MODULE TCPProof ------------------------------
(***************************************************************************)
(* Proofs about TCPEcho and TCPProgram, for any clients, any number of     *)
(* bytes and pushes, any capacity of the kernel and any descriptors: the   *)
(* buckets of the server, the order of the bytes, the owners of the        *)
(* descriptors, and the program that all of this makes.                    *)
(***************************************************************************)
EXTENDS TCPProgram, TLAPS

\* The events epoll can report.
Events == {"IN", "OUT", "HUP"}

\* The initial states satisfy the invariant.
LEMMA BucketsInit == Init => BucketsInv
<1>. SUFFICES ASSUME Init PROVE BucketsInv
  OBVIOUS
<1>1. /\ up \in [Clients -> Seq(Bytes)] /\ down \in [Clients -> Seq(Bytes)]
      /\ got \in [Clients -> Seq(Bytes)] /\ send_buffer_ \in [Clients -> Seq(Bytes)]
      /\ \A c \in Clients : up[c] = <<>> /\ down[c] = <<>>
  BY DEF Init
<1>2. \A c \in Clients : Len(up[c]) <= WireCap[c] /\ Len(down[c]) <= WireCap[c]
  BY <1>1, TCPAssumption
<1>3. sent \in [Clients -> 0 .. MaxBytes] /\ pushes \in 0 .. MaxPushes
  BY TCPAssumption DEF Init
<1>4. /\ link \in [Clients -> {"none", "open", "fin", "rst"}]
      /\ edge \in [Clients -> SUBSET {"IN", "OUT", "HUP"}]
      /\ queue \in Seq(Clients)
  BY DEF Init
<1>5. TypeOK
  BY <1>1, <1>2, <1>3, <1>4 DEF Init, TypeOK
<1>. QED
  BY <1>1, <1>5 DEF Init, BucketsInv, NoDanglingSocket, NoForgottenBytes, UnsentUnread

\* An edge is added for a registered socket, and none is lost.
LEMMA SignalIs ==
    ASSUME TypeOK, NEW c \in Clients, NEW events \in SUBSET Events, Signal(c, events)
    PROVE  /\ edge' \in [Clients -> SUBSET Events]
           /\ \A d \in Clients : "IN" \in edge[d] => "IN" \in edge'[d]
           /\ c \in sockets_ \ unwatched /\ "IN" \in events => "IN" \in edge'[c]
<1>1. edge \in [Clients -> SUBSET Events]
  BY DEF TypeOK, Events
<1>2. CASE c \in sockets_ \ unwatched
  <2>. DEFINE new == edge[c] \cup (events \cap (Interest \cup {"HUP"}))
  <2>1. edge' = [edge EXCEPT ![c] = new]
    BY <1>2 DEF Signal
  <2>2. new \in SUBSET Events /\ edge[c] \subseteq new
    BY <1>1
  <2>3. "IN" \in events => "IN" \in new
    BY DEF Interest
  <2>. HIDE DEF new
  <2>. QED
    BY <1>1, <2>1, <2>2, <2>3
<1>3. CASE c \notin sockets_ \ unwatched
  BY <1>1, <1>3 DEF Signal
<1>. QED
  BY <1>2, <1>3

\* The kernel takes a part of what is sent, and what fits.
LEMMA AcceptedIs ==
    ASSUME NEW c \in Clients, NEW T, NEW q \in Seq(T), NEW s \in Seq(T),
           Len(q) <= WireCap[c]
    PROVE  /\ Accepted(c, q, s) \in Seq(T)
           /\ q \o Accepted(c, q, s) \in Seq(T)
           /\ Len(q \o Accepted(c, q, s)) <= WireCap[c]
           /\ Len(Accepted(c, q, s)) <= Len(s)
           /\ Accepted(c, q, s) = <<>> => q \o Accepted(c, q, s) = q
<1>1. WireCap[c] \in Nat
  BY TCPAssumption
<1>. DEFINE n == IF Len(s) <= WireCap[c] - Len(q) THEN Len(s) ELSE WireCap[c] - Len(q)
<1>2. n \in 0 .. Len(s) /\ n <= WireCap[c] - Len(q)
  BY <1>1
<1>3. SubSeq(s, 1, n) \in Seq(T) /\ Len(SubSeq(s, 1, n)) = n
  BY <1>2
<1>4. ASSUME NEW t \in Seq(T)
      PROVE  /\ q \o t \in Seq(T)
             /\ Len(q \o t) = Len(q) + Len(t)
             /\ t = <<>> => q \o t = q
  OBVIOUS
<1>5. Accepted(c, q, s) = SubSeq(s, 1, n)
  BY DEF Accepted
<1>. HIDE DEF n
<1>6. Accepted(c, q, s) \in Seq(T) /\ Len(Accepted(c, q, s)) = n
  BY <1>3, <1>5
<1>. QED
  BY <1>1, <1>2, <1>4, <1>6

-----------------------------------------------------------------------------
(* Each lemma takes the steps of one party through the parts of BucketsInv.   *)

\* A client's bytes are announced when they arrive.
LEMMA ClientKeepsBuckets ==
    ASSUME BucketsInv, NEW c \in Clients, Client(c)
    PROVE  BucketsInv'
<1>. USE TCPAssumption DEF clientVars, pollVars, Interest
<1>1. CASE Connect(c)
  BY <1>1
     DEF Connect, BucketsInv, TypeOK, NoDanglingSocket, NoForgottenBytes, UnsentUnread
<1>2. ASSUME NEW n \in 0 .. MaxBytes, ClientSendAndRecv(c, n) PROVE BucketsInv'
  <2>. DEFINE staged == [k \in 1 .. n |-> sent[c] + k]
              wired == Accepted(c, up[c], staged)
  <2>1. sent[c] \in Nat /\ sent[c] + n <= MaxBytes /\ up[c] \in Seq(Bytes)
        /\ Len(up[c]) <= WireCap[c] /\ down[c] \in Seq(Bytes) /\ got[c] \in Seq(Bytes)
    BY <1>2 DEF ClientSendAndRecv, BucketsInv, TypeOK
  <2>2. staged \in Seq(Bytes) /\ Len(staged) = n
    <3>1. n \in Nat /\ \A k \in 1 .. n : sent[c] + k \in Bytes
      BY <2>1 DEF Bytes
    <3>. QED
      BY <3>1
  <2>. HIDE DEF staged
  <2>3. /\ wired \in Seq(Bytes) /\ Len(wired) <= n
        /\ up[c] \o wired \in Seq(Bytes) /\ Len(up[c] \o wired) <= WireCap[c]
    BY <2>1, <2>2, AcceptedIs
  <2>4. got[c] \o down[c] \in Seq(Bytes)
    BY <2>1
  <2>5. wired = <<>> => up[c] \o wired = up[c]
    BY <2>1, <2>2, AcceptedIs
  <2>6. wired # <<>> => n > 0
    BY <2>3
  <2>7. up' = [up EXCEPT ![c] = @ \o wired] /\ sent' = [sent EXCEPT ![c] = @ + n]
    BY <1>2 DEF ClientSendAndRecv, staged
  <2>8. /\ edge' \in [Clients -> SUBSET Events]
        /\ \A d \in Clients : "IN" \in edge[d] => "IN" \in edge'[d]
        /\ c \in sockets_ \ unwatched /\ wired # <<>> => "IN" \in edge'[c]
    <3>1. PICK events \in SUBSET Events :
                  events = (IF wired # <<>> THEN {"IN"} ELSE {}) \cup {"OUT"}
      BY DEF Events
    <3>2. Signal(c, events)
      BY <1>2, <3>1 DEF ClientSendAndRecv, Signal, staged
    <3>. QED
      BY <3>1, <3>2, SignalIs DEF BucketsInv
  <2>. HIDE DEF wired
  <2>9. TypeOK'
    <3>1. got' = [got EXCEPT ![c] = @ \o down[c]] /\ down' = [down EXCEPT ![c] = <<>>]
      BY <1>2 DEF ClientSendAndRecv
    <3>2. got' \in [Clients -> Seq(Bytes)] /\ down' \in [Clients -> Seq(Bytes)]
      BY <2>4, <3>1 DEF BucketsInv, TypeOK
    <3>3. up' \in [Clients -> Seq(Bytes)] /\ sent' \in [Clients -> 0 .. MaxBytes]
      <4>1. up \in [Clients -> Seq(Bytes)] /\ sent \in [Clients -> 0 .. MaxBytes]
        BY DEF BucketsInv, TypeOK
      <4>2. sent[c] + n \in 0 .. MaxBytes
        BY <2>1
      <4>. QED
        BY ONLY <2>3, <2>7, <4>1, <4>2
    <3>4. \A d \in Clients : Len(up'[d]) <= WireCap[d] /\ Len(down'[d]) <= WireCap[d]
      <4>1. up \in [Clients -> Seq(Bytes)] /\ down \in [Clients -> Seq(Bytes)]
        BY DEF BucketsInv, TypeOK
      <4>2. \A d \in Clients : /\ Len(up[d]) <= WireCap[d] /\ Len(down[d]) <= WireCap[d]
                               /\ WireCap[d] \in Nat
        BY DEF BucketsInv, TypeOK
      <4>3. up'[c] = up[c] \o wired /\ down'[c] = <<>>
        BY ONLY <2>7, <3>1, <4>1, c \in Clients
      <4>4. \A d \in Clients \ {c} : up'[d] = up[d] /\ down'[d] = down[d]
        BY ONLY <2>7, <3>1, <4>1
      <4>5. Len(<<>>) = 0
        OBVIOUS
      <4>. QED
        BY ONLY <2>3, <4>2, <4>3, <4>4, <4>5
    <3>. QED
      BY <1>2, <2>8, <3>2, <3>3, <3>4 DEF ClientSendAndRecv, BucketsInv, TypeOK, Events
  <2>10. NoDanglingSocket' /\ NoForgottenBytes'
    <3>1. UNCHANGED <<sockets_, receive_sockets_, send_sockets_, disconnected_sockets_,
                      unwatched, todo, spc>>
      BY <1>2 DEF ClientSendAndRecv
    <3>2. \A d \in Clients \ {c} : up'[d] = up[d]
      BY <2>7 DEF BucketsInv, TypeOK
    <3>3. up'[c] # <<>> => up[c] # <<>> \/ wired # <<>>
      BY <2>5, <2>7 DEF BucketsInv, TypeOK
    <3>4. sockets_ \subseteq Clients
      BY DEF BucketsInv, TypeOK
    <3>. QED
      BY <2>8, <3>1, <3>2, <3>3, <3>4 DEF BucketsInv, NoDanglingSocket, NoForgottenBytes
  <2>11. UnsentUnread'
    BY <2>1, <2>5, <2>6, <2>7 DEF BucketsInv, TypeOK, UnsentUnread
  <2>. QED
    BY <2>9, <2>10, <2>11 DEF BucketsInv
<1>3. CASE ClientClose(c)
  <2>1. /\ edge' \in [Clients -> SUBSET Events]
        /\ \A d \in Clients : "IN" \in edge[d] => "IN" \in edge'[d]
    <3>1. Signal(c, {"IN"}) \/ Signal(c, {"IN", "HUP"})
      BY <1>3 DEF ClientClose
    <3>2. {"IN"} \in SUBSET Events /\ {"IN", "HUP"} \in SUBSET Events
      BY DEF Events
    <3>. QED
      BY <3>1, <3>2, SignalIs DEF BucketsInv
  <2>2. /\ up' = up \/ up' = [up EXCEPT ![c] = <<>>]
        /\ down' = [down EXCEPT ![c] = <<>>]
    BY <1>3 DEF ClientClose
  <2>3. up \in [Clients -> Seq(Bytes)] /\ down \in [Clients -> Seq(Bytes)]
    BY DEF BucketsInv, TypeOK
  <2>4. /\ up' \in [Clients -> Seq(Bytes)] /\ down' \in [Clients -> Seq(Bytes)]
        /\ \A d \in Clients : up'[d] = up[d] \/ up'[d] = <<>>
        /\ \A d \in Clients : down'[d] = down[d] \/ down'[d] = <<>>
    <3>1. <<>> \in Seq(Bytes)
      OBVIOUS
    <3>. QED
      BY <2>2, <2>3, <3>1
  <2>5. \A d \in Clients : Len(up'[d]) <= WireCap[d] /\ Len(down'[d]) <= WireCap[d]
    BY <2>4 DEF BucketsInv, TypeOK
  <2>6. link' \in [Clients -> {"none", "open", "fin", "rst"}]
    BY <1>3 DEF ClientClose, BucketsInv, TypeOK
  <2>7. TypeOK'
    BY <1>3, <2>1, <2>4, <2>5, <2>6 DEF ClientClose, BucketsInv, TypeOK, Events
  <2>8. NoDanglingSocket' /\ NoForgottenBytes'
    BY <1>3, <2>1, <2>4 DEF ClientClose, BucketsInv, TypeOK, NoDanglingSocket, NoForgottenBytes
  <2>. QED
    BY <1>3, <2>4, <2>7, <2>8 DEF ClientClose, BucketsInv, UnsentUnread
<1>. QED
  BY <1>1, <1>2, <1>3 DEF Client

\* poll(): the buckets are filled from the edges of live sockets.
LEMMA PollKeepsBuckets == BucketsInv /\ Poll => BucketsInv'
<1>. SUFFICES ASSUME BucketsInv, Poll PROVE BucketsInv'
  OBVIOUS
<1>1. TypeOK'
  BY DEF Poll, BucketsInv, TypeOK, clientVars
<1>2. NoDanglingSocket'
  BY DEF Poll, BucketsInv, TypeOK, NoDanglingSocket
<1>3. NoForgottenBytes'
  BY DEF Poll, BucketsInv, TypeOK, NoForgottenBytes, UnsentUnread, clientVars
<1>. QED
  BY <1>1, <1>2, <1>3 DEF Poll, BucketsInv, UnsentUnread, clientVars

\* A new socket goes into the receive bucket of the round under way.
LEMMA AcceptKeepsBuckets ==
    ASSUME BucketsInv, NEW c \in Clients, Accept(c)
    PROVE  BucketsInv'
<1>1. queue' \in Seq(Clients)
  BY DEF Accept, BucketsInv, TypeOK
<1>2. edge' \in [Clients -> SUBSET {"IN", "OUT", "HUP"}]
  <2>1. FirstEdge(c) \in SUBSET {"IN", "OUT", "HUP"}
    BY DEF FirstEdge, Interest
  <2>2. PICK first \in SUBSET {"IN", "OUT", "HUP"} : edge' = [edge EXCEPT ![c] = first]
    <3>1. CASE edge' = [edge EXCEPT ![c] = FirstEdge(c)]
      BY <2>1, <3>1
    <3>2. CASE edge' = [edge EXCEPT ![c] = {}]
      BY <3>2
    <3>. QED
      BY <3>1, <3>2 DEF Accept
  <2>. QED
    BY <2>2 DEF BucketsInv, TypeOK
<1>3. TypeOK'
  BY <1>1, <1>2 DEF Accept, BucketsInv, TypeOK, clientVars
<1>4. NoDanglingSocket' /\ NoForgottenBytes'
  BY DEF Accept, BucketsInv, TypeOK, NoDanglingSocket, NoForgottenBytes
<1>. QED
  BY <1>3, <1>4 DEF Accept, BucketsInv, UnsentUnread, clientVars

\* sendAndRecv() on one socket: what has arrived is taken.
LEMMA ServeKeepsBuckets ==
    ASSUME BucketsInv, NEW c \in Clients, Serve(c)
    PROVE  BucketsInv'
<1>. DEFINE staged == send_buffer_[c]
                      \o (IF up[c] = <<>> THEN <<>> ELSE <<Ack>> \o up[c])
<1>1. /\ up[c] \in Seq(Bytes) /\ down[c] \in Seq(Bytes) /\ Len(down[c]) <= WireCap[c]
      /\ send_buffer_[c] \in Seq(Bytes)
  BY DEF BucketsInv, TypeOK
<1>2. <<Ack>> \in Seq(Bytes)
  BY TCPAssumption DEF Ack, Bytes
<1>3. staged \in Seq(Bytes)
  BY <1>1, <1>2
<1>4. /\ down[c] \o Accepted(c, down[c], staged) \in Seq(Bytes)
      /\ Len(down[c] \o Accepted(c, down[c], staged)) <= WireCap[c]
  BY <1>1, <1>3, AcceptedIs
<1>5. /\ down' \in [Clients -> Seq(Bytes)]
      /\ \A d \in Clients : Len(down'[d]) <= WireCap[d]
  BY <1>4 DEF Serve, BucketsInv, TypeOK
<1>6. /\ edge' \in [Clients -> SUBSET Events]
      /\ \A d \in Clients : "IN" \in edge[d] => "IN" \in edge'[d]
      /\ link' \in [Clients -> {"none", "open", "fin", "rst"}]
  <2>1. /\ Signal(c, {"IN", "HUP"}) \/ edge' = edge
        /\ link' = link \/ link' = [link EXCEPT ![c] = "rst"]
    BY DEF Serve
  <2>2. {"IN", "HUP"} \in SUBSET Events
    BY DEF Events
  <2>3. CASE Signal(c, {"IN", "HUP"})
    BY <2>1, <2>2, <2>3, SignalIs DEF BucketsInv, TypeOK
  <2>4. CASE edge' = edge
    BY <2>1, <2>4 DEF BucketsInv, TypeOK, Events
  <2>. QED
    BY <2>1, <2>3, <2>4
<1>7. /\ up' = [up EXCEPT ![c] = <<>>]
      /\ send_buffer_' = [send_buffer_ EXCEPT ![c] = <<>>]
      /\ todo' = todo \ {c}
  BY DEF Serve
<1>8. TypeOK'
  <2>1. up' \in [Clients -> Seq(Bytes)] /\ send_buffer_' \in [Clients -> Seq(Bytes)]
    BY <1>7 DEF BucketsInv, TypeOK
  <2>2. \A d \in Clients : up'[d] = up[d] \/ up'[d] = <<>>
    BY <1>7 DEF BucketsInv, TypeOK
  <2>3. \A d \in Clients : Len(up'[d]) <= WireCap[d] /\ Len(down'[d]) <= WireCap[d]
    BY <1>5, <2>2, TCPAssumption DEF BucketsInv, TypeOK
  <2>4. todo' \subseteq Clients /\ (todo' # {} => spc' = "serve") /\ spc' = spc
    BY <1>7 DEF Serve, BucketsInv, TypeOK
  <2>. QED
    BY <1>5, <1>6, <2>1, <2>3, <2>4
       DEF Serve, BucketsInv, TypeOK, clientVars, pollVars, Events
<1>9. NoDanglingSocket' /\ NoForgottenBytes'
  BY <1>6, <1>7 DEF Serve, BucketsInv, TypeOK, NoDanglingSocket, NoForgottenBytes, pollVars
<1>. QED
  BY <1>7, <1>8, <1>9 DEF Serve, BucketsInv, TypeOK, UnsentUnread, clientVars

\* The steps between them, and the owner's own messages.
LEMMA OthersKeepBuckets ==
    ASSUME BucketsInv,
           \/ AcceptEnds \/ ServeBegins \/ ServeEnds \/ UNCHANGED vars
           \/ \E c \in Clients : Push(c)
    PROVE  BucketsInv'
<1>. USE DEF BucketsInv, TypeOK, NoDanglingSocket, NoForgottenBytes, UnsentUnread,
             kernelVars, clientVars, pollVars
<1>1. CASE AcceptEnds
  BY <1>1 DEF AcceptEnds
<1>2. CASE ServeBegins
  BY <1>2 DEF ServeBegins
<1>3. CASE ServeEnds
  BY <1>3 DEF ServeEnds
<1>4. CASE UNCHANGED vars
  BY <1>4 DEF vars
<1>5. ASSUME NEW c \in Clients, Push(c) PROVE BucketsInv'
  <2>1. Ack \in Bytes
    BY TCPAssumption DEF Ack, Bytes
  <2>2. send_buffer_' \in [Clients -> Seq(Bytes)]
    BY <1>5, <2>1 DEF Push
  <2>3. pushes' \in 0 .. MaxPushes
    BY <1>5, TCPAssumption DEF Push
  <2>. QED
    BY <1>5, <2>2, <2>3 DEF Push
<1>. QED
  BY <1>1, <1>2, <1>3, <1>4, <1>5


\* Every step keeps it.
LEMMA BucketsStep == BucketsInv /\ [Next]_vars => BucketsInv'
BY ClientKeepsBuckets, PollKeepsBuckets, AcceptKeepsBuckets, ServeKeepsBuckets, OthersKeepBuckets
   DEF Next, Server

-----------------------------------------------------------------------------
(* The order of the bytes: what Rising and Data are of the sequences that  *)
(* the steps build.                                                        *)

Below(s, t) == \A x \in Data(s), y \in Data(t) : x < y

\* Two sequences in a row.
LEMMA ConcatIs ==
    ASSUME NEW s \in Seq(Nat), NEW t \in Seq(Nat)
    PROVE  /\ s \o t \in Seq(Nat)
           /\ Data(s \o t) = Data(s) \cup Data(t)
           /\ Rising(s \o t) <=> Rising(s) /\ Rising(t) /\ Below(s, t)
<1>. DEFINE st == s \o t
<1>1. /\ st \in Seq(Nat) /\ Len(st) = Len(s) + Len(t)
      /\ \A i \in 1 .. Len(s) : st[i] = s[i]
      /\ \A j \in 1 .. Len(t) : st[Len(s) + j] = t[j]
  OBVIOUS
<1>2. /\ DOMAIN st = 1 .. Len(st) /\ DOMAIN s = 1 .. Len(s) /\ DOMAIN t = 1 .. Len(t)
      /\ Len(s) \in Nat /\ Len(t) \in Nat
  BY <1>1
<1>. HIDE DEF st
<1>3. \A k \in DOMAIN st :
         k \in DOMAIN s \/ (k - Len(s) \in DOMAIN t /\ st[k] = t[k - Len(s)])
  <2>. SUFFICES ASSUME NEW k \in DOMAIN st, k \notin DOMAIN s
                PROVE  k - Len(s) \in DOMAIN t /\ st[k] = t[k - Len(s)]
    OBVIOUS
  <2>1. k - Len(s) \in 1 .. Len(t)
    BY <1>1, <1>2
  <2>2. st[Len(s) + (k - Len(s))] = t[k - Len(s)]
    BY <1>1, <2>1
  <2>. QED
    BY <1>1, <1>2, <2>1, <2>2
<1>4. /\ \A i \in DOMAIN s : i \in DOMAIN st /\ st[i] = s[i]
      /\ \A j \in DOMAIN t : Len(s) + j \in DOMAIN st /\ st[Len(s) + j] = t[j]
  BY <1>1, <1>2
<1>5. Data(st) = Data(s) \cup Data(t)
  <2>1. Data(st) \subseteq Data(s) \cup Data(t)
    BY <1>3, <1>4 DEF Data, Range
  <2>2. Data(s) \subseteq Data(st)
    BY <1>4 DEF Data, Range
  <2>3. Data(t) \subseteq Data(st)
    BY <1>4 DEF Data, Range
  <2>. QED
    BY <2>1, <2>2, <2>3
<1>6. ASSUME Rising(st) PROVE Rising(s) /\ Rising(t) /\ Below(s, t)
  <2>1. Rising(s)
    BY <1>4, <1>6 DEF Rising
  <2>2. Rising(t)
    <3>. SUFFICES ASSUME NEW i \in DOMAIN t, NEW j \in DOMAIN t, i < j,
                         IsData(t[i]), IsData(t[j])
                  PROVE  t[i] < t[j]
      BY DEF Rising
    <3>1. Len(s) + i < Len(s) + j
      BY <1>2
    <3>. QED
      BY <1>4, <1>6, <3>1 DEF Rising
  <2>3. Below(s, t)
    <3>. SUFFICES ASSUME NEW i \in DOMAIN s, NEW j \in DOMAIN t, IsData(s[i]), IsData(t[j])
                  PROVE  s[i] < t[j]
      BY DEF Below, Data, Range
    <3>1. i < Len(s) + j
      BY <1>2
    <3>. QED
      BY <1>4, <1>6, <3>1 DEF Rising
  <2>. QED
    BY <2>1, <2>2, <2>3
<1>7. ASSUME Rising(s), Rising(t), Below(s, t) PROVE Rising(st)
  <2>. SUFFICES ASSUME NEW i \in DOMAIN st, NEW j \in DOMAIN st, i < j,
                       IsData(st[i]), IsData(st[j])
                PROVE  st[i] < st[j]
    BY DEF Rising
  <2>1. CASE i \in DOMAIN s /\ j \in DOMAIN s
    BY <1>4, <1>7, <2>1 DEF Rising
  <2>2. CASE i \in DOMAIN s /\ j \notin DOMAIN s
    BY <1>3, <1>4, <1>7, <2>2 DEF Below, Data, Range
  <2>3. CASE i \notin DOMAIN s
    <3>1. j \notin DOMAIN s /\ i - Len(s) < j - Len(s)
      BY <1>1, <1>2, <2>3
    <3>. QED
      BY <1>3, <1>7, <2>3, <3>1 DEF Rising
  <2>. QED
    BY <2>1, <2>2, <2>3
<1>. QED
  BY <1>1, <1>5, <1>6, <1>7 DEF st

\* The beginning of a sequence.
LEMMA PrefixIs ==
    ASSUME NEW s \in Seq(Nat), NEW n \in 0 .. Len(s)
    PROVE  /\ SubSeq(s, 1, n) \in Seq(Nat)
           /\ Data(SubSeq(s, 1, n)) \subseteq Data(s)
           /\ Rising(s) => Rising(SubSeq(s, 1, n))
<1>. DEFINE u == SubSeq(s, 1, n)
<1>1. u \in Seq(Nat) /\ Len(u) = n /\ \A i \in 1 .. n : u[i] = s[i]
  OBVIOUS
<1>. HIDE DEF u
<1>2. DOMAIN u = 1 .. n /\ 1 .. n \subseteq DOMAIN s
  BY <1>1
<1>3. Data(u) \subseteq Data(s)
  BY <1>1, <1>2 DEF Data, Range
<1>4. Rising(s) => Rising(u)
  BY <1>1, <1>2 DEF Rising
<1>. QED
  BY <1>1, <1>3, <1>4 DEF u

\* Nothing, and an "ACK: ".
LEMMA NoDataIs ==
    /\ <<>> \in Seq(Nat) /\ Data(<<>>) = {} /\ Rising(<<>>)
    /\ <<Ack>> \in Seq(Nat) /\ Data(<<Ack>>) = {} /\ Rising(<<Ack>>)
<1>1. <<>> \in Seq(Nat) /\ DOMAIN <<>> = {}
  OBVIOUS
<1>2. <<Ack>> \in Seq(Nat) /\ DOMAIN <<Ack>> = {1} /\ <<Ack>>[1] = Ack
  BY DEF Ack
<1>. QED
  BY <1>1, <1>2 DEF Data, Range, Rising, IsData

\* A connection's four sequences in a row.
Row(s, t, u, v) == s \o t \o u \o v

\* All the data of a sequence (a name, so that the provers do not take the sets apart).
Carries(s, D) == Data(s) = D

\* The bytes of a row of four buffers are those of each of them ...
LEMMA RowData ==
    ASSUME NEW s \in Seq(Nat), NEW t \in Seq(Nat), NEW u \in Seq(Nat), NEW v \in Seq(Nat)
    PROVE  Data(Row(s, t, u, v)) = Data(s) \cup Data(t) \cup Data(u) \cup Data(v)
<1>1. s \o t \in Seq(Nat) /\ Data(s \o t) = Data(s) \cup Data(t)
  BY ConcatIs
<1>2. s \o t \o u \in Seq(Nat) /\ Data(s \o t \o u) = Data(s \o t) \cup Data(u)
  BY <1>1, ConcatIs
<1>3. Data(s \o t \o u \o v) = Data(s \o t \o u) \cup Data(v)
  BY <1>2, ConcatIs
<1>. QED
  BY <1>1, <1>2, <1>3 DEF Row

\* ... and they are in order if each buffer is and each lies below the next.
LEMMA RowRises ==
    ASSUME NEW s \in Seq(Nat), NEW t \in Seq(Nat), NEW u \in Seq(Nat), NEW v \in Seq(Nat)
    PROVE  Rising(Row(s, t, u, v)) <=>
                /\ Rising(s) /\ Rising(t) /\ Rising(u) /\ Rising(v)
                /\ Below(s, t) /\ Below(s, u) /\ Below(s, v)
                /\ Below(t, u) /\ Below(t, v) /\ Below(u, v)
<1>1. /\ s \o t \in Seq(Nat) /\ Data(s \o t) = Data(s) \cup Data(t)
      /\ Rising(s \o t) <=> Rising(s) /\ Rising(t) /\ Below(s, t)
  BY ConcatIs
<1>2. /\ s \o t \o u \in Seq(Nat) /\ Data(s \o t \o u) = Data(s \o t) \cup Data(u)
      /\ Rising(s \o t \o u) <=> Rising(s \o t) /\ Rising(u) /\ Below(s \o t, u)
  BY <1>1, ConcatIs
<1>3. Rising(s \o t \o u \o v)
         <=> Rising(s \o t \o u) /\ Rising(v) /\ Below(s \o t \o u, v)
  BY <1>2, ConcatIs
<1>4. Below(s \o t, u) <=> Below(s, u) /\ Below(t, u)
  BY <1>1 DEF Below
<1>5. Below(s \o t \o u, v) <=> Below(s, v) /\ Below(t, v) /\ Below(u, v)
  BY <1>1, <1>2 DEF Below
<1>. QED
  BY <1>1, <1>2, <1>3, <1>4, <1>5 DEF Row

\* What the kernel takes of the bytes s: their beginning, and all of them if
\* there is room.
LEMMA AcceptedData ==
    ASSUME NEW c \in Clients, NEW q \in Seq(Nat), NEW s \in Seq(Nat), Len(q) <= WireCap[c]
    PROVE  /\ Accepted(c, q, s) \in Seq(Nat)
           /\ Len(Accepted(c, q, s)) <= Len(s)
           /\ Data(Accepted(c, q, s)) \subseteq Data(s)
           /\ Rising(s) => Rising(Accepted(c, q, s))
           /\ Len(q) + Len(s) <= WireCap[c] => Accepted(c, q, s) = s
<1>. DEFINE n == IF Len(s) <= WireCap[c] - Len(q) THEN Len(s) ELSE WireCap[c] - Len(q)
<1>1. WireCap[c] \in Nat /\ Len(q) \in Nat /\ Len(s) \in Nat
  BY TCPAssumption
<1>2. n \in 0 .. Len(s)
  BY <1>1
<1>3. Accepted(c, q, s) = SubSeq(s, 1, n)
  BY DEF Accepted
<1>4. Len(q) + Len(s) <= WireCap[c] => n = Len(s)
  BY <1>1
<1>5. SubSeq(s, 1, Len(s)) = s
  OBVIOUS
<1>6. Len(SubSeq(s, 1, n)) <= Len(s)
  BY <1>1, <1>2
<1>. HIDE DEF n
<1>. QED
  BY <1>2, <1>3, <1>4, <1>5, <1>6, PrefixIs

-----------------------------------------------------------------------------
(* The steps keep the order of a connection's bytes.                       *)

\* The buffers of a connection are sequences of numbers.
LEMMA BytesAreNumbers ==
    ASSUME TypeOK, NEW c \in Clients
    PROVE  /\ got[c] \in Seq(Nat) /\ down[c] \in Seq(Nat)
           /\ send_buffer_[c] \in Seq(Nat) /\ up[c] \in Seq(Nat)
           /\ Len(up[c]) <= WireCap[c] /\ Len(down[c]) <= WireCap[c]
           /\ sent[c] \in 0 .. MaxBytes
<1>1. Bytes \subseteq Nat
  BY TCPAssumption DEF Bytes
<1>2. ASSUME NEW s \in Seq(Bytes) PROVE s \in Seq(Nat)
  <2>1. Len(s) \in Nat /\ \A i \in 1 .. Len(s) : s[i] \in Bytes
    OBVIOUS
  <2>2. s = [i \in 1 .. Len(s) |-> s[i]]
    OBVIOUS
  <2>. QED
    BY <1>1, <2>1, <2>2
<1>. QED
  BY <1>2 DEF TypeOK

\* The load as a number.
LEMMA LoadIs ==
    ASSUME NEW s \in Seq(Nat), NEW t \in Seq(Nat), NEW u \in Seq(Nat)
    PROVE  Len(s) + Len(t) + 2 * Len(u) \in Nat
OBVIOUS

\* A row of which parts are dropped.
LEMMA DroppedRow ==
    ASSUME NEW s \in Seq(Nat), NEW t \in Seq(Nat), NEW u \in Seq(Nat), NEW v \in Seq(Nat),
           NEW tt \in {t, <<>>}, NEW uu \in {u, <<>>}, NEW vv \in {v, <<>>},
           Rising(Row(s, t, u, v))
    PROVE  /\ Rising(Row(s, tt, uu, vv))
           /\ Data(Row(s, tt, uu, vv)) \subseteq Data(Row(s, t, u, v))
<1>1. /\ tt \in Seq(Nat) /\ uu \in Seq(Nat) /\ vv \in Seq(Nat)
      /\ Data(tt) \subseteq Data(t) /\ Data(uu) \subseteq Data(u) /\ Data(vv) \subseteq Data(v)
      /\ Rising(t) => Rising(tt)
      /\ Rising(u) => Rising(uu)
      /\ Rising(v) => Rising(vv)
  BY NoDataIs
<1>2. Data(Row(s, t, u, v)) = Data(s) \cup Data(t) \cup Data(u) \cup Data(v)
  BY RowData
<1>3. Data(Row(s, tt, uu, vv)) = Data(s) \cup Data(tt) \cup Data(uu) \cup Data(vv)
  <2>1. tt \in Seq(Nat) /\ uu \in Seq(Nat) /\ vv \in Seq(Nat)
    BY <1>1
  <2>. QED
    BY <2>1, RowData
<1>4. /\ Rising(s) /\ Rising(tt) /\ Rising(uu) /\ Rising(vv)
      /\ Below(s, t) /\ Below(s, u) /\ Below(s, v)
      /\ Below(t, u) /\ Below(t, v) /\ Below(u, v)
  BY <1>1, RowRises
<1>5. /\ Below(s, tt) /\ Below(s, uu) /\ Below(s, vv)
      /\ Below(tt, uu) /\ Below(tt, vv) /\ Below(uu, vv)
  BY <1>1, <1>4 DEF Below
<1>6. Rising(Row(s, tt, uu, vv))
  BY <1>1, <1>4, <1>5, RowRises
<1>. QED
  BY <1>1, <1>2, <1>3, <1>6

\* A row after the client has read and sent: w goes behind what it sent before.
LEMMA SentRow ==
    ASSUME NEW s \in Seq(Nat), NEW t \in Seq(Nat), NEW u \in Seq(Nat), NEW v \in Seq(Nat),
           NEW w \in Seq(Nat), NEW ss, NEW tt, NEW vv,
           ss = s \o t, tt = <<>>, vv = v \o w,
           Rising(Row(s, t, u, v)), Rising(w), Below(Row(s, t, u, v), w)
    PROVE  /\ Rising(Row(ss, tt, u, vv))
           /\ Carries(Row(ss, tt, u, vv), Data(Row(s, t, u, v)) \cup Data(w))
<1>1. /\ Data(Row(s, t, u, v)) = Data(s) \cup Data(t) \cup Data(u) \cup Data(v)
      /\ Rising(s) /\ Rising(t) /\ Rising(u) /\ Rising(v)
      /\ Below(s, t) /\ Below(s, u) /\ Below(s, v)
      /\ Below(t, u) /\ Below(t, v) /\ Below(u, v)
  BY RowData, RowRises
<1>2. Below(s, w) /\ Below(t, w) /\ Below(u, w) /\ Below(v, w)
  BY <1>1 DEF Below
<1>3. ss \in Seq(Nat) /\ Data(ss) = Data(s) \cup Data(t) /\ Rising(ss)
  BY <1>1, ConcatIs
<1>4. vv \in Seq(Nat) /\ Data(vv) = Data(v) \cup Data(w) /\ Rising(vv)
  BY <1>1, <1>2, ConcatIs
<1>5. tt \in Seq(Nat) /\ Data(tt) = {} /\ Rising(tt)
  BY NoDataIs
<1>6. /\ Below(ss, tt) /\ Below(ss, u) /\ Below(ss, vv)
      /\ Below(tt, u) /\ Below(tt, vv) /\ Below(u, vv)
  BY <1>1, <1>2, <1>3, <1>4, <1>5 DEF Below
<1>7. ss \in Seq(Nat) /\ tt \in Seq(Nat) /\ vv \in Seq(Nat)
  BY <1>3, <1>4, <1>5
<1>8. Data(Row(ss, tt, u, vv)) = Data(ss) \cup Data(tt) \cup Data(u) \cup Data(vv)
  BY ONLY <1>7, RowData, u \in Seq(Nat)
<1>9. Rising(Row(ss, tt, u, vv))
  BY ONLY <1>1, <1>3, <1>4, <1>5, <1>6, <1>7, RowRises, u \in Seq(Nat)
<1>. QED
  BY <1>1, <1>3, <1>4, <1>5, <1>8, <1>9 DEF Carries

\* A row after the server has answered with w.
LEMMA AnsweredRow ==
    ASSUME NEW s \in Seq(Nat), NEW t \in Seq(Nat), NEW u \in Seq(Nat), NEW v \in Seq(Nat),
           NEW w \in Seq(Nat), NEW tt, NEW uu, NEW vv,
           tt = t \o w, uu = <<>>, vv = <<>>,
           Rising(Row(s, t, u, v)), Rising(w), Carries(w, Data(w) \cap (Data(u) \cup Data(v)))
    PROVE  /\ Rising(Row(s, tt, uu, vv))
           /\ Carries(Row(s, tt, uu, vv), Data(s) \cup Data(t) \cup Data(w))
<1>1. /\ Rising(s) /\ Rising(t)
      /\ Below(s, t) /\ Below(s, u) /\ Below(s, v) /\ Below(t, u) /\ Below(t, v)
  BY RowRises
<1>2. Below(s, w) /\ Below(t, w)
  BY <1>1 DEF Below, Carries
<1>3. tt \in Seq(Nat) /\ Data(tt) = Data(t) \cup Data(w) /\ Rising(tt)
  BY <1>1, <1>2, ConcatIs
<1>4. /\ uu \in Seq(Nat) /\ Data(uu) = {} /\ Rising(uu)
      /\ vv \in Seq(Nat) /\ Data(vv) = {} /\ Rising(vv)
  BY NoDataIs
<1>5. /\ Below(s, tt) /\ Below(s, uu) /\ Below(s, vv)
      /\ Below(tt, uu) /\ Below(tt, vv) /\ Below(uu, vv)
  BY <1>1, <1>2, <1>3, <1>4 DEF Below
<1>6. tt \in Seq(Nat) /\ uu \in Seq(Nat) /\ vv \in Seq(Nat)
  BY <1>3, <1>4
<1>7. Data(Row(s, tt, uu, vv)) = Data(s) \cup Data(tt) \cup Data(uu) \cup Data(vv)
  BY ONLY <1>6, RowData, s \in Seq(Nat)
<1>8. Rising(Row(s, tt, uu, vv))
  BY ONLY <1>1, <1>3, <1>4, <1>5, <1>6, RowRises, s \in Seq(Nat)
<1>. QED
  BY <1>3, <1>4, <1>7, <1>8 DEF Carries

\* A row with other sequences of the same data in it.
LEMMA SameDataRow ==
    ASSUME NEW s \in Seq(Nat), NEW t \in Seq(Nat), NEW u \in Seq(Nat), NEW v \in Seq(Nat),
           NEW uu \in Seq(Nat), Data(uu) = Data(u), Rising(u) => Rising(uu),
           Rising(Row(s, t, u, v))
    PROVE  /\ Rising(Row(s, t, uu, v))
           /\ Data(Row(s, t, uu, v)) = Data(Row(s, t, u, v))
<1>1. /\ Rising(s) /\ Rising(t) /\ Rising(uu) /\ Rising(v)
      /\ Below(s, t) /\ Below(s, u) /\ Below(s, v)
      /\ Below(t, u) /\ Below(t, v) /\ Below(u, v)
  BY RowRises
<1>2. Below(s, uu) /\ Below(t, uu) /\ Below(uu, v)
  BY <1>1 DEF Below
<1>3. Rising(Row(s, t, uu, v))
  BY <1>1, <1>2, RowRises
<1>4. Data(Row(s, t, uu, v)) = Data(Row(s, t, u, v))
  <2>1. Data(Row(s, t, uu, v)) = Data(s) \cup Data(t) \cup Data(uu) \cup Data(v)
    BY RowData
  <2>2. Data(Row(s, t, u, v)) = Data(s) \cup Data(t) \cup Data(u) \cup Data(v)
    BY RowData
  <2>. QED
    BY <2>1, <2>2
<1>. QED
  BY <1>3, <1>4

\* A connection that the step leaves alone.
LEMMA OtherEchoes ==
    ASSUME TypeOK, NEW c \in Clients, Echoes(c),
           got'[c] = got[c], down'[c] = down[c], send_buffer_'[c] = send_buffer_[c],
           up'[c] = up[c], sent'[c] = sent[c],
           link'[c] = link[c] \/ link'[c] \in {"fin", "rst"},
           pushes' \in Nat, pushes <= pushes'
    PROVE  Echoes(c)'
<1>1. Way(c)' = Way(c) /\ Load(c)' = Load(c)
  BY DEF Way, Load
<1>2. sent[c] \in Nat /\ pushes \in Nat
  BY TCPAssumption DEF TypeOK
<1>3. Load(c) \in Nat
  BY BytesAreNumbers, LoadIs DEF Load
<1>4. Rising(Way(c))' /\ (Data(Way(c)) \subseteq 1 .. sent[c])'
  BY <1>1 DEF Echoes, Rising, Data, Range, IsData
<1>5. ASSUME Roomy(c), link'[c] \in {"none", "open"}
      PROVE  /\ Load(c)' <= 2 * sent'[c] + pushes'
             /\ 1 .. sent'[c] \subseteq Data(Way(c)')
  <2>1. link[c] \in {"none", "open"}
    BY <1>5
  <2>2. Load(c) <= 2 * sent[c] + pushes /\ 1 .. sent[c] \subseteq Data(Way(c))
    BY <1>5, <2>1 DEF Echoes
  <2>. QED
    BY <1>1, <1>2, <1>3, <2>2
<1>. QED
  BY <1>1, <1>4, <1>5 DEF Echoes, Roomy

\* A connection of which the step drops what is on the way, or parts of it.
LEMMA DroppedInOrder ==
    ASSUME TypeOK, NEW c \in Clients, Echoes(c),
           got'[c] = got[c],
           down'[c] \in {down[c], <<>>},
           send_buffer_'[c] \in {send_buffer_[c], <<>>},
           up'[c] \in {up[c], <<>>}
    PROVE  Rising(Way(c)') /\ Data(Way(c)') \subseteq Data(Way(c))
<1>1. Way(c) = Row(got[c], down[c], send_buffer_[c], up[c])
  BY DEF Way, Row
<1>2. Way(c)' = Row(got[c], down'[c], send_buffer_'[c], up'[c])
  BY DEF Way, Row
<1>. QED
  BY <1>1, <1>2, BytesAreNumbers, DroppedRow DEF Echoes

\* Nothing is on its way at the start.
LEMMA EchoInit == Init => \A c \in Clients : Echoes(c)
<1>. SUFFICES ASSUME Init, NEW c \in Clients PROVE Echoes(c)
  OBVIOUS
<1>1. Way(c) = <<>> \o <<>> \o <<>> \o <<>>
  BY DEF Init, Way
<1>2. Way(c) = <<>>
  BY <1>1
<1>3. sent[c] = 0 /\ pushes = 0 /\ Load(c) = 0
  BY DEF Init, Load
<1>4. 1 .. sent[c] = {}
  BY <1>3
<1>5. Rising(Way(c)) /\ Data(Way(c)) = {}
  BY <1>2, NoDataIs
<1>. QED
  BY <1>3, <1>4, <1>5 DEF Echoes

-----------------------------------------------------------------------------
(* Each lemma takes the steps of one party through Echoes.                 *)

\* A client sends: what it has sent before is in front of what it sends now.
LEMMA ClientSends ==
    ASSUME TypeOK, NEW c \in Clients, Echoes(c),
           NEW n \in 0 .. MaxBytes, ClientSendAndRecv(c, n)
    PROVE  Echoes(c)'
<1>. DEFINE staged == [k \in 1 .. n |-> sent[c] + k]
            wired == Accepted(c, up[c], staged)
            g == got[c]
            d == down[c]
            b == send_buffer_[c]
            u == up[c]
            m == sent[c]
<1>1. /\ g \in Seq(Nat) /\ d \in Seq(Nat) /\ b \in Seq(Nat) /\ u \in Seq(Nat)
      /\ Len(u) <= WireCap[c] /\ m \in 0 .. MaxBytes /\ m \in Nat /\ pushes \in 0 .. MaxPushes
  BY BytesAreNumbers, TCPAssumption DEF TypeOK
<1>2. /\ link[c] = "open" /\ m + n <= MaxBytes
      /\ got'[c] = g \o d /\ down'[c] = <<>> /\ send_buffer_'[c] = b
      /\ up'[c] = u \o wired /\ sent'[c] = m + n
      /\ link' = link /\ pushes' = pushes
  BY DEF ClientSendAndRecv, TypeOK
<1>3. staged \in Seq(Nat) /\ Len(staged) = n /\ \A k \in 1 .. n : staged[k] = m + k
  <2>1. m \in Nat /\ n \in Nat
    BY <1>1
  <2>. QED
    BY ONLY <2>1
<1>4. DOMAIN staged = 1 .. n
  OBVIOUS
<1>. HIDE DEF staged, g, d, b, u, m
<1>5. /\ Data(staged) = m + 1 .. m + n
      /\ Rising(staged)
  <2>1. \A k \in 1 .. n : IsData(staged[k]) /\ staged[k] \in m + 1 .. m + n
    BY <1>1, <1>3 DEF IsData, Ack
  <2>2. \A x \in m + 1 .. m + n : x - m \in 1 .. n /\ staged[x - m] = x
    BY <1>1, <1>3
  <2>3. Data(staged) \subseteq m + 1 .. m + n
    BY <1>4, <2>1 DEF Data, Range
  <2>4. m + 1 .. m + n \subseteq Data(staged)
    BY <1>4, <2>1, <2>2 DEF Data, Range
  <2>5. Rising(staged)
    BY <1>1, <1>3, <1>4 DEF Rising
  <2>. QED
    BY <2>3, <2>4, <2>5
<1>6. /\ wired \in Seq(Nat) /\ Len(wired) <= n
      /\ Data(wired) \subseteq m + 1 .. m + n
      /\ Rising(wired)
      /\ Len(u) + n <= WireCap[c] => wired = staged
  BY <1>1, <1>3, <1>5, AcceptedData DEF u
<1>. HIDE DEF wired
<1>7. Way(c) = Row(g, d, b, u) /\ Way(c)' = Row(got'[c], down'[c], b, up'[c])
  BY <1>2 DEF Way, Row, g, d, b, u
<1>8. Rising(Row(g, d, b, u)) /\ Data(Row(g, d, b, u)) \subseteq 1 .. m
  BY <1>7 DEF Echoes, m
<1>9. Below(Row(g, d, b, u), wired)
  BY <1>1, <1>6, <1>8 DEF Below
<1>10. /\ Rising(Way(c)')
       /\ Data(Way(c)') = Data(Row(g, d, b, u)) \cup Data(wired)
  <2>. DEFINE gg == got'[c]
              dd == down'[c]
              uu == up'[c]
  <2>1. gg = g \o d /\ dd = <<>> /\ uu = u \o wired
    BY <1>2
  <2>2. Way(c)' = Row(gg, dd, b, uu)
    BY <1>7
  <2>3. /\ g \in Seq(Nat) /\ d \in Seq(Nat) /\ b \in Seq(Nat) /\ u \in Seq(Nat)
        /\ wired \in Seq(Nat) /\ Rising(wired)
    BY <1>1, <1>6
  <2>. HIDE DEF gg, dd, uu
  <2>4. Rising(Row(gg, dd, b, uu))
    BY ONLY <1>8, <1>9, <2>1, <2>3, SentRow
  <2>5. Carries(Row(gg, dd, b, uu), Data(Row(g, d, b, u)) \cup Data(wired))
    BY ONLY <1>8, <1>9, <2>1, <2>3, SentRow
  <2>. QED
    BY <2>2, <2>4, <2>5 DEF Carries
<1>11. Data(Way(c)') \subseteq 1 .. m + n
  <2>1. 1 .. m \subseteq 1 .. m + n /\ m + 1 .. m + n \subseteq 1 .. m + n
    BY <1>1
  <2>. QED
    BY <1>6, <1>8, <1>10, <2>1
<1>12. ASSUME Roomy(c)
       PROVE  /\ Load(c)' <= 2 * sent'[c] + pushes'
              /\ 1 .. m + n \subseteq Data(Way(c)')
  <2>. DEFINE ld == Len(d)
              lb == Len(b)
              lu == Len(u)
  <2>1. ld \in Nat /\ lb \in Nat /\ lu \in Nat
    BY <1>1
  <2>2. ld + lb + 2 * lu <= 2 * m + pushes /\ 1 .. m \subseteq Data(Row(g, d, b, u))
    BY <1>2, <1>7, <1>12 DEF Echoes, Load, m, d, b, u
  <2>. HIDE DEF ld, lb, lu
  <2>3. lu + n <= WireCap[c]
    <3>1. /\ 2 * MaxBytes + MaxPushes <= WireCap[c] /\ pushes <= MaxPushes /\ pushes \in Nat
          /\ m \in Nat /\ m + n <= MaxBytes /\ n \in Nat
          /\ MaxPushes \in Nat /\ MaxBytes \in Nat /\ WireCap[c] \in Nat
      BY <1>1, <1>2, <1>12, TCPAssumption DEF Roomy
    <3>. QED
      BY <2>1, <2>2, <3>1
  <2>4. wired = staged
    BY <1>6, <2>3 DEF lu
  <2>5. Len(u \o wired) = lu + n
    <3>1. Len(u \o wired) = Len(u) + Len(wired)
      BY <1>1, <1>6
    <3>. QED
      BY <1>3, <2>4, <3>1 DEF lu
  <2>6. Load(c)' = 0 + lb + 2 * (lu + n)
    BY <1>2, <2>5 DEF Load, lb
  <2>7. Load(c)' <= 2 * sent'[c] + pushes'
    BY <1>1, <1>2, <2>1, <2>2, <2>6
  <2>8. 1 .. m + n = 1 .. m \cup m + 1 .. m + n
    BY <1>1
  <2>. QED
    BY <1>5, <1>10, <2>2, <2>4, <2>7, <2>8
<1>. QED
  BY <1>2, <1>10, <1>11, <1>12 DEF Echoes, Roomy

\* A client closes: what was on its way is lost, and it counts no more.
LEMMA ClientCloses ==
    ASSUME TypeOK, NEW c \in Clients, Echoes(c), ClientClose(c)
    PROVE  Echoes(c)'
<1>1. /\ link'[c] \in {"fin", "rst"}
      /\ got'[c] = got[c] /\ sent'[c] = sent[c] /\ send_buffer_'[c] = send_buffer_[c]
      /\ down'[c] \in {down[c], <<>>} /\ up'[c] \in {up[c], <<>>}
  BY DEF ClientClose, TypeOK, clientVars
<1>2. Rising(Way(c)') /\ Data(Way(c)') \subseteq Data(Way(c))
  BY <1>1, DroppedInOrder
<1>. QED
  BY <1>1, <1>2 DEF Echoes

\* The server answers: what it has staged and what it reads go behind what is on
\* its way back, as far as the kernel takes it.
LEMMA ServerAnswers ==
    ASSUME TypeOK, NEW c \in Clients, Echoes(c), Serve(c), link[c] = "open"
    PROVE  Echoes(c)'
<1>. DEFINE g == got[c]
            d == down[c]
            b == send_buffer_[c]
            u == up[c]
            m == sent[c]
            reply == IF u = <<>> THEN <<>> ELSE <<Ack>> \o u
            staged == b \o reply
            wired == Accepted(c, d, staged)
<1>1. /\ g \in Seq(Nat) /\ d \in Seq(Nat) /\ b \in Seq(Nat) /\ u \in Seq(Nat)
      /\ Len(d) <= WireCap[c] /\ m \in 0 .. MaxBytes /\ m \in Nat /\ pushes \in 0 .. MaxPushes
  <2>1. pushes \in 0 .. MaxPushes
    BY DEF TypeOK
  <2>2. \A k \in 0 .. MaxBytes : k \in Nat
    BY TCPAssumption
  <2>. QED
    BY <2>1, <2>2, BytesAreNumbers
<1>2. /\ got'[c] = g /\ down'[c] = d \o wired /\ send_buffer_'[c] = <<>>
      /\ up'[c] = <<>> /\ sent'[c] = m /\ link'[c] = "open" /\ pushes' = pushes
  BY DEF Serve, TypeOK, clientVars
<1>3. /\ reply \in Seq(Nat) /\ Data(reply) = Data(u) /\ (Rising(reply) <=> Rising(u))
      /\ Len(reply) <= 2 * Len(u)
  <2>1. CASE u = <<>>
    BY <2>1, NoDataIs
  <2>2. CASE u # <<>>
    <3>1. /\ <<Ack>> \o u \in Seq(Nat) /\ Data(<<Ack>> \o u) = Data(<<Ack>>) \cup Data(u)
          /\ Rising(<<Ack>> \o u) <=> Rising(<<Ack>>) /\ Rising(u) /\ Below(<<Ack>>, u)
      BY <1>1, NoDataIs, ConcatIs
    <3>2. Below(<<Ack>>, u)
      BY NoDataIs DEF Below
    <3>3. Len(<<Ack>> \o u) = 1 + Len(u) /\ Len(u) >= 1
      BY <1>1, <2>2 DEF Ack
    <3>4. Len(u) \in Nat /\ reply = <<Ack>> \o u
      BY <1>1, <2>2
    <3>. HIDE DEF u, reply
    <3>5. Data(<<Ack>> \o u) = Data(u) /\ (Rising(<<Ack>> \o u) <=> Rising(u))
      BY <3>1, <3>2, NoDataIs
    <3>6. Len(<<Ack>> \o u) <= 2 * Len(u)
      BY <3>3, <3>4
    <3>. QED
      BY <3>1, <3>4, <3>5, <3>6
  <2>. QED
    BY <2>1, <2>2
<1>. HIDE DEF g, d, b, u, m, reply
<1>4. /\ staged \in Seq(Nat) /\ Data(staged) = Data(b) \cup Data(u)
      /\ Rising(staged) <=> Rising(b) /\ Rising(reply) /\ Below(b, reply)
      /\ Len(staged) = Len(b) + Len(reply)
  <2>1. reply \in Seq(Nat)
    BY <1>3
  <2>2. /\ staged \in Seq(Nat) /\ Data(staged) = Data(b) \cup Data(reply)
        /\ Rising(staged) <=> Rising(b) /\ Rising(reply) /\ Below(b, reply)
    BY <1>1, <2>1, ConcatIs
  <2>3. Len(staged) = Len(b) + Len(reply)
    BY <1>1, <2>1
  <2>. HIDE DEF staged
  <2>. QED
    BY <1>3, <2>2, <2>3
<1>. HIDE DEF staged
<1>5. /\ wired \in Seq(Nat) /\ Len(wired) <= Len(staged)
      /\ Data(wired) \subseteq Data(staged)
      /\ Rising(staged) => Rising(wired)
      /\ Len(d) + Len(staged) <= WireCap[c] => wired = staged
  BY <1>1, <1>4, AcceptedData
<1>. HIDE DEF wired
<1>6. Way(c) = Row(g, d, b, u) /\ Way(c)' = Row(g, down'[c], send_buffer_'[c], up'[c])
  BY <1>2 DEF Way, Row, g, d, b, u
<1>7. Rising(Row(g, d, b, u)) /\ Data(Row(g, d, b, u)) \subseteq 1 .. m
  BY <1>6 DEF Echoes, m
<1>8. /\ Data(Row(g, d, b, u)) = Data(g) \cup Data(d) \cup Data(b) \cup Data(u)
      /\ Rising(b) /\ Rising(u) /\ Below(b, u)
  BY <1>1, <1>7, RowData, RowRises
<1>9. Rising(wired) /\ Data(wired) \subseteq Data(b) \cup Data(u)
  <2>1. Below(b, reply)
    BY <1>3, <1>8 DEF Below
  <2>. QED
    BY <1>3, <1>4, <1>5, <1>8, <2>1
<1>10. /\ Rising(Way(c)')
       /\ Data(Way(c)') = Data(g) \cup Data(d) \cup Data(wired)
  <2>. DEFINE dd == down'[c]
              bb == send_buffer_'[c]
              uu == up'[c]
  <2>1. dd = d \o wired /\ bb = <<>> /\ uu = <<>>
    BY <1>2
  <2>2. Way(c)' = Row(g, dd, bb, uu)
    BY <1>6
  <2>3. /\ g \in Seq(Nat) /\ d \in Seq(Nat) /\ b \in Seq(Nat) /\ u \in Seq(Nat)
        /\ wired \in Seq(Nat)
    BY <1>1, <1>5
  <2>. HIDE DEF dd, bb, uu
  <2>4. Rising(wired) /\ Carries(wired, Data(wired) \cap (Data(b) \cup Data(u)))
    BY <1>9 DEF Carries
  <2>5. Rising(Row(g, dd, bb, uu))
    BY ONLY <1>7, <2>1, <2>3, <2>4, AnsweredRow
  <2>6. Carries(Row(g, dd, bb, uu), Data(g) \cup Data(d) \cup Data(wired))
    BY ONLY <1>7, <2>1, <2>3, <2>4, AnsweredRow
  <2>. QED
    BY <2>2, <2>5, <2>6 DEF Carries
<1>11. Data(Way(c)') \subseteq 1 .. m
  BY <1>7, <1>8, <1>9, <1>10
<1>12. Len(d \o wired) = Len(d) + Len(wired)
  BY <1>1, <1>5
<1>13. ASSUME Roomy(c)
       PROVE  /\ Load(c)' <= 2 * m + pushes
              /\ 1 .. m \subseteq Data(Way(c)')
  <2>. DEFINE ld == Len(d)
              lb == Len(b)
              lu == Len(u)
              lr == Len(reply)
              lw == Len(wired)
  <2>1. ld \in Nat /\ lb \in Nat /\ lu \in Nat /\ lr \in Nat /\ lw \in Nat
    BY <1>1, <1>3, <1>5
  <2>2. ld + lb + 2 * lu <= 2 * m + pushes /\ 1 .. m \subseteq Data(Row(g, d, b, u))
    BY <1>2, <1>6, <1>13 DEF Echoes, Load, m, d, b, u
  <2>3. lr <= 2 * lu /\ Len(staged) = lb + lr
    BY <1>3, <1>4
  <2>4. lw <= lb + lr
    BY <1>5, <2>3
  <2>5. Load(c)' = ld + lw + 0
    BY <1>2, <1>12 DEF Load
  <2>6. Len(d) + Len(staged) = ld + (lb + lr)
    BY <2>3
  <2>. HIDE DEF ld, lb, lu, lr, lw
  <2>7. ld + (lb + lr) <= WireCap[c]
    <3>1. /\ 2 * MaxBytes + MaxPushes <= WireCap[c] /\ pushes <= MaxPushes /\ pushes \in Nat
          /\ m \in Nat /\ m <= MaxBytes
          /\ MaxPushes \in Nat /\ MaxBytes \in Nat /\ WireCap[c] \in Nat
      BY <1>1, <1>13, TCPAssumption DEF Roomy
    <3>. QED
      BY <2>1, <2>2, <2>3, <3>1
  <2>8. wired = staged
    BY <1>5, <2>6, <2>7
  <2>9. pushes \in Nat /\ m \in Nat
    BY <1>1, TCPAssumption
  <2>10. Load(c)' <= 2 * m + pushes
    BY <2>1, <2>2, <2>3, <2>4, <2>5, <2>9
  <2>. QED
    BY <1>4, <1>8, <1>10, <2>2, <2>8, <2>10
<1>. QED
  BY <1>2, <1>10, <1>11, <1>13 DEF Echoes, Roomy, m

\* To a connection that is closed it answers nothing.
LEMMA ServerDrops ==
    ASSUME TypeOK, NEW c \in Clients, Echoes(c), Serve(c), link[c] # "open"
    PROVE  Echoes(c)'
<1>1. /\ link'[c] = link[c] \/ link'[c] = "rst"
      /\ got'[c] = got[c] /\ sent'[c] = sent[c] /\ send_buffer_'[c] = <<>>
      /\ down'[c] = down[c] /\ up'[c] = <<>> /\ pushes' = pushes
  BY DEF Serve, TypeOK, clientVars
<1>2. Rising(Way(c)') /\ Data(Way(c)') \subseteq Data(Way(c))
  BY <1>1, DroppedInOrder
<1>3. ASSUME Roomy(c), link'[c] \in {"none", "open"}
      PROVE  Load(c)' <= 2 * sent'[c] + pushes' /\ 1 .. sent'[c] \subseteq Data(Way(c)')
  <2>1. link[c] = "none" /\ sent[c] = 0
    BY <1>1, <1>3 DEF Echoes
  <2>. DEFINE ld == Len(down[c])
              lb == Len(send_buffer_[c])
              lu == Len(up[c])
  <2>2. ld \in Nat /\ lb \in Nat /\ lu \in Nat /\ pushes \in Nat
    BY BytesAreNumbers, TCPAssumption DEF TypeOK
  <2>3. ld + lb + 2 * lu <= 2 * 0 + pushes
    BY <1>3, <2>1 DEF Echoes, Load
  <2>4. Load(c)' = ld + 0 + 0
    BY <1>1 DEF Load
  <2>5. sent'[c] = 0 /\ 1 .. sent'[c] = {}
    BY <1>1, <2>1
  <2>. HIDE DEF ld, lb, lu
  <2>. QED
    BY <1>1, <2>2, <2>3, <2>4, <2>5
<1>. QED
  BY <1>1, <1>2, <1>3 DEF Echoes, Roomy

\* The owner's message carries no byte of the client's.
LEMMA OwnerPushes ==
    ASSUME TypeOK, NEW c \in Clients, Echoes(c), Push(c)
    PROVE  Echoes(c)'
<1>. DEFINE g == got[c]
            d == down[c]
            b == send_buffer_[c]
            u == up[c]
<1>1. /\ g \in Seq(Nat) /\ d \in Seq(Nat) /\ b \in Seq(Nat) /\ u \in Seq(Nat)
      /\ pushes \in Nat
  BY BytesAreNumbers, TCPAssumption DEF TypeOK
<1>2. /\ got'[c] = g /\ down'[c] = d /\ send_buffer_'[c] = Append(b, Ack)
      /\ up'[c] = u /\ sent' = sent /\ link' = link /\ pushes' = pushes + 1
  BY DEF Push, TypeOK, clientVars, kernelVars
<1>3. /\ Append(b, Ack) = b \o <<Ack>>
      /\ Len(Append(b, Ack)) = Len(b) + 1
  <2>1. b \in Seq(Nat) /\ Ack \in Nat
    BY <1>1 DEF Ack
  <2>. HIDE DEF b
  <2>. QED
    BY ONLY <2>1
<1>. HIDE DEF g, d, b, u
<1>4. /\ b \o <<Ack>> \in Seq(Nat) /\ Data(b \o <<Ack>>) = Data(b)
      /\ Rising(b) => Rising(b \o <<Ack>>)
  <2>. DEFINE ack == <<Ack>>
  <2>1. ack \in Seq(Nat) /\ Data(ack) = {} /\ Rising(ack)
    BY NoDataIs
  <2>. HIDE DEF ack
  <2>2. /\ b \o ack \in Seq(Nat) /\ Data(b \o ack) = Data(b) \cup Data(ack)
        /\ Rising(b \o ack) <=> Rising(b) /\ Rising(ack) /\ Below(b, ack)
    BY <1>1, <2>1, ConcatIs
  <2>3. Below(b, ack)
    BY <2>1 DEF Below
  <2>. QED
    BY <2>1, <2>2, <2>3 DEF ack
<1>5. /\ Way(c) = Row(g, d, b, u)
      /\ Way(c)' = Row(g, d, send_buffer_'[c], u)
      /\ send_buffer_'[c] = b \o <<Ack>>
  BY <1>2, <1>3 DEF Way, Row, g, d, b, u
<1>6. /\ send_buffer_'[c] \in Seq(Nat) /\ Data(send_buffer_'[c]) = Data(b)
      /\ Rising(b) => Rising(send_buffer_'[c])
  BY <1>4, <1>5
<1>7. Rising(Way(c)') /\ Data(Way(c)') = Data(Way(c))
  <2>1. Rising(Row(g, d, b, u))
    BY <1>5 DEF Echoes
  <2>. DEFINE bb == send_buffer_'[c]
  <2>2. Way(c)' = Row(g, d, bb, u) /\ Way(c) = Row(g, d, b, u)
    BY <1>5
  <2>3. /\ g \in Seq(Nat) /\ d \in Seq(Nat) /\ b \in Seq(Nat) /\ u \in Seq(Nat)
        /\ bb \in Seq(Nat) /\ Data(bb) = Data(b) /\ (Rising(b) => Rising(bb))
    BY <1>1, <1>6
  <2>. HIDE DEF bb
  <2>4. Rising(Row(g, d, bb, u))
    BY ONLY <2>1, <2>3, SameDataRow
  <2>5. Data(Row(g, d, bb, u)) = Data(Row(g, d, b, u))
    BY ONLY <2>1, <2>3, SameDataRow
  <2>. QED
    BY <2>2, <2>4, <2>5
<1>8. ASSUME Roomy(c), link[c] \in {"none", "open"}
      PROVE  Load(c)' <= 2 * sent[c] + pushes'
  <2>. DEFINE ld == Len(d)
              lb == Len(b)
              lu == Len(u)
  <2>1. ld \in Nat /\ lb \in Nat /\ lu \in Nat /\ sent[c] \in Nat
    BY <1>1, BytesAreNumbers, TCPAssumption
  <2>2. ld + lb + 2 * lu <= 2 * sent[c] + pushes
    BY <1>8 DEF Echoes, Load, d, b, u
  <2>3. Load(c)' = ld + (lb + 1) + 2 * lu
    BY <1>2, <1>3 DEF Load
  <2>. HIDE DEF ld, lb, lu
  <2>4. pushes \in Nat /\ pushes' = pushes + 1
    BY <1>1, <1>2
  <2>. QED
    BY ONLY <2>1, <2>2, <2>3, <2>4
<1>. QED
  BY <1>2, <1>7, <1>8 DEF Echoes, Roomy

\* Every step keeps it, for every connection.
LEMMA EchoStep ==
    ASSUME BucketsInv, [Next]_vars, NEW c \in Clients, Echoes(c)
    PROVE  Echoes(c)'
<1>1. TypeOK /\ TypeOK' /\ pushes \in Nat /\ pushes' \in Nat
  <2>1. BucketsInv'
    BY BucketsStep
  <2>2. TypeOK /\ TypeOK'
    BY <2>1 DEF BucketsInv
  <2>3. pushes \in Nat /\ pushes' \in Nat
    BY <2>2, TCPAssumption DEF TypeOK
  <2>. QED
    BY <2>2, <2>3
<1>2. CASE UNCHANGED vars \/ Poll \/ AcceptEnds \/ ServeBegins \/ ServeEnds
           \/ \E e \in Clients : Accept(e)
  <2>1. UNCHANGED <<got, down, send_buffer_, up, sent, link, pushes>>
    BY <1>2 DEF vars, Poll, AcceptEnds, ServeBegins, ServeEnds, Accept, kernelVars, clientVars
  <2>. QED
    BY <1>1, <2>1, OtherEchoes
<1>3. ASSUME NEW e \in Clients, Serve(e) PROVE Echoes(c)'
  <2>1. CASE e = c
    BY <1>1, <1>3, <2>1, ServerAnswers, ServerDrops
  <2>2. CASE e # c
    <3>1. /\ got'[c] = got[c] /\ down'[c] = down[c] /\ send_buffer_'[c] = send_buffer_[c]
          /\ up'[c] = up[c] /\ sent'[c] = sent[c] /\ link'[c] = link[c] /\ pushes' = pushes
      BY <1>1, <1>3, <2>2 DEF Serve, TypeOK, clientVars
    <3>. QED
      BY <1>1, <3>1, OtherEchoes
  <2>. QED
    BY <2>1, <2>2
<1>4. ASSUME NEW e \in Clients, Connect(e) PROVE Echoes(c)'
  <2>1. CASE e = c
    <3>1. /\ link[c] = "none" /\ link'[c] = "open"
          /\ UNCHANGED <<got, down, send_buffer_, up, sent, pushes>>
      BY <1>1, <1>4, <2>1 DEF Connect, TypeOK, clientVars
    <3>2. Way(c)' = Way(c) /\ Load(c)' = Load(c)
      BY <3>1 DEF Way, Load
    <3>. QED
      BY <3>1, <3>2 DEF Echoes
  <2>2. CASE e # c
    <3>1. /\ UNCHANGED <<got, down, send_buffer_, up, sent, pushes>>
          /\ link'[c] = link[c]
      BY <1>1, <1>4, <2>2 DEF Connect, TypeOK, clientVars
    <3>. QED
      BY <1>1, <3>1, OtherEchoes
  <2>. QED
    BY <2>1, <2>2
<1>5. ASSUME NEW e \in Clients, NEW n \in 0 .. MaxBytes, ClientSendAndRecv(e, n)
      PROVE  Echoes(c)'
  <2>1. CASE e = c
    BY <1>1, <1>5, <2>1, ClientSends
  <2>2. CASE e # c
    <3>1. /\ got'[c] = got[c] /\ down'[c] = down[c] /\ send_buffer_'[c] = send_buffer_[c]
          /\ up'[c] = up[c] /\ sent'[c] = sent[c] /\ link'[c] = link[c] /\ pushes' = pushes
      BY <1>1, <1>5, <2>2 DEF ClientSendAndRecv, TypeOK
    <3>. QED
      BY <1>1, <3>1, OtherEchoes
  <2>. QED
    BY <2>1, <2>2
<1>6. ASSUME NEW e \in Clients, ClientClose(e) PROVE Echoes(c)'
  <2>1. CASE e = c
    BY <1>1, <1>6, <2>1, ClientCloses
  <2>2. CASE e # c
    <3>1. /\ got'[c] = got[c] /\ down'[c] = down[c] /\ send_buffer_'[c] = send_buffer_[c]
          /\ up'[c] = up[c] /\ sent'[c] = sent[c] /\ link'[c] = link[c] /\ pushes' = pushes
      BY <1>1, <1>6, <2>2 DEF ClientClose, TypeOK, clientVars
    <3>. QED
      BY <1>1, <3>1, OtherEchoes
  <2>. QED
    BY <2>1, <2>2
<1>7. ASSUME NEW e \in Clients, Push(e) PROVE Echoes(c)'
  <2>1. CASE e = c
    BY <1>1, <1>7, <2>1, OwnerPushes
  <2>2. CASE e # c
    <3>1. /\ got'[c] = got[c] /\ down'[c] = down[c] /\ send_buffer_'[c] = send_buffer_[c]
          /\ up'[c] = up[c] /\ sent'[c] = sent[c] /\ link'[c] = link[c]
          /\ pushes' = pushes + 1
      BY <1>1, <1>7, <2>2 DEF Push, TypeOK, clientVars, kernelVars
    <3>. QED
      BY <1>1, <3>1, OtherEchoes
  <2>. QED
    BY <2>1, <2>2
<1>. QED
  BY <1>2, <1>3, <1>4, <1>5, <1>6, <1>7 DEF Next, Server, Client

\* The two halves of the inductive invariant together.
LEMMA InvInit == Init => IInv
BY BucketsInit, EchoInit DEF IInv

\* Every step keeps the invariant.
LEMMA InvStep == IInv /\ [Next]_vars => IInv'
<1>. SUFFICES ASSUME IInv, [Next]_vars PROVE IInv'
  OBVIOUS
<1>1. BucketsInv'
  BY BucketsStep DEF IInv
<1>2. ASSUME NEW c \in Clients PROVE Echoes(c)'
  BY EchoStep DEF IInv
<1>. QED
  BY <1>1, <1>2 DEF IInv

-----------------------------------------------------------------------------
\* poll() and sendAndRecv() work on live sockets, hear of every byte they have
\* not read, and hand back what they read in order (socket.cpp:164-372): the
\* inductive invariant, whatever the kernel's room.
THEOREM BucketsInvariant == Spec => []IInv
<1>1. Init => IInv
  BY InvInit
<1>2. IInv /\ [Next]_vars => IInv'
  BY InvStep
<1>. QED
  BY <1>1, <1>2, PTL DEF Spec

\* Bytes nobody has read are always announced, to epoll or to the round that is
\* under way (socket.cpp:300, 347, 372).
THEOREM BytesNotForgotten == Spec => []NoForgottenBytes
<1>1. IInv => NoForgottenBytes
  BY DEF IInv, BucketsInv
<1>. QED
  BY <1>1, BucketsInvariant, PTL

\* A client gets its own bytes back, each once and in order, however little of a
\* send the kernel takes; and while its connection is open and the kernel has room
\* for all that it may have unread, it will get all of them (socket.cpp:203-204,
\* 248-263).
THEOREM EchoIsFaithful == Spec => []EchoFaithful
<1>1. IInv => EchoFaithful
  BY DEF IInv, Echoes, EchoFaithful
<1>. QED
  BY <1>1, BucketsInvariant, PTL

-----------------------------------------------------------------------------
(* SocketSetup: each descriptor has one owner.                             *)

\* A variable that holds no descriptor holds none of them.
LEMMA NothingOpen ==
    /\ S!Nothing \notin Descriptors
    /\ S!Sockets = {Listener} \cup Clients /\ Listener \notin Clients
    /\ MaxAddresses \in Nat
BY SetupAssumption DEF S!Nothing, S!Sockets

\* Nothing is open at the start.
LEMMA SetupInit == S!Init => S!SetupInv
<1>. SUFFICES ASSUME S!Init PROVE S!SetupInv
  OBVIOUS
<1>1. kernel \in [Descriptors -> SUBSET S!Facts]
  BY DEF S!Init
<1>2. left \in 0 .. MaxAddresses
  BY NothingOpen DEF S!Init
<1>3. S!TypeOK
  BY <1>1, <1>2 DEF S!Init, S!TypeOK
<1>. QED
  BY <1>3, NothingOpen
     DEF S!Init, S!SetupInv, S!OpenIsHeld, S!HeldApart, S!Phases, S!ListenerHeld

\* Closing a client's descriptor takes it out of the table, and no other.
LEMMA CloseClient ==
    ASSUME S!SetupInv, NEW s \in Clients
    PROVE  /\ S!Close(kernel, fd_[s]) \in [Descriptors -> SUBSET S!Facts]
           /\ \A e \in Descriptors :
                 S!Close(kernel, fd_[s])[e] = IF e = fd_[s] THEN {} ELSE kernel[e]
<1>. USE NothingOpen DEF S!SetupInv, S!TypeOK
<1>1. fd_[s] = efd_ => efd_ = S!Nothing
  BY DEF S!HeldApart
<1>2. efd_ = S!Nothing => \A e \in Descriptors : kernel[e] \ {"watched"} = kernel[e]
  BY DEF S!ListenerHeld
<1>. QED
  BY <1>1, <1>2 DEF S!Close

\* A client's connect() closes what the object holds.
LEMMA ConnectKeeps ==
    ASSUME S!SetupInv, NEW s \in Clients, NEW n \in 0 .. MaxAddresses, S!Connect(s, n)
    PROVE  S!SetupInv'
<1>. USE NothingOpen DEF S!SetupInv, S!TypeOK
<1>1. /\ kernel' \in [Descriptors -> SUBSET S!Facts]
      /\ \A e \in Descriptors : kernel'[e] = IF e = fd_[s] THEN {} ELSE kernel[e]
  BY CloseClient DEF S!Connect
<1>2. /\ creating = {} /\ fd = S!Nothing /\ creating' = {s} /\ left' = n /\ ~aborted
      /\ fd_' = [fd_ EXCEPT ![s] = S!Nothing]
      /\ efd_' = efd_ /\ fd' = fd /\ aborted' = aborted
  BY DEF S!Connect, S!Create, S!Ready, S!Phases
<1>3. /\ fd_' \in [S!Sockets -> Descriptors \cup {S!Nothing}]
      /\ \A t \in S!Sockets : fd_'[t] = IF t = s THEN S!Nothing ELSE fd_[t]
  BY <1>2
<1>4. S!TypeOK'
  BY <1>1, <1>2, <1>3
<1>5. S!OpenIsHeld'
  BY <1>1, <1>2, <1>3 DEF S!OpenIsHeld, S!HeldApart
<1>6. S!HeldApart'
  BY <1>2, <1>3 DEF S!HeldApart
<1>7. S!Phases'
  BY <1>2, <1>3 DEF S!Phases
<1>8. S!ListenerHeld'
  BY <1>1, <1>2, <1>3 DEF S!ListenerHeld, S!HeldApart
<1>. QED
  BY <1>4, <1>5, <1>6, <1>7, <1>8

\* listen() puts a new epoll descriptor in the place of the old one, and closes
\* the listener's.
LEMMA ListenKeeps ==
    ASSUME S!SetupInv, NEW n \in 0 .. MaxAddresses, S!Listen(n)
    PROVE  S!SetupInv'
<1>. USE NothingOpen DEF S!SetupInv, S!TypeOK
<1>. DEFINE closed == S!Close(kernel, efd_)
<1>1. /\ closed \in [Descriptors -> SUBSET S!Facts]
      /\ \A e \in Descriptors :
            closed[e] = IF e = efd_ THEN {} ELSE kernel[e] \ {"watched"}
  BY DEF S!Close
<1>2. \A e \in Descriptors : closed[e] = {} <=> kernel[e] = {} \/ e = efd_
  BY <1>1 DEF S!OpenIsHeld
<1>3. creating = {} /\ fd = S!Nothing /\ ~aborted /\ fd' = fd
  BY DEF S!Listen, S!Ready, S!Phases
<1>4. ASSUME NEW d \in S!Free(closed),
             kernel' = S!Close(S!Give(closed, d, {"epoll"}), fd_[Listener]),
             efd_' = d, S!Create(Listener, n), aborted' = aborted
      PROVE  S!SetupInv'
  <2>1. d \in Descriptors /\ closed[d] = {}
    BY <1>1, <1>4 DEF S!Free
  <2>. HIDE DEF closed
  <2>2. {"epoll"} \in SUBSET S!Facts
    BY DEF S!Facts
  <2>. DEFINE given == S!Give(closed, d, {"epoll"})
  <2>3. /\ given \in [Descriptors -> SUBSET S!Facts]
        /\ \A e \in Descriptors : given[e] = IF e = d THEN {"epoll"} ELSE closed[e]
    BY <1>1, <2>1, <2>2 DEF S!Give
  <2>. HIDE DEF given
  <2>4. d # fd_[Listener]
    BY <1>2, <2>1 DEF S!OpenIsHeld, S!HeldApart
  <2>5. /\ kernel' \in [Descriptors -> SUBSET S!Facts]
        /\ \A e \in Descriptors :
              kernel'[e] = IF e = fd_[Listener] THEN {}
                           ELSE IF fd_[Listener] = efd_ THEN given[e] \ {"watched"} ELSE given[e]
    <3>1. kernel' = S!Close(given, fd_[Listener])
      BY <1>4 DEF given
    <3>. QED
      BY <2>3, <3>1 DEF S!Close
  <2>6. \A e \in Descriptors :
           kernel'[e] = IF e = d THEN {"epoll"}
                        ELSE IF e = fd_[Listener] \/ e = efd_ THEN {}
                        ELSE kernel[e] \ {"watched"}
    BY <1>1, <2>3, <2>4, <2>5
  <2>7. /\ creating' = {Listener} /\ left' = n
        /\ fd_' = [fd_ EXCEPT ![Listener] = S!Nothing]
    BY <1>4 DEF S!Create
  <2>8. /\ fd_' \in [S!Sockets -> Descriptors \cup {S!Nothing}]
        /\ \A t \in S!Sockets : fd_'[t] = IF t = Listener THEN S!Nothing ELSE fd_[t]
    BY <2>7
  <2>9. S!TypeOK'
    BY <1>3, <1>4, <2>1, <2>5, <2>7, <2>8
  <2>10. \A s \in S!Sockets : fd_[s] # d
    BY <1>2, <2>1 DEF S!OpenIsHeld, S!HeldApart
  <2>11. S!OpenIsHeld'
    <3>. SUFFICES ASSUME NEW e \in Descriptors
                  PROVE  /\ kernel'[e] # {} <=> e \in {efd_', fd'} \/ \E s \in S!Sockets : fd_'[s] = e
                         /\ kernel'[e] # {} => kernel'[e] # {"watched"}
      BY DEF S!OpenIsHeld
    <3>1. efd_' = d /\ fd' # e
      BY <1>3, <1>4
    <3>2. CASE e = d
      BY <2>6, <3>1, <3>2
    <3>3. CASE e # d /\ e = fd_[Listener]
      <4>1. kernel'[e] = {} /\ e \notin {efd_', fd'}
        BY <2>6, <3>1, <3>3
      <4>2. \A s \in S!Sockets : fd_'[s] # e
        BY <2>8, <3>3 DEF S!HeldApart
      <4>. QED
        BY <4>1, <4>2
    <3>4. CASE e # d /\ e = efd_
      <4>1. kernel'[e] = {} /\ e \notin {efd_', fd'}
        BY <2>6, <3>1, <3>4
      <4>2. \A s \in S!Sockets : fd_'[s] # e
        BY <2>8, <3>4 DEF S!HeldApart
      <4>. QED
        BY <4>1, <4>2
    <3>5. CASE e # d /\ e # fd_[Listener] /\ e # efd_
      <4>1. kernel'[e] = kernel[e] \ {"watched"} /\ e \notin {efd_', fd'}
        BY <2>6, <3>1, <3>5
      <4>2. kernel[e] # {} <=> \E s \in S!Sockets : fd_[s] = e
        BY <1>3, <3>5 DEF S!OpenIsHeld
      <4>3. (\E s \in S!Sockets : fd_[s] = e) <=> \E s \in S!Sockets : fd_'[s] = e
        BY <2>8, <3>5
      <4>4. kernel[e] # {} => kernel[e] # {"watched"}
        BY DEF S!OpenIsHeld
      <4>. QED
        BY <4>1, <4>2, <4>3, <4>4
    <3>. QED
      BY <3>2, <3>3, <3>4, <3>5
  <2>12. S!HeldApart'
    BY <1>3, <1>4, <2>1, <2>8, <2>10 DEF S!HeldApart
  <2>13. S!Phases'
    BY <1>3, <1>4, <2>1, <2>7, <2>8 DEF S!Phases
  <2>14. S!ListenerHeld'
    <3>1. \A e \in Descriptors : "watched" \notin kernel'[e]
      <4>. SUFFICES ASSUME NEW e \in Descriptors PROVE "watched" \notin kernel'[e]
        OBVIOUS
      <4>1. kernel'[e] = {"epoll"} \/ kernel'[e] = {} \/ kernel'[e] = kernel[e] \ {"watched"}
        BY ONLY <2>6, e \in Descriptors
      <4>. QED
        BY <4>1
    <3>2. creating' = {Listener}
      BY <2>7
    <3>. QED
      BY <3>1, <3>2 DEF S!ListenerHeld
  <2>. QED
    BY <2>9, <2>11, <2>12, <2>13, <2>14
<1>5. ASSUME kernel' = closed, efd_' = S!Nothing, aborted' = TRUE,
             UNCHANGED <<fd_, creating, left>>
      PROVE  S!SetupInv'
  <2>1. S!TypeOK'
    BY <1>1, <1>3, <1>5
  <2>. HIDE DEF closed
  <2>2. S!OpenIsHeld'
    BY <1>1, <1>2, <1>3, <1>5 DEF S!OpenIsHeld, S!HeldApart
  <2>3. S!HeldApart' /\ S!Phases'
    BY <1>3, <1>5 DEF S!HeldApart, S!Phases
  <2>4. S!ListenerHeld'
    BY <1>1, <1>5 DEF S!ListenerHeld
  <2>. QED
    BY <2>1, <2>2, <2>3, <2>4
<1>. QED
  BY <1>4, <1>5 DEF S!Listen

\* A round of createSocket() gives out a descriptor that was free, or none.
LEMMA TryAddressKeeps ==
    ASSUME S!SetupInv, S!TryAddress
    PROVE  S!SetupInv'
<1>. USE NothingOpen DEF S!SetupInv, S!TypeOK
<1>1. /\ creating # {} /\ fd = S!Nothing /\ left' \in 0 .. MaxAddresses
      /\ efd_' = efd_ /\ fd_' = fd_ /\ creating' = creating /\ aborted' = aborted
  BY DEF S!TryAddress
<1>2. CASE UNCHANGED <<kernel, fd>>
  <2>1. S!TypeOK'
    BY <1>1, <1>2
  <2>. QED
    BY <1>1, <1>2, <2>1 DEF S!OpenIsHeld, S!HeldApart, S!Phases, S!ListenerHeld
<1>3. ASSUME NEW d \in S!Free(kernel), NEW more \in {{}, {"listening"}},
             LET opened == S!Give(kernel, d, {"socket"})
             IN  \/ creating # {Listener} /\ fd' = d /\ kernel' = opened
                 \/ creating = {Listener} /\ fd' = S!Nothing /\ kernel' = S!Close(opened, d)
                 \/ /\ creating = {Listener} /\ fd' = d
                    /\ kernel' = S!Give(opened, d, {"bound"} \cup more)
      PROVE  S!SetupInv'
  <2>. DEFINE opened == S!Give(kernel, d, {"socket"})
  <2>1. d \in Descriptors /\ kernel[d] = {}
    BY DEF S!Free
  <2>2. d # efd_ /\ \A s \in S!Sockets : fd_[s] # d
    BY <2>1 DEF S!OpenIsHeld
  <2>3. /\ {"socket"} \in SUBSET S!Facts
        /\ {"bound"} \cup more \in SUBSET S!Facts
    BY DEF S!Facts
  <2>4. /\ opened \in [Descriptors -> SUBSET S!Facts]
        /\ \A e \in Descriptors : opened[e] = IF e = d THEN {"socket"} ELSE kernel[e]
    <3>1. /\ opened \in [Descriptors -> SUBSET S!Facts]
          /\ \A e \in Descriptors :
                opened[e] = IF e = d THEN kernel[e] \cup {"socket"} ELSE kernel[e]
      BY <2>1, <2>3 DEF S!Give
    <3>. HIDE DEF opened
    <3>. QED
      BY <2>1, <3>1
  <2>. HIDE DEF opened
  <2>5. CASE creating # {Listener} /\ fd' = d /\ kernel' = opened
    <3>1. S!TypeOK'
      BY <1>1, <2>1, <2>4, <2>5
    <3>2. S!OpenIsHeld'
      BY <1>1, <2>1, <2>4, <2>5 DEF S!OpenIsHeld
    <3>3. S!HeldApart'
      BY <1>1, <2>2, <2>5 DEF S!HeldApart
    <3>4. S!Phases'
      BY <1>1, <2>5 DEF S!Phases
    <3>5. S!ListenerHeld'
      BY <1>1, <2>1, <2>2, <2>4, <2>5 DEF S!ListenerHeld
    <3>. QED
      BY <3>1, <3>2, <3>3, <3>4, <3>5
  <2>6. CASE creating = {Listener} /\ fd' = S!Nothing /\ kernel' = S!Close(opened, d)
    <3>1. kernel' \in [Descriptors -> SUBSET S!Facts]
          /\ \A e \in Descriptors : kernel'[e] = kernel[e]
      BY <2>1, <2>2, <2>4, <2>6 DEF S!Close
    <3>2. S!TypeOK'
      BY <1>1, <2>6, <3>1
    <3>3. S!OpenIsHeld'
      BY <1>1, <2>6, <3>1 DEF S!OpenIsHeld
    <3>4. S!HeldApart' /\ S!Phases'
      BY <1>1, <2>6 DEF S!HeldApart, S!Phases
    <3>5. S!ListenerHeld'
      BY <1>1, <2>6, <3>1 DEF S!ListenerHeld
    <3>. QED
      BY <3>2, <3>3, <3>4, <3>5
  <2>7. CASE /\ creating = {Listener} /\ fd' = d
             /\ kernel' = S!Give(opened, d, {"bound"} \cup more)
    <3>1. /\ kernel' \in [Descriptors -> SUBSET S!Facts]
          /\ \A e \in Descriptors :
                kernel'[e] = IF e = d THEN opened[e] \cup ({"bound"} \cup more) ELSE opened[e]
      BY <2>1, <2>3, <2>4, <2>7 DEF S!Give
    <3>2. /\ \A e \in Descriptors \ {d} : kernel'[e] = kernel[e]
          /\ "socket" \in kernel'[d] /\ "bound" \in kernel'[d] /\ "watched" \notin kernel'[d]
      <4>1. kernel'[d] = {"socket"} \cup ({"bound"} \cup more)
        BY <2>1, <2>4, <3>1
      <4>2. "watched" \notin more
        OBVIOUS
      <4>3. \A e \in Descriptors \ {d} : kernel'[e] = kernel[e]
        BY <2>4, <3>1
      <4>. QED
        BY ONLY <4>1, <4>2, <4>3
    <3>3. S!TypeOK'
      BY <1>1, <2>1, <2>7, <3>1
    <3>4. S!OpenIsHeld'
      <4>. SUFFICES ASSUME NEW e \in Descriptors
                    PROVE  /\ kernel'[e] # {}
                                <=> e \in {efd_', fd'} \/ \E s \in S!Sockets : fd_'[s] = e
                           /\ kernel'[e] # {} => kernel'[e] # {"watched"}
        BY DEF S!OpenIsHeld
      <4>1. CASE e = d
        BY <2>7, <3>2, <4>1
      <4>2. CASE e # d
        BY <1>1, <2>7, <3>2, <4>2 DEF S!OpenIsHeld
      <4>. QED
        BY <4>1, <4>2
    <3>5. S!HeldApart'
      BY <1>1, <2>2, <2>7 DEF S!HeldApart
    <3>6. S!Phases'
      BY <1>1, <2>7, <3>2 DEF S!Phases
    <3>7. S!ListenerHeld'
      BY <1>1, <2>1, <2>2, <2>7, <3>2 DEF S!ListenerHeld
    <3>. QED
      BY <3>3, <3>4, <3>5, <3>6, <3>7
  <2>. QED
    BY <1>3, <2>5, <2>6, <2>7 DEF opened
<1>. QED
  BY <1>2, <1>3 DEF S!TryAddress

\* createSocket() hands its descriptor on.
LEMMA ConnectedKeeps ==
    ASSUME S!SetupInv, S!Connected
    PROVE  S!SetupInv'
<1>. USE NothingOpen DEF S!SetupInv, S!TypeOK
<1>1. PICK s \in creating \ {Listener} : fd_' = [fd_ EXCEPT ![s] = fd]
  BY DEF S!Connected
<1>2. /\ s \in Clients /\ creating = {s} /\ fd_[s] = S!Nothing /\ ~aborted
  BY <1>1 DEF S!Phases
<1>3. /\ fd_' \in [S!Sockets -> Descriptors \cup {S!Nothing}]
      /\ \A t \in S!Sockets : fd_'[t] = IF t = s THEN fd ELSE fd_[t]
  BY <1>1
<1>4. /\ creating' = {} /\ fd' = S!Nothing /\ left' = 0
      /\ kernel' = kernel /\ efd_' = efd_ /\ aborted' = aborted
  BY DEF S!Connected
<1>5. S!TypeOK'
  BY <1>3, <1>4
<1>6. S!OpenIsHeld'
  BY <1>2, <1>3, <1>4 DEF S!OpenIsHeld
<1>7. S!HeldApart'
  BY <1>2, <1>3, <1>4 DEF S!HeldApart
<1>8. S!Phases'
  BY <1>2, <1>3, <1>4 DEF S!Phases
<1>9. S!ListenerHeld'
  BY <1>2, <1>3, <1>4 DEF S!ListenerHeld
<1>. QED
  BY <1>5, <1>6, <1>7, <1>8, <1>9

\* ... to the listener, with which the server is up or the program over.
LEMMA ListeningKeeps ==
    ASSUME S!SetupInv, S!Listening
    PROVE  S!SetupInv'
<1>. USE NothingOpen DEF S!SetupInv, S!TypeOK
<1>1. /\ creating = {Listener} /\ fd_[Listener] = S!Nothing /\ efd_ # S!Nothing
      /\ fd_' = [fd_ EXCEPT ![Listener] = fd] /\ aborted' = (fd = S!Nothing)
      /\ creating' = {} /\ fd' = S!Nothing /\ left' = 0 /\ efd_' = efd_
  BY DEF S!Listening, S!Phases
<1>2. /\ fd_' \in [S!Sockets -> Descriptors \cup {S!Nothing}]
      /\ \A t \in S!Sockets : fd_'[t] = IF t = Listener THEN fd ELSE fd_[t]
  BY <1>1
<1>3. /\ kernel' \in [Descriptors -> SUBSET S!Facts]
      /\ \A e \in Descriptors :
            \/ kernel'[e] = kernel[e]
            \/ e = fd /\ kernel'[e] = kernel[e] \cup {"watched"}
  <2>1. CASE kernel' = kernel
    BY <2>1
  <2>2. CASE fd # S!Nothing /\ kernel' = S!Give(kernel, fd, {"watched"})
    <3>1. {"watched"} \in SUBSET S!Facts /\ fd \in Descriptors
      BY <2>2 DEF S!Facts
    <3>. QED
      BY <2>2, <3>1 DEF S!Give
  <2>. QED
    BY <2>1, <2>2 DEF S!Listening
<1>4. S!TypeOK'
  BY <1>1, <1>2, <1>3
<1>5. \A e \in Descriptors : kernel[e] # {} <=> kernel'[e] # {}
  BY <1>3 DEF S!OpenIsHeld
<1>6. S!OpenIsHeld'
  BY <1>1, <1>2, <1>3, <1>5 DEF S!OpenIsHeld
<1>7. S!HeldApart'
  BY <1>1, <1>2 DEF S!HeldApart
<1>8. S!Phases'
  BY <1>1 DEF S!Phases
<1>9. S!ListenerHeld'
  BY <1>1, <1>2, <1>3 DEF S!ListenerHeld, S!Phases
<1>. QED
  BY <1>4, <1>6, <1>7, <1>8, <1>9

\* The destructors close what their objects hold.
LEMMA DeleteKeeps ==
    ASSUME S!SetupInv, NEW s \in Clients, S!Delete(s)
    PROVE  S!SetupInv'
<1>. USE NothingOpen DEF S!SetupInv, S!TypeOK
<1>1. /\ kernel' \in [Descriptors -> SUBSET S!Facts]
      /\ \A e \in Descriptors : kernel'[e] = IF e = fd_[s] THEN {} ELSE kernel[e]
  BY CloseClient DEF S!Delete
<1>2. /\ creating = {} /\ ~aborted
      /\ fd_' = [fd_ EXCEPT ![s] = S!Nothing]
      /\ UNCHANGED <<efd_, creating, fd, left, aborted>>
  BY DEF S!Delete, S!Ready
<1>3. /\ fd_' \in [S!Sockets -> Descriptors \cup {S!Nothing}]
      /\ \A t \in S!Sockets : fd_'[t] = IF t = s THEN S!Nothing ELSE fd_[t]
  BY <1>2
<1>4. S!TypeOK'
  BY <1>1, <1>2, <1>3
<1>5. S!OpenIsHeld'
  BY <1>1, <1>2, <1>3 DEF S!OpenIsHeld, S!HeldApart
<1>6. S!HeldApart'
  BY <1>2, <1>3 DEF S!HeldApart
<1>7. S!Phases'
  BY <1>2 DEF S!Phases
<1>8. S!ListenerHeld'
  BY <1>1, <1>2, <1>3 DEF S!ListenerHeld, S!HeldApart
<1>. QED
  BY <1>4, <1>5, <1>6, <1>7, <1>8

\* ... and the server both of its own.
LEMMA DeleteServerKeeps ==
    ASSUME S!SetupInv, S!DeleteServer
    PROVE  S!SetupInv'
<1>. USE NothingOpen DEF S!SetupInv, S!TypeOK
<1>. DEFINE closed == S!Close(kernel, efd_)
<1>1. /\ creating = {} /\ fd = S!Nothing /\ ~aborted /\ efd_ # S!Nothing /\ efd_' = S!Nothing
      /\ fd_' = [fd_ EXCEPT ![Listener] = S!Nothing]
      /\ UNCHANGED <<creating, fd, left, aborted>>
  BY DEF S!DeleteServer, S!Ready, S!Phases
<1>2. /\ closed \in [Descriptors -> SUBSET S!Facts]
      /\ \A e \in Descriptors :
            closed[e] = IF e = efd_ THEN {} ELSE kernel[e] \ {"watched"}
  BY DEF S!Close
<1>. HIDE DEF closed
<1>3. fd_[Listener] # efd_
  BY <1>1 DEF S!HeldApart
<1>4. /\ kernel' \in [Descriptors -> SUBSET S!Facts]
      /\ \A e \in Descriptors : kernel'[e] = IF e = fd_[Listener] THEN {} ELSE closed[e]
  BY <1>2, <1>3 DEF S!DeleteServer, closed, S!Close
<1>5. /\ fd_' \in [S!Sockets -> Descriptors \cup {S!Nothing}]
      /\ \A t \in S!Sockets : fd_'[t] = IF t = Listener THEN S!Nothing ELSE fd_[t]
  BY <1>1
<1>6. S!TypeOK'
  BY <1>1, <1>4, <1>5
<1>7. S!OpenIsHeld'
  BY <1>1, <1>2, <1>4, <1>5 DEF S!OpenIsHeld, S!HeldApart
<1>8. S!HeldApart' /\ S!Phases'
  BY <1>1, <1>5 DEF S!HeldApart, S!Phases
<1>9. S!ListenerHeld'
  BY <1>1, <1>2, <1>4 DEF S!ListenerHeld
<1>. QED
  BY <1>6, <1>7, <1>8, <1>9

\* Every step keeps it, and the steps of the server leave it alone.
LEMMA SetupStep ==
    ASSUME S!SetupInv, [S!Next]_setupVars
    PROVE  S!SetupInv'
<1>1. CASE UNCHANGED setupVars
  BY <1>1 DEF setupVars, S!SetupInv, S!TypeOK, S!OpenIsHeld, S!HeldApart, S!Phases,
              S!ListenerHeld
<1>2. CASE S!Terminated
  BY <1>1, <1>2 DEF S!Terminated, S!setupVars, setupVars
<1>. QED
  BY <1>1, <1>2, ConnectKeeps, ListenKeeps, TryAddressKeeps, ConnectedKeeps, ListeningKeeps,
     DeleteKeeps, DeleteServerKeeps DEF S!Next

\* With one owner each, no descriptor is lost or shared.
LEMMA SetupHolds == S!SetupInv => DescriptorsHeld
<1>. SUFFICES ASSUME S!SetupInv PROVE S!HeldOnce /\ S!ListenerBound
  BY DEF DescriptorsHeld
<1>. USE NothingOpen DEF S!SetupInv, S!TypeOK
<1>. DEFINE holders == {<<"efd_">>, <<"fd">>} \cup {<<"fd_", s>> : s \in S!Sockets}
            held(h) == IF h = <<"efd_">> THEN efd_ ELSE IF h = <<"fd">> THEN fd ELSE fd_[h[2]]
            holding == {h \in holders : held(h) # S!Nothing}
<1>1. /\ held(<<"efd_">>) = efd_ /\ held(<<"fd">>) = fd
      /\ \A s \in S!Sockets : held(<<"fd_", s>>) = fd_[s]
  OBVIOUS
<1>2. \A h \in holders : h = <<"efd_">> \/ h = <<"fd">> \/ \E s \in S!Sockets : h = <<"fd_", s>>
  OBVIOUS
<1>3. /\ <<"efd_">> \in holders /\ <<"fd">> \in holders
      /\ \A s \in S!Sockets : <<"fd_", s>> \in holders
  OBVIOUS
<1>. HIDE DEF held, holders
<1>4. DOMAIN kernel \ S!Free(kernel) = {held(h) : h \in holding}
  <2>1. ASSUME NEW d \in Descriptors, kernel[d] # {} PROVE \E h \in holding : held(h) = d
    <3>1. CASE d = efd_
      BY <1>1, <1>3, <3>1
    <3>2. CASE d = fd
      BY <1>1, <1>3, <3>2
    <3>3. ASSUME NEW s \in S!Sockets, fd_[s] = d PROVE \E h \in holding : held(h) = d
      BY <1>1, <1>3, <3>3
    <3>. QED
      BY <2>1, <3>1, <3>2, <3>3 DEF S!OpenIsHeld
  <2>2. ASSUME NEW h \in holding PROVE held(h) \in Descriptors /\ kernel[held(h)] # {}
    BY <1>1, <1>2 DEF S!OpenIsHeld
  <2>. QED
    BY <2>1, <2>2 DEF S!Free
<1>5. \A g, h \in holding : held(g) = held(h) => g = h
  BY <1>1, <1>2 DEF S!HeldApart
<1>6. S!HeldOnce
  BY <1>4, <1>5 DEF S!HeldOnce, held, holders
<1>7. S!ListenerBound
  BY DEF S!ListenerBound, S!ListenerHeld, S!Ready
<1>. QED
  BY <1>6, <1>7

-----------------------------------------------------------------------------
(* The program.                                                            *)

\* Both parts start well.
LEMMA ProgramInvInit == ProgramInit => ProgramInv
BY InvInit, SetupInit DEF ProgramInit, ProgramInv

\* A step is one of the set-up or one of the server, and leaves the other alone.
LEMMA ProgramInvStep == ProgramInv /\ [ProgramNext]_programVars => ProgramInv'
<1>. SUFFICES ASSUME ProgramInv, [ProgramNext]_programVars PROVE ProgramInv'
  OBVIOUS
<1>1. [Next]_vars
  BY DEF ProgramNext, programVars, SetUp, StartEcho, InEcho
<1>2. [S!Next]_setupVars
  BY DEF ProgramNext, programVars, SetUp, StartEcho, InEcho
<1>. QED
  BY <1>1, <1>2, InvStep, SetupStep DEF ProgramInv

\* Whatever calls were made and failed before the server is up, it works as
\* BucketsInvariant says when it is, and descriptors have one owner all along
\* (socket.cpp:114-198, 290-372).
THEOREM ProgramInvariant == ProgramSpec => []ProgramInv
BY ProgramInvInit, ProgramInvStep, PTL DEF ProgramSpec

\* No descriptor is lost or shared, and listen() comes back with a listener that
\* has an address or not at all (socket.cpp:125, 141, 183, 196, 315, 320).
THEOREM DescriptorsAreHeld == ProgramSpec => []DescriptorsHeld
<1>1. ProgramInv => DescriptorsHeld
  BY SetupHolds DEF ProgramInv
<1>. QED
  BY <1>1, ProgramInvariant, PTL

\* What EchoIsFaithful says of the server alone holds of the program.
THEOREM ProgramIsFaithful == ProgramSpec => []EchoFaithful
<1>1. ProgramInv => EchoFaithful
  BY DEF ProgramInv, IInv, Echoes, EchoFaithful
<1>. QED
  BY <1>1, ProgramInvariant, PTL

=============================================================================
