-------------------------- MODULE MeshDirect_proof --------------------------
(***************************************************************************)
(* Proofs about MeshDirect, for every instance: any number of connections, *)
(* connect_peer calls, punch attempts, replies and messages, with and      *)
(* without cut connections.                                                *)
(***************************************************************************)
EXTENDS MeshDirect, Integers, TLAPS

(* The provers in the order in which a leaf tries them, then again with more time. *)
USE SMT, Zenon, SMTT(60), ZenonT(60)

(* The events of different connections, and of different kinds, differ. *)
LEMMA EventsDiffer ==
  ASSUME NEW c, NEW d
  PROVE  /\ Opened(c) = Opened(d) => c = d
         /\ ClosedEv(c) = ClosedEv(d) => c = d
         /\ Opened(c) # ClosedEv(d)
BY DEF Opened, ClosedEv

-----------------------------------------------------------------------------
(* The tables of both nodes keep their types, the punch reply budget stays
   within its bounds (punch_reply_budget in on_udp), and no more connections
   are ever held, read or reported than were established. *)
THEOREM TypeCorrect == Spec => []TypeOK
<1>1. Init => TypeOK
  <2> SUFFICES ASSUME Init PROVE TypeOK
    OBVIOUS
  <2>1. inst \in Instances /\ inst.connects \in Nat /\ inst.conns \in Nat /\ inst.replies \in Nat
    BY DirectInstances DEF Init
  <2>2. connects \in 0 .. inst.connects /\ budget \in [Nodes -> 0 .. inst.replies]
    BY <2>1 DEF Init
  <2>3. conns \in Seq(Nodes) /\ Len(conns) = 0 /\ direct \in [Nodes -> 0 .. Len(conns)]
    BY DEF Init, NoConn
  <2>4. /\ msgs \in [Nodes -> Seq([at : {"relay", "stream", "read"}, conn : 0 .. Len(conns)])]
        /\ paths \in [Nodes -> [active : {"relay", "direct"}, up : BOOLEAN, sampled : BOOLEAN]]
    BY DEF Init
  <2>5. /\ exchange \in [Nodes -> Nat] /\ known \in [Nodes -> BOOLEAN] /\ punch \in [Nodes -> Nat]
        /\ udp \in [Nodes -> Nat] /\ opening \in [Nodes -> Nat] /\ failed \in BOOLEAN /\ open = {}
    BY ZenonT(60) DEF Init
  <2>6. /\ events \in [Nodes -> SUBSET [type : {"Conn", "ConnClosed"}, conn : 1 .. Len(conns)]]
        /\ readers \in [Nodes -> SUBSET (1 .. Len(conns))]
    BY DEF Init
  <2> QED
    BY <2>1, <2>2, <2>3, <2>4, <2>5, <2>6 DEF TypeOK
<1>2. TypeOK /\ [Next]_vars => TypeOK'
  <2> SUFFICES ASSUME TypeOK, [Next]_vars PROVE TypeOK'
    OBVIOUS
  <2>a. /\ inst \in Instances /\ inst.connects \in Nat /\ inst.conns \in Nat /\ inst.replies \in Nat
        /\ inst.attempts \in Nat /\ inst.sends \in Nat
    BY DirectInstances DEF TypeOK
  <2>b. ASSUME NEW n \in Nodes PROVE Other(n) \in Nodes
    BY <2>b DEF Nodes, Other
  <2>c. connects \in 0 .. inst.connects /\ failed \in BOOLEAN
    BY DEF TypeOK
  <2>d. /\ exchange \in [Nodes -> Nat] /\ known \in [Nodes -> BOOLEAN] /\ punch \in [Nodes -> Nat]
        /\ udp \in [Nodes -> Nat] /\ opening \in [Nodes -> Nat]
    BY DEF TypeOK
  <2>e. budget \in [Nodes -> 0 .. inst.replies]
    BY DEF TypeOK
  <2>f. /\ conns \in Seq(Nodes) /\ Len(conns) \in Nat /\ Len(conns) <= inst.conns
        /\ open \subseteq 1 .. Len(conns)
    BY DEF TypeOK
  <2>g. /\ events \in [Nodes -> SUBSET [type : {"Conn", "ConnClosed"}, conn : 1 .. Len(conns)]]
        /\ readers \in [Nodes -> SUBSET (1 .. Len(conns))]
        /\ direct \in [Nodes -> 0 .. Len(conns)]
    BY DEF TypeOK
  <2>h. paths \in [Nodes -> [active : {"relay", "direct"}, up : BOOLEAN, sampled : BOOLEAN]]
    BY DEF TypeOK
  <2>i. msgs \in [Nodes -> Seq([at : {"relay", "stream", "read"}, conn : 0 .. Len(conns)])]
    BY ZenonT(60) DEF TypeOK
  <2>1. ASSUME UNCHANGED <<inst, failed, msgs>>, NEW n \in Nodes, ConnectPeer(n) PROVE TypeOK'
    <3>1. UNCHANGED <<inst, failed, punch, budget, udp, opening, conns, open, events, readers, direct, paths, msgs>>
      BY <2>1 DEF ConnectPeer, connVars
    <3>2. connects' \in 0 .. inst.connects
      BY <2>1, <2>a, <2>c DEF ConnectPeer
    <3>3. exchange' \in [Nodes -> Nat] /\ known' \in [Nodes -> BOOLEAN]
      BY <2>1, <2>d DEF ConnectPeer
    <3> QED
      BY ZenonT(60), <3>1, <3>2, <3>3 DEF TypeOK
  <2>2. ASSUME UNCHANGED <<inst, failed, msgs>>, NEW n \in Nodes, HandleExchange(n) PROVE TypeOK'
    <3>1. UNCHANGED <<inst, failed, connects, budget, opening, conns, open, events, readers, direct, paths, msgs>>
      BY <2>2 DEF HandleExchange, connVars
    <3>2. exchange' \in [Nodes -> Nat] /\ known' \in [Nodes -> BOOLEAN]
      BY <2>2, <2>d DEF HandleExchange
    <3>3. punch' \in [Nodes -> Nat] /\ udp' \in [Nodes -> Nat]
      BY <2>2, <2>b, <2>d DEF HandleExchange
    <3> QED
      BY ZenonT(60), <3>1, <3>2, <3>3 DEF TypeOK
  <2>3. ASSUME UNCHANGED <<inst, failed, msgs>>, NEW n \in Nodes, PunchEstablished(n) PROVE TypeOK'
    <3>1. UNCHANGED <<inst, failed, connects, exchange, budget, known, conns, open, events, readers, direct, msgs>>
      BY <2>3 DEF PunchEstablished
    <3>2. udp' \in [Nodes -> Nat] /\ punch' \in [Nodes -> Nat] /\ opening' \in [Nodes -> Nat]
      BY <2>3, <2>d DEF PunchEstablished
    <3>3. paths' \in [Nodes -> [active : {"relay", "direct"}, up : BOOLEAN, sampled : BOOLEAN]]
      BY ZenonT(60), <2>3, <2>h DEF PunchEstablished
    <3> QED
      BY ZenonT(60), <3>1, <3>2, <3>3 DEF TypeOK
  <2>4. ASSUME UNCHANGED <<inst, failed, msgs>>, NEW n \in Nodes, PunchReply(n) PROVE TypeOK'
    <3>1. UNCHANGED <<inst, failed, connects, exchange, punch, known, direct, paths, opening, conns, open, events, readers, msgs>>
      BY <2>4 DEF PunchReply, connVars
    <3>2. budget' \in [Nodes -> 0 .. inst.replies]
      BY <2>4, <2>a, <2>e DEF PunchReply
    <3>3. udp' \in [Nodes -> Nat]
      BY <2>4, <2>d DEF PunchReply
    <3> QED
      BY ZenonT(60), <3>1, <3>2, <3>3 DEF TypeOK
  <2>5. ASSUME UNCHANGED <<inst, failed, msgs>>, NEW n \in Nodes, PunchTick(n) PROVE TypeOK'
    <3>1. UNCHANGED <<inst, failed, connects, exchange, budget, known, direct, paths, opening, conns, open, events, readers, msgs>>
      BY <2>5 DEF PunchTick, connVars
    <3>2. punch' \in [Nodes -> Nat] /\ udp' \in [Nodes -> Nat]
      BY <2>5, <2>b, <2>d DEF PunchTick
    <3> QED
      BY ZenonT(60), <3>1, <3>2 DEF TypeOK
  <2>6. ASSUME UNCHANGED <<inst, failed, msgs>>, NEW n \in Nodes, LosePunch(n) PROVE TypeOK'
    <3>1. UNCHANGED <<inst, failed, connects, exchange, punch, budget, known, direct, paths, opening, conns, open, events, readers, msgs>>
      BY <2>6 DEF LosePunch, connVars
    <3>2. udp' \in [Nodes -> Nat]
      BY <2>6, <2>d DEF LosePunch
    <3> QED
      BY ZenonT(60), <3>1, <3>2 DEF TypeOK
  <2>7. ASSUME UNCHANGED <<inst, failed, msgs>>, NEW n \in Nodes, Establish(n) PROVE TypeOK'
    <3>1. UNCHANGED <<inst, failed, msgs, readers, known, direct, paths, connects, exchange, punch, budget, udp>>
      BY <2>7 DEF Establish, punchVars
    <3>2. conns' \in Seq(Nodes) /\ Len(conns') = Len(conns) + 1 /\ Len(conns') <= inst.conns
      BY <2>7, <2>f DEF Establish
    <3>3. opening' \in [Nodes -> Nat] /\ open' \subseteq 1 .. Len(conns')
      <4>1. opening' \in [Nodes -> Nat]
        BY <2>7, <2>d DEF Establish
      <4>2. open' = open \cup {Len(conns) + 1}
        BY <2>7 DEF Establish
      <4> QED
        <5>1. 1 .. Len(conns) \subseteq 1 .. Len(conns') /\ Len(conns) + 1 \in 1 .. Len(conns')
          BY <2>f, <3>2
        <5> QED
          BY ZenonT(60), <4>1, <4>2, <2>f, <5>1
    <3>4. events' \in [Nodes -> SUBSET [type : {"Conn", "ConnClosed"}, conn : 1 .. Len(conns')]]
      <4>1. Opened(Len(conns) + 1) \in [type : {"Conn", "ConnClosed"}, conn : 1 .. Len(conns')]
        BY <3>2, <2>f DEF Opened
      <4>2. \A c \in 1 .. Len(conns) : c \in 1 .. Len(conns')
        BY <3>2, <2>f
      <4>3. events' = [m \in Nodes |-> events[m] \cup {Opened(Len(conns) + 1)}]
        BY <2>7 DEF Establish
      <4> QED
        BY <4>1, <4>2, <4>3, <2>g
    <3>5. readers' \in [Nodes -> SUBSET (1 .. Len(conns'))] /\ direct' \in [Nodes -> 0 .. Len(conns')]
      BY <3>1, <3>2, <2>f, <2>g
    <3>6. msgs' \in [Nodes -> Seq([at : {"relay", "stream", "read"}, conn : 0 .. Len(conns')])]
      <4>1. [at : {"relay", "stream", "read"}, conn : 0 .. Len(conns)]
              \subseteq [at : {"relay", "stream", "read"}, conn : 0 .. Len(conns')]
        BY <3>2, <2>f
      <4> DEFINE A == [at : {"relay", "stream", "read"}, conn : 0 .. Len(conns)]
                 B == [at : {"relay", "stream", "read"}, conn : 0 .. Len(conns')]
      <4>2. A \subseteq B /\ msgs \in [Nodes -> Seq(A)]
        BY ZenonT(60), <4>1, <2>i
      <4> HIDE DEF A, B
      <4>3. Seq(A) \subseteq Seq(B)
        BY <4>2
      <4>4. msgs \in [Nodes -> Seq(B)]
        BY <4>2, <4>3
      <4> QED
        BY <4>4, <3>1 DEF B
    <3> QED
      BY ZenonT(60), <3>1, <3>2, <3>3, <3>4, <3>5, <3>6 DEF TypeOK
  <2>8. ASSUME UNCHANGED <<inst, failed, msgs>>, NEW n \in Nodes, OpenFails(n) PROVE TypeOK'
    <3>1. UNCHANGED <<inst, failed, msgs, conns, open, events, readers, known, direct, paths, connects, exchange, punch, budget, udp>>
      BY <2>8 DEF OpenFails, punchVars
    <3>2. opening' \in [Nodes -> Nat]
      BY <2>8, <2>d DEF OpenFails
    <3> QED
      BY ZenonT(60), <3>1, <3>2 DEF TypeOK
  <2>p. ASSUME NEW p \in [active : {"relay", "direct"}, up : BOOLEAN, sampled : BOOLEAN], NEW q \in Decisions(p)
        PROVE  q \in [active : {"relay", "direct"}, up : BOOLEAN, sampled : BOOLEAN]
    BY <2>p DEF Decisions
  <2>9. ASSUME UNCHANGED <<inst, failed, msgs>>, NEW n \in Nodes, ProbeTick(n) PROVE TypeOK'
    <3>1. UNCHANGED <<inst, failed, msgs, opening, conns, open, events, readers, known, direct, connects, exchange, punch, budget, udp>>
      BY <2>9 DEF ProbeTick, punchVars, connVars
    <3>2. PICK p \in Decisions([paths[n] EXCEPT !.sampled = TRUE]) : paths' = [paths EXCEPT ![n] = p]
      BY ZenonT(60), <2>9 DEF ProbeTick
    <3>3. [paths[n] EXCEPT !.sampled = TRUE] \in [active : {"relay", "direct"}, up : BOOLEAN, sampled : BOOLEAN]
      BY ZenonT(60), <2>h
    <3>4. paths' \in [Nodes -> [active : {"relay", "direct"}, up : BOOLEAN, sampled : BOOLEAN]]
      BY <3>2, <3>3, <2>h, <2>p
    <3> QED
      BY ZenonT(60), <3>1, <3>4 DEF TypeOK
  <2>10. ASSUME UNCHANGED <<inst, failed, msgs>>, NEW n \in Nodes, RelayPong(n) PROVE TypeOK'
    <3>1. UNCHANGED <<inst, failed, msgs, opening, conns, open, events, readers, known, direct, connects, exchange, punch, budget, udp>>
      BY <2>10 DEF RelayPong, punchVars, connVars
    <3>2. PICK p \in Decisions(paths[n]) : paths' = [paths EXCEPT ![n] = p]
      BY ZenonT(60), <2>10 DEF RelayPong
    <3>3. paths' \in [Nodes -> [active : {"relay", "direct"}, up : BOOLEAN, sampled : BOOLEAN]]
      BY <3>2, <2>h, <2>p
    <3> QED
      BY ZenonT(60), <3>1, <3>3 DEF TypeOK
  <2>11. ASSUME UNCHANGED <<inst, failed, msgs>>, NEW n \in Nodes, NEW c \in ConnIds, NewConn(n, c)
         PROVE TypeOK'
    <3>1. UNCHANGED <<inst, failed, msgs, opening, conns, connects, exchange, punch, budget, udp>>
      BY <2>11 DEF NewConn, punchVars
    <3>2. known' \in [Nodes -> BOOLEAN] /\ open' \subseteq 1 .. Len(conns)
      BY ZenonT(60), <2>11, <2>d, <2>f DEF NewConn
    <3>3. events' \in [Nodes -> SUBSET [type : {"Conn", "ConnClosed"}, conn : 1 .. Len(conns)]]
      BY <2>11, <2>g DEF NewConn
    <3>4. \/ UNCHANGED <<direct, paths, readers>>
          \/ Takes(n, c)
      BY <2>11 DEF NewConn
    <3>5. readers' \in [Nodes -> SUBSET (1 .. Len(conns))] /\ direct' \in [Nodes -> 0 .. Len(conns)]
      BY SMT, SMTT(30), ZenonT(60), <3>4, <2>11, <2>f, <2>g DEF Takes, ConnIds
    <3>6. paths' \in [Nodes -> [active : {"relay", "direct"}, up : BOOLEAN, sampled : BOOLEAN]]
      BY ZenonT(60), <3>4, <2>h DEF Takes
    <3> QED
      BY ZenonT(60), <3>1, <3>2, <3>3, <3>5, <3>6, <2>d DEF TypeOK
  <2>12. ASSUME UNCHANGED <<inst, failed, msgs>>, NEW n \in Nodes, NEW c \in ConnIds, ReaderEnds(n, c)
         PROVE TypeOK'
    <3>1. UNCHANGED <<inst, failed, msgs, opening, conns, open, known, direct, paths, connects, exchange, punch, budget, udp>>
      BY <2>12 DEF ReaderEnds, punchVars
    <3>2. ClosedEv(c) \in [type : {"Conn", "ConnClosed"}, conn : 1 .. Len(conns)]
      BY <2>12 DEF ClosedEv, ConnIds
    <3>3. events' \in [Nodes -> SUBSET [type : {"Conn", "ConnClosed"}, conn : 1 .. Len(conns)]]
      BY <2>12, <3>2, <2>g DEF ReaderEnds
    <3>4. readers' \in [Nodes -> SUBSET (1 .. Len(conns))]
      BY <2>12, <2>g DEF ReaderEnds
    <3> QED
      BY ZenonT(60), <3>1, <3>3, <3>4 DEF TypeOK
  <2>q. ASSUME NEW n \in Nodes, DirectDown(n)
        PROVE  /\ direct' \in [Nodes -> 0 .. Len(conns)]
               /\ paths' \in [Nodes -> [active : {"relay", "direct"}, up : BOOLEAN, sampled : BOOLEAN]]
    BY <2>q, <2>f, <2>g, <2>h DEF DirectDown, NoConn
  <2>13. ASSUME UNCHANGED <<inst, failed, msgs>>, NEW n \in Nodes, NEW c \in ConnIds, ConnClosed(n, c)
         PROVE TypeOK'
    <3>1. UNCHANGED <<inst, failed, msgs, opening, conns, open, readers, known, connects, exchange, punch, budget, udp>>
      BY <2>13 DEF ConnClosed, punchVars
    <3>2. events' \in [Nodes -> SUBSET [type : {"Conn", "ConnClosed"}, conn : 1 .. Len(conns)]]
      BY <2>13, <2>g DEF ConnClosed
    <3>3. UNCHANGED <<direct, paths>> \/ DirectDown(n)
      BY <2>13 DEF ConnClosed
    <3> QED
      BY ZenonT(60), <3>1, <3>2, <3>3, <2>q DEF TypeOK
  <2>14. ASSUME UNCHANGED <<inst, failed>>, NEW n \in Nodes, SendTo(n) PROVE TypeOK'
    <3>1. UNCHANGED <<inst, failed, opening, conns, open, events, readers, connects, exchange, punch, budget, udp>>
      BY <2>14 DEF SendTo, punchVars, connVars
    <3>2. known' \in [Nodes -> BOOLEAN]
      BY <2>14, <2>d DEF SendTo
    <3>3. UNCHANGED <<direct, paths>> \/ DirectDown(n)
      BY <2>14 DEF SendTo
    <3>4. PICK m \in {Relayed, Written(direct[n])} : Sent(n, m)
      BY <2>14 DEF SendTo
    <3>5. m \in [at : {"relay", "stream", "read"}, conn : 0 .. Len(conns)]
      BY <3>4, <2>f, <2>g DEF Relayed, Written, NoConn
    <3>6. msgs' \in [Nodes -> Seq([at : {"relay", "stream", "read"}, conn : 0 .. Len(conns)])]
      <4> DEFINE B == [at : {"relay", "stream", "read"}, conn : 0 .. Len(conns)]
      <4>1. m \in B /\ msgs \in [Nodes -> Seq(B)]
        BY ZenonT(60), <3>5, <2>i
      <4> HIDE DEF B
      <4>2. msgs' \in [Nodes -> Seq(B)]
        BY <4>1, <3>4 DEF Sent
      <4> QED
        BY ZenonT(60), <4>2 DEF B
    <3> QED
      BY ZenonT(60), <3>1, <3>2, <3>3, <3>6, <2>q DEF TypeOK
  <2>15. ASSUME UNCHANGED <<inst, failed>>, NEW n \in Nodes, NEW k \in 1 .. Len(msgs[Other(n)]), ReadMsg(n, k)
         PROVE TypeOK'
    <3>1. UNCHANGED <<inst, failed, known, direct, paths, opening, conns, open, events, readers, connects, exchange, punch, budget, udp>>
      BY <2>15 DEF ReadMsg, punchVars, connVars
    <3>2. msgs' \in [Nodes -> Seq([at : {"relay", "stream", "read"}, conn : 0 .. Len(conns)])]
      <4> DEFINE B == [at : {"relay", "stream", "read"}, conn : 0 .. Len(conns)]
                 s == msgs[Other(n)]
                 r == [s[k] EXCEPT !.at = "read"]
      <4>1. s \in Seq(B) /\ msgs \in [Nodes -> Seq(B)] /\ k \in 1 .. Len(s)
        BY ZenonT(60), <2>i, <2>b
      <4>2. s[k] \in B
        <5> HIDE DEF B, s
        <5> QED BY <4>1
      <4>3. r \in B
        BY <4>2
      <4>4. msgs' = [msgs EXCEPT ![Other(n)] = [s EXCEPT ![k] = r]]
        BY <2>15 DEF ReadMsg
      <4> HIDE DEF B, s, r
      <4>5. [s EXCEPT ![k] = r] \in Seq(B)
        BY <4>1, <4>3
      <4>6. msgs' \in [Nodes -> Seq(B)]
        BY ZenonT(60), <4>1, <4>4, <4>5
      <4> QED
        BY ZenonT(60), <4>6 DEF B
    <3> QED
      BY ZenonT(60), <3>1, <3>2 DEF TypeOK
  <2>16. ASSUME NEW c \in ConnIds, Fail(c) PROVE TypeOK'
    <3>1. UNCHANGED <<inst, opening, conns, events, readers, known, direct, paths, msgs, connects, exchange, punch, budget, udp>>
      BY <2>16 DEF Fail, punchVars
    <3>2. open' \subseteq 1 .. Len(conns) /\ failed' \in BOOLEAN
      BY <2>16, <2>f DEF Fail
    <3> QED
      BY ZenonT(60), <3>1, <3>2 DEF TypeOK
  <2>17. CASE UNCHANGED vars
    BY ZenonT(60), <2>17 DEF vars, punchVars, connVars, TypeOK
  <2> QED
    BY <2>1, <2>2, <2>3, <2>4, <2>5, <2>6, <2>7, <2>8, <2>9, <2>10, <2>11, <2>12, <2>13, <2>14, <2>15,
       <2>16, <2>17 DEF Next, Step, MsgStep, PunchStep
<1> QED
  BY <1>1, <1>2, PTL DEF Spec

-----------------------------------------------------------------------------
(* on_new_conn and on_conn_closed as an inductive invariant: a working
   connection is still to be reported to a node or read by it; the node holds
   the one it reads; the one it holds is read or about to be given up; and a
   close event is of a connection that is closed. *)
ConnInv ==
  /\ \A n \in Nodes : \A c \in open : Opened(c) \in events[n] \/ c \in readers[n]
  /\ \A n \in Nodes : \A c \in open : c \in readers[n] => direct[n] = c
  /\ \A n \in Nodes : direct[n] # NoConn =>
       direct[n] \in readers[n] \/ ClosedEv(direct[n]) \in events[n]
  /\ \A n \in Nodes : \A c \in open : ClosedEv(c) \notin events[n]

LEMMA ConnInit == Init => ConnInv
BY DEF Init, ConnInv

LEMMA ConnStep == TypeOK /\ ConnInv /\ [Next]_vars => ConnInv'
<1> SUFFICES ASSUME TypeOK, ConnInv, [Next]_vars PROVE ConnInv'
  OBVIOUS
<1>a. ASSUME NEW n \in Nodes PROVE Other(n) \in Nodes
  BY <1>a DEF Nodes, Other
<1>b. /\ Len(conns) \in Nat /\ open \subseteq 1 .. Len(conns)
      /\ direct \in [Nodes -> 0 .. Len(conns)]
      /\ readers \in [Nodes -> SUBSET (1 .. Len(conns))]
  BY DEF TypeOK
<1>c. /\ events \in [Nodes -> SUBSET [type : {"Conn", "ConnClosed"}, conn : 1 .. Len(conns)]]
  BY DEF TypeOK
<1>1. ASSUME UNCHANGED <<open, events, readers, direct>> PROVE ConnInv'
  BY <1>1 DEF ConnInv
<1>2. ASSUME NEW n \in Nodes, Establish(n) PROVE ConnInv'
  <2> DEFINE c == Len(conns) + 1
  <2>1. /\ open' = open \cup {c} /\ UNCHANGED <<readers, direct>>
        /\ \A m \in Nodes : events'[m] = events[m] \cup {Opened(c)}
    BY <1>2 DEF Establish
  <2>2. \A m \in Nodes : c \notin readers[m] /\ ClosedEv(c) \notin events[m]
    BY <1>b, <1>c DEF ClosedEv
  <2> HIDE DEF c
  <2>3. \A d : ClosedEv(d) # Opened(c)
    BY EventsDiffer
  <2> QED
    BY <2>1, <2>2, <2>3 DEF ConnInv
<1>3. ASSUME NEW n \in Nodes, NEW c \in ConnIds, NewConn(n, c) PROVE ConnInv'
  <2>1. /\ events' = [events EXCEPT ![n] = @ \ {Opened(c)}]
        /\ c # NoConn /\ 0 \notin open
    BY <1>3, <1>b DEF NewConn, ConnIds, NoConn
  <2>2. \A d : \A m \in Nodes : /\ ClosedEv(d) \in events'[m] <=> ClosedEv(d) \in events[m]
                                /\ d # c => (Opened(d) \in events'[m] <=> Opened(d) \in events[m])
                                /\ m # n => events'[m] = events[m]
    BY <2>1, <1>c, EventsDiffer
  <2>3. CASE direct[n] = NoConn /\ Takes(n, c) /\ UNCHANGED open
    <3>1. /\ direct' = [direct EXCEPT ![n] = c] /\ open' = open
          /\ readers' = [readers EXCEPT ![n] = @ \cup {c}]
      BY <2>3 DEF Takes
    <3> QED
      BY <3>1, <2>1, <2>2, <2>3, <1>b DEF ConnInv, NoConn
  <2>4. CASE open' = open \ {c} /\ UNCHANGED <<direct, paths, readers>>
    BY <2>2, <2>4 DEF ConnInv
  <2>5. CASE open' = open \ {direct[n]} /\ Takes(n, c)
    <3>1. /\ direct' = [direct EXCEPT ![n] = c]
          /\ readers' = [readers EXCEPT ![n] = @ \cup {c}]
      BY <2>5 DEF Takes
    <3> QED
      BY <3>1, <2>1, <2>2, <2>5, <1>b DEF ConnInv, NoConn
  <2> QED
    BY <1>3, <2>3, <2>4, <2>5 DEF NewConn
<1>4. ASSUME NEW c \in ConnIds, Fail(c) PROVE ConnInv'
  BY <1>4 DEF Fail, ConnInv
<1>5. ASSUME NEW n \in Nodes, NEW c \in ConnIds, ReaderEnds(n, c) PROVE ConnInv'
  <2>1. /\ c \notin open /\ UNCHANGED <<open, direct>>
        /\ readers' = [readers EXCEPT ![n] = @ \ {c}]
        /\ events' = [events EXCEPT ![n] = @ \cup {ClosedEv(c)}]
    BY <1>5 DEF ReaderEnds
  <2>2. \A d : \A m \in Nodes : /\ ClosedEv(d) \in events'[m] <=> ClosedEv(d) \in events[m] \/ (m = n /\ d = c)
                                /\ Opened(d) \in events'[m] <=> Opened(d) \in events[m]
    BY SMTT(30), <2>1, <1>c, EventsDiffer
  <2> QED
    BY <2>1, <2>2, <1>b DEF ConnInv
<1>d. ASSUME NEW n \in Nodes, direct[n] \notin open, DirectDown(n), UNCHANGED <<open, readers>>,
             \A d : \A m \in Nodes : Opened(d) \in events'[m] <=> Opened(d) \in events[m],
             \A d : \A m \in Nodes : ClosedEv(d) \in events'[m] => ClosedEv(d) \in events[m],
             \A m \in Nodes \ {n} : events'[m] = events[m]
      PROVE  ConnInv'
  <2>1. direct' = [direct EXCEPT ![n] = NoConn]
    BY <1>d DEF DirectDown
  <2> QED
    BY ZenonT(60), <2>1, <1>b, <1>d DEF ConnInv
<1>6. ASSUME NEW n \in Nodes, NEW c \in ConnIds, ConnClosed(n, c) PROVE ConnInv'
  <2>1. /\ ClosedEv(c) \in events[n] /\ UNCHANGED <<open, readers>>
        /\ events' = [events EXCEPT ![n] = @ \ {ClosedEv(c)}]
    BY <1>6 DEF ConnClosed
  <2>2. \A d : \A m \in Nodes : /\ ClosedEv(d) \in events'[m] <=> ClosedEv(d) \in events[m] /\ ~(m = n /\ d = c)
                                /\ Opened(d) \in events'[m] <=> Opened(d) \in events[m]
                                /\ m # n => events'[m] = events[m]
    BY <2>1, <1>c, EventsDiffer
  <2>3. CASE direct[n] = c
    <3>1. DirectDown(n) /\ direct[n] \notin open
      BY <1>6, <2>1, <2>3 DEF ConnClosed, ConnInv
    <3> QED
      BY <3>1, <2>1, <2>2, <1>d
  <2>4. CASE direct[n] # c
    <3>1. UNCHANGED direct
      BY SMTT(30), <1>6, <2>4 DEF ConnClosed
    <3> QED
      BY <3>1, <2>1, <2>2, <2>4, <1>b DEF ConnInv
  <2> QED
    BY <2>3, <2>4
<1>7. ASSUME NEW n \in Nodes, SendTo(n) PROVE ConnInv'
  <2>1. UNCHANGED <<open, events, readers>>
    BY <1>7 DEF SendTo, connVars
  <2>2. UNCHANGED direct \/ (direct[n] \notin open /\ DirectDown(n))
    BY <1>7 DEF SendTo
  <2> QED
    BY <2>1, <2>2, <1>1, <1>d
<1>8. CASE \E n \in Nodes : \/ ConnectPeer(n) \/ HandleExchange(n) \/ PunchStep(n) \/ PunchTick(n)
                            \/ LosePunch(n) \/ OpenFails(n) \/ ProbeTick(n) \/ RelayPong(n)
  <2>1. UNCHANGED <<open, events, readers, direct>>
    BY <1>8 DEF ConnectPeer, HandleExchange, PunchStep, PunchEstablished, PunchReply, PunchTick, LosePunch,
                OpenFails, ProbeTick, RelayPong, connVars
  <2> QED
    BY <2>1, <1>1
<1>9. CASE \E n \in Nodes : \E k \in 1 .. Len(msgs[Other(n)]) : ReadMsg(n, k)
  BY <1>9, <1>1 DEF ReadMsg, connVars
<1>10. CASE UNCHANGED vars
  BY <1>10, <1>1 DEF vars, connVars
<1> QED
  BY <1>2, <1>3, <1>4, <1>5, <1>6, <1>7, <1>8, <1>9, <1>10 DEF Next, Step, MsgStep

LEMMA ConnInvariant == Spec => [](TypeOK /\ ConnInv)
<1>1. TypeOK /\ ConnInv /\ [Next]_vars => ConnInv'
  BY ConnStep
<1> QED
  BY <1>1, ConnInit, TypeCorrect, PTL DEF Spec

(* A late close event never clears the successor of its connection, and a node
   keeps the connection it reads while that works: on_new_conn,
   on_conn_closed and failed writes in any order. *)
THEOREM HeldWhileOpen == Spec => []OpenIsKept
<1>1. ConnInv => OpenIsKept
  BY DEF ConnInv, OpenIsKept
<1> QED
  BY <1>1, ConnInvariant, PTL

(* What send_to wrote to a direct connection that still works will be read by
   the peer, whatever dedup did since. *)
THEOREM WorkingIsHeard == Spec => []WrittenIsHeard
<1>1. ConnInv => WrittenIsHeard
  <2> SUFFICES ASSUME ConnInv, NEW n \in Nodes, NEW c \in open PROVE Heard(Other(n), c)
    BY DEF WrittenIsHeard
  <2>1. Other(n) \in Nodes
    BY DEF Nodes, Other
  <2> QED
    BY <2>1 DEF ConnInv, Heard, Readable
<1> QED
  BY <1>1, ConnInvariant, PTL

(* Simultaneous open converges, for any number of connections, connect_peer
   calls and cuts: once all events are handled, both nodes hold the same
   working connection or none. *)
THEOREM NodesConverge == Spec => []Converged
<1>1. TypeOK /\ ConnInv => Converged
  <2> SUFFICES ASSUME TypeOK, ConnInv, ConnsQuiet
               PROVE  direct[1] = direct[2] /\ (direct[1] # NoConn => direct[1] \in open)
    BY DEF Converged
  <2>1. 1 \in Nodes /\ 2 \in Nodes
    BY DEF Nodes
  <2>2. ASSUME NEW n \in Nodes, direct[n] # NoConn PROVE direct[n] \in open
    BY <2>2 DEF ConnInv, ConnsQuiet
  <2>3. ASSUME NEW n \in Nodes, NEW m \in Nodes, direct[n] # NoConn PROVE direct[m] = direct[n]
    BY <2>2, <2>3 DEF ConnInv, ConnsQuiet
  <2> QED
    BY <2>1, <2>2, <2>3
<1> QED
  BY <1>1, ConnInvariant, PTL

-----------------------------------------------------------------------------
(* The path manager: it has a sample of the direct path, or uses it, only
   while a connection is held. *)
PathInv == \A n \in Nodes : paths[n].active = "direct" \/ paths[n].sampled => direct[n] # NoConn

(* No order of punching, dedup, closing, failed writes and late probes leaves
   the path manager on the direct path without a connection
   (PathManager::decide, on_direct_up, on_direct_down). *)
THEOREM DirectIsHeld == Spec => []ActiveIsHeld
<1>1. Init => PathInv
  BY DEF Init, PathInv
<1>2. TypeOK /\ PathInv /\ [Next]_vars => PathInv'
  <2> SUFFICES ASSUME TypeOK, PathInv, [Next]_vars PROVE PathInv'
    OBVIOUS
  <2>a. /\ paths \in [Nodes -> [active : {"relay", "direct"}, up : BOOLEAN, sampled : BOOLEAN]]
        /\ direct \in [Nodes -> 0 .. Len(conns)] /\ Len(conns) \in Nat
    BY DEF TypeOK
  <2>1. ASSUME UNCHANGED <<paths, direct>> PROVE PathInv'
    BY <2>1 DEF PathInv
  <2>2. ASSUME NEW n \in Nodes, paths' = [paths EXCEPT ![n].up = TRUE], UNCHANGED direct PROVE PathInv'
    BY <2>2, <2>a DEF PathInv
  <2>3. ASSUME NEW n \in Nodes, NEW c \in ConnIds, Takes(n, c) PROVE PathInv'
    <3>1. c # NoConn
      BY <2>a DEF ConnIds, NoConn
    <3> QED
      BY <3>1, <2>3, <2>a DEF PathInv, Takes
  <2>4. ASSUME NEW n \in Nodes, DirectDown(n) PROVE PathInv'
    BY <2>4, <2>a DEF PathInv, DirectDown
  <2>5. ASSUME NEW n \in Nodes, ProbeTick(n) PROVE PathInv'
    <3>1. PICK p : paths' = [paths EXCEPT ![n] = p]
      BY ZenonT(60), <2>5 DEF ProbeTick
    <3>2. direct[n] # NoConn /\ UNCHANGED direct
      BY <2>5 DEF ProbeTick
    <3> QED
      BY <3>1, <3>2, <2>a DEF PathInv
  <2>6. ASSUME NEW n \in Nodes, RelayPong(n) PROVE PathInv'
    <3>1. PICK p \in Decisions(paths[n]) : paths' = [paths EXCEPT ![n] = p]
      BY ZenonT(60), <2>6 DEF RelayPong
    <3>2. p.active = "direct" \/ p.sampled => paths[n].active = "direct" \/ paths[n].sampled
      BY <3>1, <2>a DEF Decisions
    <3>3. UNCHANGED direct
      BY <2>6 DEF RelayPong
    <3> QED
      BY <3>1, <3>2, <3>3, <2>a DEF PathInv
  <2>7. ASSUME NEW n \in Nodes,
               ConnectPeer(n) \/ HandleExchange(n) \/ PunchReply(n) \/ PunchTick(n) \/ LosePunch(n)
                 \/ Establish(n) \/ OpenFails(n)
        PROVE PathInv'
    BY <2>1, <2>7 DEF ConnectPeer, HandleExchange, PunchReply, PunchTick, LosePunch, Establish, OpenFails
  <2>8. ASSUME NEW n \in Nodes, PunchEstablished(n) PROVE PathInv'
    BY ZenonT(60), <2>2, <2>8 DEF PunchEstablished
  <2>9. ASSUME NEW n \in Nodes, NEW c \in ConnIds, NewConn(n, c) \/ ReaderEnds(n, c) \/ ConnClosed(n, c)
        PROVE PathInv'
    BY ZenonT(60), <2>1, <2>3, <2>4, <2>9 DEF NewConn, ReaderEnds, ConnClosed
  <2>10. ASSUME NEW n \in Nodes, SendTo(n) PROVE PathInv'
    BY <2>1, <2>4, <2>10 DEF SendTo
  <2>11. ASSUME NEW n \in Nodes, NEW k \in 1 .. Len(msgs[Other(n)]), ReadMsg(n, k) PROVE PathInv'
    BY <2>1, <2>11 DEF ReadMsg
  <2>12. ASSUME NEW c \in ConnIds, Fail(c) PROVE PathInv'
    BY <2>1, <2>12 DEF Fail
  <2>13. CASE UNCHANGED vars
    BY <2>1, <2>13 DEF vars
  <2> QED
    BY <2>5, <2>6, <2>7, <2>8, <2>9, <2>10, <2>11, <2>12, <2>13 DEF Next, Step, MsgStep, PunchStep
<1>3. PathInv => ActiveIsHeld
  BY DEF PathInv, ActiveIsHeld
<1> QED
  BY <1>1, <1>2, <1>3, TypeCorrect, PTL DEF Spec

-----------------------------------------------------------------------------
(* One exchange more or less, in products. *)
LEMMA Products ==
  ASSUME NEW a \in Int, NEW w \in Int
  PROVE  /\ a * w \in Int
         /\ (a + 1) * w = a * w + w
         /\ (a - 1) * w = a * w - w
OBVIOUS

(* Hole punching falls silent, whatever punch_max_attempts and the budget of
   replies are: every step of it uses up work and nothing else creates any
   (PunchMachine::on_tick, on_udp, on_connect_peer). *)
THEOREM PunchingEnds == Spec => PunchingSpends
<1>1. TypeOK /\ TypeOK' /\ [Next]_vars => [IF UNCHANGED punchVars THEN TRUE ELSE PunchWork' < PunchWork]_vars
  <2> SUFFICES ASSUME TypeOK, TypeOK', [Next]_vars PROVE (UNCHANGED punchVars) \/ PunchWork' < PunchWork
    OBVIOUS
  <2> DEFINE A == inst.attempts
             W == 2 * A + 3
             V == 4 * A + 7
  <2>a. A \in Nat /\ W \in Nat /\ V \in Nat /\ W = 2 * A + 3 /\ V = 4 * A + 7 /\ inst.connects \in Nat
    <3>1. inst \in Instances
      BY DEF TypeOK
    <3>2. inst.attempts \in Nat /\ inst.connects \in Nat
      BY <3>1, DirectInstances
    <3> QED
      BY <3>2
  <2>b. inst' = inst
    BY DEF Next, Fail, vars
  <2>c. /\ connects \in 0 .. inst.connects /\ connects' \in Nat
        /\ punch \in [Nodes -> Nat] /\ udp \in [Nodes -> Nat] /\ exchange \in [Nodes -> Nat]
        /\ punch' \in [Nodes -> Nat] /\ udp' \in [Nodes -> Nat] /\ exchange' \in [Nodes -> Nat]
    <3>1. connects \in 0 .. inst.connects /\ connects' \in 0 .. inst'.connects
      BY DEF TypeOK
    <3>2. connects' \in Nat
      BY <2>a, <2>b, <3>1
    <3> QED
      BY <3>1, <3>2 DEF TypeOK
  <2>d. budget \in [Nodes -> Nat] /\ budget' \in [Nodes -> Nat]
    BY DirectInstances DEF TypeOK
  <2>e. 1 \in Nodes /\ 2 \in Nodes /\ \A n \in Nodes : (n = 1 /\ Other(n) = 2) \/ (n = 2 /\ Other(n) = 1)
    <3>1. 1 \in Nodes /\ 2 \in Nodes /\ \A n \in Nodes : n = 1 \/ n = 2
      BY DEF Nodes
    <3>2. ASSUME NEW n \in Nodes PROVE (n = 1 /\ Other(n) = 2) \/ (n = 2 /\ Other(n) = 1)
      <4>1. CASE n = 1
        BY <4>1 DEF Other
      <4>2. CASE n = 2
        BY <4>2 DEF Other
      <4> QED
        BY <3>1, <4>1, <4>2
    <3> QED
      BY <3>1, <3>2
  <2>f. \A n \in Nodes :
          /\ JobWork(n) = IF punch[n] = 0 THEN 0 ELSE 1 + 2 * (IF punch[n] < A THEN A - punch[n] ELSE 0)
          /\ JobWork(n)' = IF punch'[n] = 0 THEN 0 ELSE 1 + 2 * (IF punch'[n] < A THEN A - punch'[n] ELSE 0)
    BY <2>b DEF JobWork
  <2>g. /\ PunchWork = JobWork(1) + 2 * budget[1] + udp[1] + exchange[1] * W
                       + (JobWork(2) + 2 * budget[2] + udp[2] + exchange[2] * W)
                       + (inst.connects - connects) * V
        /\ PunchWork' = JobWork(1)' + 2 * budget'[1] + udp'[1] + exchange'[1] * W
                        + (JobWork(2)' + 2 * budget'[2] + udp'[2] + exchange'[2] * W)
                        + (inst.connects - connects') * V
    BY <2>b DEF PunchWork, NodeWork
  <2> HIDE DEF A, W, V
  <2>h. /\ \A n \in Nodes : JobWork(n) \in Nat /\ JobWork(n)' \in Nat
                            /\ exchange[n] * W \in Int /\ exchange'[n] * W \in Int
        /\ (inst.connects - connects) * V \in Int /\ (inst.connects - connects') * V \in Int
    <3>1. \A n \in Nodes : JobWork(n) \in Nat /\ JobWork(n)' \in Nat
      BY <2>a, <2>c, <2>f
    <3>2. \A n \in Nodes : exchange[n] * W \in Int /\ exchange'[n] * W \in Int
      BY <2>a, <2>c, Products
    <3>3. (inst.connects - connects) * V \in Int /\ (inst.connects - connects') * V \in Int
      BY SMTT(30), <2>a, <2>c, Products
    <3> QED
      BY <3>1, <3>2, <3>3
  (* The work, seen from either node. *)
  <2>i. \A n \in Nodes :
        /\ PunchWork = JobWork(n) + 2 * budget[n] + udp[n] + exchange[n] * W
                       + (JobWork(Other(n)) + 2 * budget[Other(n)] + udp[Other(n)] + exchange[Other(n)] * W)
                       + (inst.connects - connects) * V
        /\ PunchWork' = JobWork(n)' + 2 * budget'[n] + udp'[n] + exchange'[n] * W
                        + (JobWork(Other(n))' + 2 * budget'[Other(n)] + udp'[Other(n)] + exchange'[Other(n)] * W)
                        + (inst.connects - connects') * V
    BY <2>c, <2>d, <2>e, <2>g, <2>h
  <2>k. \A n \in Nodes : Other(n) \in Nodes /\ Other(n) # n
    BY <2>e
  <2>1. ASSUME NEW n \in Nodes, ConnectPeer(n) PROVE PunchWork' < PunchWork
    <3>1. /\ connects' = connects + 1 /\ connects < inst.connects
          /\ punch' = punch /\ budget' = budget /\ udp' = udp
      BY <2>1 DEF ConnectPeer
    <3>2. (inst.connects - connects') * V = (inst.connects - connects) * V - V
      <4>1. inst.connects - connects \in Int /\ inst.connects - connects' = (inst.connects - connects) - 1
        BY <2>a, <2>c, <3>1
      <4> QED
        BY <4>1, <2>a, Products
    <3>3. \A m \in Nodes : exchange'[m] * W <= exchange[m] * W + W
      <4>1. \A m \in Nodes : exchange'[m] = exchange[m] + 1 \/ exchange'[m] = exchange[m]
        BY <2>1, <2>c DEF ConnectPeer
      <4>2. \A m \in Nodes : (exchange[m] + 1) * W = exchange[m] * W + W
        BY <2>a, <2>c, Products
      <4> QED
        BY <4>1, <4>2, <2>a, <2>c, <2>h
    <3>4. \A m \in Nodes : JobWork(m)' + 2 * budget'[m] + udp'[m] + exchange'[m] * W
                            <= JobWork(m) + 2 * budget[m] + udp[m] + exchange[m] * W + W
      <4>1. \A m \in Nodes : JobWork(m)' = JobWork(m)
        BY SMTT(30), <2>f, <3>1
      <4> QED
        BY <2>a, <2>c, <2>d, <2>h, <3>1, <3>3, <4>1
    <3> DEFINE S(m) == JobWork(m) + 2 * budget[m] + udp[m] + exchange[m] * W
               T(m) == JobWork(m)' + 2 * budget'[m] + udp'[m] + exchange'[m] * W
    <3>5. /\ PunchWork = S(n) + S(Other(n)) + (inst.connects - connects) * V
          /\ PunchWork' = T(n) + T(Other(n)) + (inst.connects - connects') * V
      BY <2>i
    <3>6. \A m \in Nodes : S(m) \in Int /\ T(m) \in Int /\ T(m) <= S(m) + W
      BY <2>c, <2>d, <2>h, <3>4
    <3> HIDE DEF S, T
    <3>7. V = 2 * W + 1
      BY SMTT(30), <2>a
    <3> QED
      BY <2>a, <2>k, <2>h, <3>2, <3>5, <3>6, <3>7
  <2>2. ASSUME NEW n \in Nodes, HandleExchange(n) PROVE PunchWork' < PunchWork
    <3>1. /\ connects' = connects /\ budget' = budget
          /\ exchange' = [exchange EXCEPT ![n] = @ - 1]
          /\ \/ punch[n] = 0 /\ punch' = [punch EXCEPT ![n] = 1] /\ udp' = [udp EXCEPT ![Other(n)] = @ + 1]
             \/ punch' = punch /\ udp' = udp
      BY <2>2 DEF HandleExchange
    <3>2. /\ exchange'[n] * W = exchange[n] * W - W
          /\ exchange'[Other(n)] = exchange[Other(n)]
      <4>1. (exchange[n] - 1) * W = exchange[n] * W - W
        BY <2>a, <2>c, Products
      <4> QED
        BY <4>1, <3>1, <2>c, <2>k
    <3>3. JobWork(Other(n))' = JobWork(Other(n))
      BY <2>c, <2>k, <2>f, <3>1
    <3>4. JobWork(n)' <= JobWork(n) + 2 * A + 1
      BY <2>a, <2>c, <2>f, <3>1
    <3>5. udp'[n] + udp'[Other(n)] <= udp[n] + udp[Other(n)] + 1
      BY SMTT(30), <2>c, <2>k, <3>1
    <3> QED
      BY SMTT(30), <2>a, <2>c, <2>d, <2>k, <2>h, <2>i, <3>1, <3>2, <3>3, <3>4, <3>5
  (* The other steps leave connects and exchange alone. *)
  <2>j. ASSUME NEW n \in Nodes, connects' = connects, exchange' = exchange,
               JobWork(n)' + 2 * budget'[n] + udp'[n] + JobWork(Other(n))' + 2 * budget'[Other(n)] + udp'[Other(n)]
               < JobWork(n) + 2 * budget[n] + udp[n] + JobWork(Other(n)) + 2 * budget[Other(n)] + udp[Other(n)]
        PROVE  PunchWork' < PunchWork
    BY SMTT(30), <2>c, <2>d, <2>k, <2>h, <2>i, <2>j
  <2>3. ASSUME NEW n \in Nodes, PunchEstablished(n) PROVE PunchWork' < PunchWork
    <3>1. /\ udp[n] > 0 /\ punch[n] # 0 /\ connects' = connects /\ exchange' = exchange /\ budget' = budget
          /\ udp' = [udp EXCEPT ![n] = @ - 1] /\ punch' = [punch EXCEPT ![n] = 0]
      BY <2>3 DEF PunchEstablished
    <3>2. JobWork(n)' = 0 /\ JobWork(n) >= 0 /\ JobWork(Other(n))' = JobWork(Other(n))
      BY <2>c, <2>k, <2>f, <2>h, <3>1
    <3>3. udp'[n] = udp[n] - 1 /\ udp'[Other(n)] = udp[Other(n)]
      BY <2>c, <2>k, <3>1
    <3> QED
      BY <2>c, <2>d, <2>k, <2>h, <2>j, <3>1, <3>2, <3>3
  <2>4. ASSUME NEW n \in Nodes, PunchReply(n) PROVE PunchWork' < PunchWork
    <3>1. /\ udp[n] > 0 /\ connects' = connects /\ exchange' = exchange /\ punch' = punch
          /\ \A m \in Nodes : JobWork(m)' = JobWork(m)
      BY <2>4, <2>f DEF PunchReply
    <3>2. CASE known[n] /\ budget[n] > 0
      <4>1. /\ budget'[n] = budget[n] - 1 /\ budget'[Other(n)] = budget[Other(n)]
            /\ udp'[n] = udp[n] - 1 /\ udp'[Other(n)] = udp[Other(n)] + 1
        BY SMTT(30), <2>4, <2>d, <2>k, <3>2 DEF PunchReply
      <4> QED
        BY SMT, SMTT(30), ZenonT(60), <2>c, <2>d, <2>k, <2>h, <2>j, <3>1, <4>1
    <3>3. CASE ~(known[n] /\ budget[n] > 0)
      <4>1. budget' = budget /\ udp'[n] = udp[n] - 1 /\ udp'[Other(n)] = udp[Other(n)]
        BY <2>4, <2>k, <3>3 DEF PunchReply
      <4> QED
        BY SMTT(30), <2>c, <2>d, <2>k, <2>h, <2>j, <3>1, <4>1
    <3> QED
      BY <3>2, <3>3
  <2>5. ASSUME NEW n \in Nodes, PunchTick(n) PROVE PunchWork' < PunchWork
    <3>1. punch[n] # 0 /\ connects' = connects /\ exchange' = exchange /\ budget' = budget
      BY <2>5 DEF PunchTick
    <3>2. CASE punch[n] >= A /\ punch' = [punch EXCEPT ![n] = 0] /\ udp' = udp
      <4>1. JobWork(n)' = 0 /\ JobWork(n) >= 1 /\ JobWork(Other(n))' = JobWork(Other(n))
        BY SMTT(30), <2>a, <2>c, <2>k, <2>f, <3>1, <3>2
      <4> QED
        BY <2>c, <2>d, <2>k, <2>h, <2>j, <3>1, <3>2, <4>1
    <3>3. CASE punch[n] < A /\ punch' = [punch EXCEPT ![n] = @ + 1] /\ udp' = [udp EXCEPT ![Other(n)] = @ + 1]
      <4>1. JobWork(n)' <= JobWork(n) - 2 /\ JobWork(Other(n))' = JobWork(Other(n))
        BY SMTT(30), <2>a, <2>c, <2>k, <2>f, <3>1, <3>3
      <4> QED
        BY SMTT(30), <2>c, <2>d, <2>k, <2>h, <2>j, <3>1, <3>3, <4>1
    <3> QED
      BY <2>5, <3>2, <3>3 DEF PunchTick, A
  <2>6. ASSUME NEW n \in Nodes, LosePunch(n) PROVE PunchWork' < PunchWork
    <3>1. /\ udp[n] > 0 /\ connects' = connects /\ exchange' = exchange
          /\ punch' = punch /\ budget' = budget
          /\ udp' = [udp EXCEPT ![n] = @ - 1] /\ \A m \in Nodes : JobWork(m)' = JobWork(m)
      BY <2>6, <2>f DEF LosePunch
    <3> QED
      BY <2>c, <2>d, <2>k, <2>h, <2>j, <3>1
  <2> QED
    BY ZenonT(60), <2>1, <2>2, <2>3, <2>4, <2>5, <2>6 DEF Next, Step, MsgStep, PunchStep, Establish, OpenFails,
       NewConn, ReaderEnds, ConnClosed, ProbeTick, RelayPong, SendTo, ReadMsg, Fail, vars
<1> QED
  BY <1>1, TypeCorrect, PTL DEF Spec, PunchingSpends

(* What a node believes of its direct connection is true in every order of
   opens, dedup, cuts, late close events and probes. *)
THEOREM DirectIsSafe == Spec => []DirectSafe
<1>1. TypeOK /\ ActiveIsHeld /\ OpenIsKept /\ WrittenIsHeard => DirectSafe
  BY DEF DirectSafe
<1>2. QED
  BY <1>1, TypeCorrect, DirectIsHeld, HeldWhileOpen, WorkingIsHeard, PTL

-----------------------------------------------------------------------------
(* What one connect_peer can lead to.  Each node gets one Exchange, which
   becomes one job, one task that opens a connection, and one connection. *)
Owned(n) == {c \in 1 .. Len(conns) : conns[c] = n}
JobOnce(n) ==
  /\ connects = 0 => exchange[n] = 0 /\ punch[n] = 0 /\ opening[n] = 0 /\ Owned(n) = {}
  /\ exchange[n] # 0 => exchange[n] = 1 /\ punch[n] = 0 /\ opening[n] = 0 /\ Owned(n) = {}
  /\ punch[n] # 0 => opening[n] = 0 /\ Owned(n) = {}
  /\ opening[n] # 0 => opening[n] = 1 /\ Owned(n) = {}
  /\ \A c, d \in Owned(n) : c = d
JobInv == connects <= 1 => \A n \in Nodes : JobOnce(n)

(* A connection is held only after it was reported. *)
FreshInv == \A n \in Nodes, c \in 1 .. Len(conns) : Opened(c) \in events[n] => direct[n] # c

(* The connection of node 1 is open; that of node 2 too, unless node 1's has
   taken its place. *)
KeptInv ==
  ~failed /\ connects <= 1 =>
    \A c \in 1 .. Len(conns) : c \in open \/ (conns[c] # 1 /\ Owned(1) # {})

(* A message on a stream is on a connection. *)
StreamInv == \A n \in Nodes : \A k \in 1 .. Len(msgs[n]) : msgs[n][k].at = "stream" => msgs[n][k].conn # NoConn

DedupInv == JobInv /\ FreshInv /\ KeptInv /\ StreamInv

LEMMA DedupInit == Init => DedupInv
<1> SUFFICES ASSUME Init PROVE DedupInv
  OBVIOUS
<1>1. conns = <<>> /\ Len(conns) = 0 /\ \A n \in Nodes : Len(msgs[n]) = 0
  BY DEF Init
<1>2. \A n \in Nodes : exchange[n] = 0 /\ punch[n] = 0 /\ opening[n] = 0
  BY DEF Init
<1>3. \A n : Owned(n) = {}
  BY <1>1 DEF Owned
<1>4. JobInv
  BY <1>2, <1>3 DEF JobInv, JobOnce
<1>5. FreshInv /\ KeptInv /\ StreamInv
  BY <1>1 DEF FreshInv, KeptInv, StreamInv
<1> QED
  BY <1>4, <1>5 DEF DedupInv

(* The connections of each node before and after simultaneous_open. *)
LEMMA EstablishOwned ==
  ASSUME TypeOK, NEW n \in Nodes, Establish(n)
  PROVE  /\ Len(conns') = Len(conns) + 1 /\ conns'[Len(conns) + 1] = n
         /\ \A c \in 1 .. Len(conns) : conns'[c] = conns[c]
         /\ Owned(n)' = Owned(n) \cup {Len(conns) + 1}
         /\ \A m \in Nodes \ {n} : Owned(m)' = Owned(m)
<1>1. conns \in Seq(Nodes) /\ Len(conns) \in Nat
  BY DEF TypeOK
<1>2. conns' = Append(conns, n)
  BY DEF Establish
<1>3. /\ Len(conns') = Len(conns) + 1 /\ conns'[Len(conns) + 1] = n
      /\ \A c \in 1 .. Len(conns) : conns'[c] = conns[c]
  BY <1>1, <1>2
<1>4. \A m : Owned(m)' = {c \in 1 .. Len(conns) : conns[c] = m} \cup (IF m = n THEN {Len(conns) + 1} ELSE {})
  BY <1>1, <1>3 DEF Owned
<1> QED
  BY <1>3, <1>4 DEF Owned

LEMMA JobStep == TypeOK /\ JobInv /\ [Next]_vars => JobInv'
<1> SUFFICES ASSUME TypeOK, JobInv, [Next]_vars, connects' <= 1, NEW m \in Nodes PROVE JobOnce(m)'
  BY DEF JobInv
<1>a. ASSUME NEW n \in Nodes PROVE Other(n) \in Nodes
  BY <1>a DEF Nodes, Other
<1>b. /\ connects \in Nat /\ exchange \in [Nodes -> Nat] /\ punch \in [Nodes -> Nat]
      /\ opening \in [Nodes -> Nat]
  <2>1. inst.connects \in Nat
    BY DirectInstances DEF TypeOK
  <2> QED
    BY <2>1 DEF TypeOK
<1>1. ASSUME UNCHANGED <<connects, exchange, punch, opening, conns>> PROVE JobOnce(m)'
  BY <1>1 DEF JobInv, JobOnce, Owned
<1>o. conns' = conns => Owned(m)' = Owned(m)
  BY DEF Owned
<1>2. ASSUME NEW n \in Nodes, ConnectPeer(n) PROVE JobOnce(m)'
  <2>1. connects' = connects + 1 /\ UNCHANGED <<punch, opening, conns>>
    BY <1>2 DEF ConnectPeer, connVars
  <2>2. connects = 0 /\ connects' = 1
    BY <2>1, <1>b
  <2>3. \A k \in Nodes : exchange[k] = 0 /\ punch[k] = 0 /\ opening[k] = 0 /\ Owned(k) = {}
    BY <2>2 DEF JobInv, JobOnce
  <2>4. exchange' = [k \in Nodes |-> exchange[k] + 1]
    BY <1>2, <2>3 DEF ConnectPeer
  <2>5. exchange'[m] = 1 /\ punch'[m] = 0 /\ opening'[m] = 0 /\ Owned(m)' = {}
    BY <2>1, <2>3, <2>4, <1>o
  <2> QED
    BY <2>2, <2>5 DEF JobOnce
<1>3. ASSUME NEW n \in Nodes, HandleExchange(n) PROVE JobOnce(m)'
  <2>1. /\ UNCHANGED <<connects, opening, conns>> /\ exchange' = [exchange EXCEPT ![n] = @ - 1] /\ exchange[n] > 0
        /\ (punch[n] = 0 /\ punch' = [punch EXCEPT ![n] = 1]) \/ punch' = punch
    BY <1>3 DEF HandleExchange, connVars
  <2>2. JobOnce(n) /\ JobOnce(m)
    BY <2>1 DEF JobInv
  <2>3. exchange[n] = 1 /\ opening[n] = 0 /\ Owned(n) = {} /\ connects # 0 /\ exchange'[n] = 0
    BY <2>1, <2>2, <1>b DEF JobOnce
  <2>4. CASE m = n
    BY <2>1, <2>3, <2>4, <1>o, <1>b DEF JobOnce
  <2>5. CASE m # n
    <3>1. exchange'[m] = exchange[m] /\ punch'[m] = punch[m] /\ opening'[m] = opening[m] /\ Owned(m)' = Owned(m)
      BY <2>1, <2>5, <1>o, <1>b
    <3> QED
      BY <3>1, <2>1, <2>2 DEF JobOnce
  <2> QED
    BY <2>4, <2>5
<1>4. ASSUME NEW n \in Nodes, PunchEstablished(n) PROVE JobOnce(m)'
  <2>1. /\ UNCHANGED <<connects, exchange, conns>> /\ punch[n] # 0 /\ punch' = [punch EXCEPT ![n] = 0]
        /\ opening' = [opening EXCEPT ![n] = @ + 1]
    BY <1>4 DEF PunchEstablished
  <2>2. JobOnce(n) /\ JobOnce(m)
    BY <2>1 DEF JobInv
  <2>3. opening[n] = 0 /\ Owned(n) = {} /\ exchange[n] = 0 /\ connects # 0
    BY <2>1, <2>2 DEF JobOnce
  <2>4. CASE m = n
    <3>1. exchange'[m] = 0 /\ punch'[m] = 0 /\ opening'[m] = 1 /\ Owned(m)' = {}
      BY <2>1, <2>3, <2>4, <1>o, <1>b
    <3> QED
      BY <3>1, <2>1, <2>3 DEF JobOnce
  <2>5. CASE m # n
    <3>1. exchange'[m] = exchange[m] /\ punch'[m] = punch[m] /\ opening'[m] = opening[m] /\ Owned(m)' = Owned(m)
      BY <2>1, <2>5, <1>o, <1>b
    <3> QED
      BY <3>1, <2>1, <2>2 DEF JobOnce
  <2> QED
    BY <2>4, <2>5
<1>5. ASSUME NEW n \in Nodes, PunchTick(n) PROVE JobOnce(m)'
  <2>1. /\ UNCHANGED <<connects, exchange, opening, conns>> /\ punch[n] # 0
        /\ punch' = [punch EXCEPT ![n] = 0] \/ punch' = [punch EXCEPT ![n] = @ + 1]
    BY <1>5 DEF PunchTick, connVars
  <2>2. JobOnce(m)
    BY <2>1 DEF JobInv
  <2>3. punch'[m] # 0 => punch[m] # 0
    BY <2>1, <1>b
  <2>4. Owned(m)' = Owned(m)
    BY <2>1, <1>o
  <2>5. punch[m] = 0 => punch'[m] = 0
    BY <2>3
  <2> QED
    BY <2>1, <2>2, <2>3, <2>4, <2>5 DEF JobOnce
<1>6. ASSUME NEW n \in Nodes, Establish(n) PROVE JobOnce(m)'
  <2>1. /\ UNCHANGED <<connects, exchange, punch>> /\ opening[n] # 0 /\ opening' = [opening EXCEPT ![n] = @ - 1]
    BY <1>6, <1>b DEF Establish, punchVars
  <2>2. JobOnce(n) /\ JobOnce(m)
    BY <2>1 DEF JobInv
  <2>3. opening[n] = 1 /\ Owned(n) = {} /\ punch[n] = 0 /\ exchange[n] = 0 /\ connects # 0
    BY <2>1, <2>2 DEF JobOnce
  <2>4. CASE m = n
    <3>1. exchange'[m] = 0 /\ punch'[m] = 0 /\ opening'[m] = 0
      BY <2>1, <2>3, <2>4, <1>b
    <3>2. Owned(m)' = {Len(conns) + 1}
      BY SMT, SMTT(30), ZenonT(60), <1>6, <2>3, <2>4, EstablishOwned
    <3> QED
      BY <3>1, <3>2, <2>1, <2>3 DEF JobOnce
  <2>5. CASE m # n
    <3>1. exchange'[m] = exchange[m] /\ punch'[m] = punch[m] /\ opening'[m] = opening[m]
      BY <2>1, <2>5, <1>b
    <3>2. Owned(m)' = Owned(m)
      BY <1>6, <2>5, EstablishOwned
    <3> QED
      BY <3>1, <3>2, <2>1, <2>2 DEF JobOnce
  <2> QED
    BY <2>4, <2>5
<1>7. ASSUME NEW n \in Nodes, OpenFails(n) PROVE JobOnce(m)'
  <2>1. UNCHANGED <<connects, exchange, punch, conns>> /\ opening[n] # 0 /\ opening' = [opening EXCEPT ![n] = @ - 1]
    BY <1>7, <1>b DEF OpenFails, punchVars
  <2>2. JobOnce(n) /\ JobOnce(m)
    BY <2>1 DEF JobInv
  <2>3. opening[n] = 1
    BY <2>1, <2>2 DEF JobOnce
  <2>4. opening'[m] = opening[m] \/ opening'[m] = 0
    BY <2>1, <2>3, <1>b
  <2>5. Owned(m)' = Owned(m)
    BY <2>1, <1>o
  <2> QED
    BY <2>1, <2>2, <2>4, <2>5 DEF JobOnce
<1>8. CASE \E n \in Nodes : \/ PunchReply(n) \/ LosePunch(n) \/ ProbeTick(n) \/ RelayPong(n) \/ SendTo(n)
                            \/ \E k \in 1 .. Len(msgs[Other(n)]) : ReadMsg(n, k)
  <2>1. UNCHANGED <<connects, exchange, punch, opening, conns>>
    BY ZenonT(60), <1>8 DEF PunchReply, LosePunch, ProbeTick, RelayPong, SendTo, ReadMsg, connVars, punchVars
  <2> QED
    BY <2>1, <1>1
<1>9. CASE \E n \in Nodes : \E c \in ConnIds : NewConn(n, c) \/ ReaderEnds(n, c) \/ ConnClosed(n, c)
  <2>1. UNCHANGED <<connects, exchange, punch, opening, conns>>
    BY ZenonT(60), <1>9 DEF NewConn, ReaderEnds, ConnClosed, punchVars
  <2> QED
    BY <2>1, <1>1
<1>10. CASE UNCHANGED vars \/ \E c \in ConnIds : Fail(c)
  <2>1. UNCHANGED <<connects, exchange, punch, opening, conns>>
    BY ZenonT(60), <1>10 DEF vars, Fail, connVars, punchVars
  <2> QED
    BY <2>1, <1>1
<1> QED
  BY ZenonT(60), <1>2, <1>3, <1>4, <1>5, <1>6, <1>7, <1>8, <1>9, <1>10 DEF Next, Step, MsgStep, PunchStep

LEMMA FreshStep == TypeOK /\ FreshInv /\ [Next]_vars => FreshInv'
<1> SUFFICES ASSUME TypeOK, FreshInv, [Next]_vars PROVE FreshInv'
  OBVIOUS
<1>b. /\ Len(conns) \in Nat /\ direct \in [Nodes -> 0 .. Len(conns)]
      /\ events \in [Nodes -> SUBSET [type : {"Conn", "ConnClosed"}, conn : 1 .. Len(conns)]]
  BY DEF TypeOK
<1>c. \A n \in Nodes : \A c : Opened(c) \in events[n] => c \in 1 .. Len(conns) /\ direct[n] # c
  <2> SUFFICES ASSUME NEW n \in Nodes, NEW c, Opened(c) \in events[n] PROVE c \in 1 .. Len(conns)
    BY DEF FreshInv
  <2>1. Opened(c) \in [type : {"Conn", "ConnClosed"}, conn : 1 .. Len(conns)]
    BY <1>b
  <2> QED
    BY <2>1 DEF Opened
<1>1. ASSUME UNCHANGED <<events, direct>> PROVE FreshInv'
  BY ZenonT(60), <1>1, <1>c DEF FreshInv
<1>d. ASSUME NEW n \in Nodes, \A m \in Nodes : \A c : Opened(c) \in events'[m] => Opened(c) \in events[m],
             direct' = direct \/ DirectDown(n)
      PROVE  FreshInv'
  <2>1. \A m \in Nodes : direct'[m] \in {direct[m], 0}
    BY <1>b, <1>d DEF DirectDown, NoConn
  <2> QED
    BY SMT, SMTT(30), <2>1, <1>c, <1>d DEF FreshInv
<1>2. ASSUME NEW n \in Nodes, Establish(n) PROVE FreshInv'
  <2> DEFINE c == Len(conns) + 1
  <2>1. direct' = direct /\ \A m \in Nodes : events'[m] = events[m] \cup {Opened(c)}
    BY <1>2 DEF Establish
  <2>2. \A m \in Nodes : direct[m] # c
    BY <1>b
  <2> HIDE DEF c
  <2>3. \A d : Opened(d) = Opened(c) => d = c
    BY ZenonT(60), EventsDiffer
  <2> QED
    BY ZenonT(60), <2>1, <2>2, <2>3, <1>c DEF FreshInv
<1>3. ASSUME NEW n \in Nodes, NEW c \in ConnIds, NewConn(n, c) PROVE FreshInv'
  <2>1. events' = [events EXCEPT ![n] = @ \ {Opened(c)}]
    BY <1>3 DEF NewConn
  <2>2. \A m \in Nodes : \A d : Opened(d) \in events'[m] => Opened(d) \in events[m] /\ (m = n => d # c)
    BY ZenonT(60), <2>1, <1>b
  <2>3. CASE direct' = direct
    BY ZenonT(60), <2>2, <2>3, <1>c DEF FreshInv
  <2>4. CASE Takes(n, c)
    <3>1. \A m \in Nodes : direct'[m] = IF m = n THEN c ELSE direct[m]
      BY ZenonT(60), <2>4, <1>b DEF Takes
    <3> QED
      BY ZenonT(60), <2>2, <3>1, <1>c DEF FreshInv
  <2> QED
    BY ZenonT(60), <1>3, <2>3, <2>4 DEF NewConn
<1>5. ASSUME NEW n \in Nodes, NEW c \in ConnIds, ReaderEnds(n, c) PROVE FreshInv'
  <2>1. events' = [events EXCEPT ![n] = @ \cup {ClosedEv(c)}] /\ direct' = direct
    BY <1>5 DEF ReaderEnds
  <2>2. \A d : Opened(d) # ClosedEv(c)
    BY ZenonT(60), EventsDiffer
  <2>3. \A m \in Nodes : \A d : Opened(d) \in events'[m] => Opened(d) \in events[m]
    BY ZenonT(60), <2>1, <2>2, <1>b
  <2> QED
    BY ZenonT(60), <2>1, <2>3, <1>d
<1>6. ASSUME NEW n \in Nodes, NEW c \in ConnIds, ConnClosed(n, c) PROVE FreshInv'
  <2>1. events' = [events EXCEPT ![n] = @ \ {ClosedEv(c)}] /\ (direct' = direct \/ DirectDown(n))
    BY <1>6 DEF ConnClosed
  <2>2. \A m \in Nodes : \A d : Opened(d) \in events'[m] => Opened(d) \in events[m]
    BY ZenonT(60), <2>1, <1>b
  <2> QED
    BY ZenonT(60), <2>1, <2>2, <1>d
<1>7. ASSUME NEW n \in Nodes, SendTo(n) PROVE FreshInv'
  <2>1. events' = events /\ (direct' = direct \/ DirectDown(n))
    BY ZenonT(60), <1>7 DEF SendTo, connVars
  <2> QED
    BY ZenonT(60), <2>1, <1>d
<1>8. CASE \E n \in Nodes : \/ ConnectPeer(n) \/ HandleExchange(n) \/ PunchStep(n) \/ PunchTick(n)
                            \/ LosePunch(n) \/ OpenFails(n) \/ ProbeTick(n) \/ RelayPong(n)
  <2>1. UNCHANGED <<events, direct>>
    BY <1>8 DEF ConnectPeer, HandleExchange, PunchStep, PunchEstablished, PunchReply, PunchTick, LosePunch,
                OpenFails, ProbeTick, RelayPong, connVars
  <2> QED
    BY <2>1, <1>1
<1>9. CASE \E n \in Nodes : \E k \in 1 .. Len(msgs[Other(n)]) : ReadMsg(n, k)
  BY <1>9, <1>1 DEF ReadMsg, connVars
<1>10. CASE UNCHANGED vars \/ \E c \in ConnIds : Fail(c)
  <2>1. UNCHANGED <<events, direct>>
    BY ZenonT(60), <1>10 DEF vars, Fail, connVars
  <2> QED
    BY <2>1, <1>1
<1> QED
  BY ZenonT(60), <1>2, <1>3, <1>5, <1>6, <1>7, <1>8, <1>9, <1>10 DEF Next, Step, MsgStep

(* on_new_conn closes a connection only in favour of node 1's. *)
LEMMA KeptStep == TypeOK /\ JobInv /\ FreshInv /\ KeptInv /\ [Next]_vars => KeptInv'
<1> SUFFICES ASSUME TypeOK, JobInv, FreshInv, KeptInv, [Next]_vars, ~failed', connects' <= 1
             PROVE  \A c \in 1 .. Len(conns') : c \in open' \/ (conns'[c] # 1 /\ Owned(1)' # {})
  BY DEF KeptInv
<1>b. /\ Len(conns) \in Nat /\ direct \in [Nodes -> 0 .. Len(conns)] /\ 1 \in Nodes
      /\ \A c \in 1 .. Len(conns) : conns[c] \in {1, 2}
  <2>1. conns \in Seq(Nodes) /\ direct \in [Nodes -> 0 .. Len(conns)]
    BY ZenonT(60) DEF TypeOK
  <2> QED
    BY <2>1 DEF Nodes
<1>c. connects \in Nat
  <2>1. inst.connects \in Nat
    BY DirectInstances DEF TypeOK
  <2> QED
    BY <2>1 DEF TypeOK
<1>d. ASSUME connects' = connects \/ connects' = connects + 1, failed' = failed
      PROVE  /\ \A c \in 1 .. Len(conns) : c \in open \/ (conns[c] # 1 /\ Owned(1) # {})
             /\ \A c, d \in Owned(1) : c = d
  <2>1. connects <= 1 /\ ~failed
    BY <1>c, <1>d
  <2> QED
    BY ZenonT(60), <2>1, <1>b DEF KeptInv, JobInv, JobOnce
<1>1. ASSUME UNCHANGED <<failed, open, conns>>, connects' = connects \/ connects' = connects + 1
      PROVE  \A c \in 1 .. Len(conns') : c \in open' \/ (conns'[c] # 1 /\ Owned(1)' # {})
  <2>1. Owned(1)' = Owned(1)
    BY ZenonT(60), <1>1 DEF Owned
  <2> QED
    BY ZenonT(60), <2>1, <1>1, <1>d
<1>2. ASSUME NEW n \in Nodes, Establish(n), failed' = failed
      PROVE  \A c \in 1 .. Len(conns') : c \in open' \/ (conns'[c] # 1 /\ Owned(1)' # {})
  <2>1. connects' = connects /\ open' = open \cup {Len(conns) + 1}
    BY <1>2 DEF Establish, punchVars
  <2>2. /\ Len(conns') = Len(conns) + 1 /\ \A c \in 1 .. Len(conns) : conns'[c] = conns[c]
    BY ZenonT(60), <1>2, EstablishOwned
  <2>3. Owned(1)' = Owned(1) \cup {Len(conns) + 1} \/ Owned(1)' = Owned(1)
    BY ZenonT(60), <1>2, <1>b, EstablishOwned
  <2>4. Owned(1) # {} => Owned(1)' # {}
    BY ZenonT(60), <2>3
  <2>5. \A c \in 1 .. Len(conns') : c \in 1 .. Len(conns) \/ c = Len(conns) + 1
    BY <2>2, <1>b
  <2> QED
    BY ZenonT(60), <2>1, <2>2, <2>4, <2>5, <1>2, <1>d
<1>3. ASSUME NEW n \in Nodes, NEW c \in ConnIds, NewConn(n, c), failed' = failed
      PROVE  \A d \in 1 .. Len(conns') : d \in open' \/ (conns'[d] # 1 /\ Owned(1)' # {})
  <2>1. connects' = connects /\ conns' = conns /\ Opened(c) \in events[n] /\ c \in 1 .. Len(conns)
    BY <1>3 DEF NewConn, punchVars, ConnIds
  <2>2. Owned(1)' = Owned(1)
    BY ZenonT(60), <2>1 DEF Owned
  <2>3. direct[n] # c
    BY ZenonT(60), <2>1 DEF FreshInv
  <2>4. \A d \in 1 .. Len(conns) : Preferred(n, d) <=> d \in Owned(1)
    BY SMT, SMTT(30), <1>b DEF Preferred, Outgoing, Nodes, Other, Owned
  <2>5. direct[n] # NoConn => direct[n] \in 1 .. Len(conns)
    BY <1>b DEF NoConn
  <2>6. \A d \in 1 .. Len(conns) : d \in Owned(1) <=> conns[d] = 1
    BY ZenonT(60) DEF Owned
  <2>7. ASSUME NEW d, open' = open \ {d}, d \in 1 .. Len(conns), d \notin Owned(1), Owned(1) # {}
        PROVE  \A e \in 1 .. Len(conns') : e \in open' \/ (conns'[e] # 1 /\ Owned(1)' # {})
    BY ZenonT(60), <2>7, <2>1, <2>2, <2>6, <1>d, <1>3
  <2>8. CASE open' = open
    BY ZenonT(60), <2>8, <2>1, <2>2, <1>d, <1>3
  <2>9. CASE direct[n] # NoConn /\ (Preferred(n, direct[n]) \/ ~Preferred(n, c)) /\ open' = open \ {c}
    <3>1. direct[n] \in Owned(1) \/ c \notin Owned(1)
      BY ZenonT(60), <2>9, <2>1, <2>4, <2>5
    <3>2. c \notin Owned(1)
      BY ZenonT(60), <3>1, <2>1, <2>3, <1>d, <1>3
    <3>3. Owned(1) # {}
      <4>1. CASE direct[n] \in Owned(1)
        BY ZenonT(60), <4>1
      <4>2. CASE direct[n] \notin Owned(1)
        <5>1. c \in Owned(2) /\ direct[n] \in Owned(2)
          BY SMT, SMTT(30), <4>2, <3>2, <2>1, <2>5, <2>9, <1>b DEF Owned
        <5>2. JobOnce(2)
          BY <2>1, <1>c DEF JobInv, Nodes
        <5> QED
          BY ZenonT(60), <5>1, <5>2, <2>3 DEF JobOnce
      <4> QED
        BY ZenonT(60), <4>1, <4>2
    <3> QED
      BY ZenonT(60), <3>2, <3>3, <2>7, <2>9, <2>1
  <2>10. CASE direct[n] # NoConn /\ ~Preferred(n, direct[n]) /\ Preferred(n, c) /\ open' = open \ {direct[n]}
    <3>1. c \in Owned(1) /\ direct[n] \notin Owned(1) /\ direct[n] \in 1 .. Len(conns)
      BY ZenonT(60), <2>10, <2>1, <2>4, <2>5
    <3> QED
      BY ZenonT(60), <3>1, <2>7, <2>10
  <2> QED
    BY ZenonT(60), <1>3, <2>8, <2>9, <2>10 DEF NewConn
<1>4. ASSUME NEW c \in ConnIds, Fail(c) PROVE FALSE
  BY <1>4 DEF Fail
<1>5. CASE failed' = failed /\ \E n \in Nodes : \/ HandleExchange(n) \/ PunchStep(n) \/ PunchTick(n)
                            \/ LosePunch(n) \/ OpenFails(n) \/ ProbeTick(n) \/ RelayPong(n)
  <2>1. UNCHANGED <<open, conns, connects>>
    BY <1>5 DEF HandleExchange, PunchStep, PunchEstablished, PunchReply, PunchTick, LosePunch,
                OpenFails, ProbeTick, RelayPong, connVars, punchVars
  <2> QED
    BY ZenonT(60), <2>1, <1>1, <1>5
<1>6. CASE failed' = failed /\ \E n \in Nodes : ConnectPeer(n) \/ SendTo(n) \/ \E k \in 1 .. Len(msgs[Other(n)]) : ReadMsg(n, k)
  <2>1. UNCHANGED <<open, conns>> /\ (connects' = connects \/ connects' = connects + 1)
    BY ZenonT(60), <1>6 DEF ConnectPeer, SendTo, ReadMsg, connVars, punchVars
  <2> QED
    BY ZenonT(60), <2>1, <1>1, <1>6
<1>7. CASE failed' = failed /\ \E n \in Nodes : \E c \in ConnIds : ReaderEnds(n, c) \/ ConnClosed(n, c)
  <2>1. UNCHANGED <<open, conns, connects>>
    BY ZenonT(60), <1>7 DEF ReaderEnds, ConnClosed, punchVars
  <2> QED
    BY ZenonT(60), <2>1, <1>1, <1>7
<1>8. CASE UNCHANGED vars
  <2>1. UNCHANGED <<failed, open, conns, connects>>
    BY ZenonT(60), <1>8 DEF vars, connVars, punchVars
  <2> QED
    BY ZenonT(60), <2>1, <1>1
<1> QED
  BY ZenonT(60), <1>2, <1>3, <1>4, <1>5, <1>6, <1>7, <1>8 DEF Next, Step, MsgStep

LEMMA StreamStep == TypeOK /\ StreamInv /\ [Next]_vars => StreamInv'
<1> SUFFICES ASSUME TypeOK, StreamInv, [Next]_vars PROVE StreamInv'
  OBVIOUS
<1>a. ASSUME NEW n \in Nodes PROVE Other(n) \in Nodes
  BY <1>a DEF Nodes, Other
<1> DEFINE Msg == [at : {"relay", "stream", "read"}, conn : 0 .. Len(conns)]
<1>b. msgs \in [Nodes -> Seq(Msg)]
  BY ZenonT(60) DEF TypeOK
<1>1. ASSUME msgs' = msgs PROVE StreamInv'
  BY ZenonT(60), <1>1 DEF StreamInv
<1>2. ASSUME NEW n \in Nodes, SendTo(n) PROVE StreamInv'
  <2>1. PICK m : msgs' = [msgs EXCEPT ![n] = Append(@, m)] /\ (m.at = "stream" => m.conn # NoConn)
    BY <1>2 DEF SendTo, Sent, Relayed, Written
  <2>2. msgs'[n] = Append(msgs[n], m) /\ \A k \in Nodes \ {n} : msgs'[k] = msgs[k]
    BY ZenonT(60), <2>1, <1>b
  <2>3. msgs[n] \in Seq(Msg)
    BY ZenonT(60), <1>b
  <2> HIDE DEF Msg
  <2>4. \A k \in 1 .. Len(Append(msgs[n], m)) : (k \in 1 .. Len(msgs[n]) /\ Append(msgs[n], m)[k] = msgs[n][k])
                                                \/ Append(msgs[n], m)[k] = m
    BY <2>3
  <2>5. \A k \in 1 .. Len(msgs[n]) : msgs[n][k].at = "stream" => msgs[n][k].conn # NoConn
    BY ZenonT(60) DEF StreamInv
  <2>6. \A k \in 1 .. Len(msgs'[n]) : msgs'[n][k].at = "stream" => msgs'[n][k].conn # NoConn
    BY ONLY ZenonT(60), <2>1, <2>2, <2>4, <2>5
  <2>7. \A j \in Nodes \ {n} : \A k \in 1 .. Len(msgs'[j]) : msgs'[j][k].at = "stream" => msgs'[j][k].conn # NoConn
    BY ZenonT(60), <2>2 DEF StreamInv
  <2> QED
    BY ZenonT(60), <2>6, <2>7 DEF StreamInv
<1>3. ASSUME NEW n \in Nodes, NEW k \in 1 .. Len(msgs[Other(n)]), ReadMsg(n, k) PROVE StreamInv'
  <2> DEFINE o == Other(n)
  <2>1. msgs' = [msgs EXCEPT ![o][k].at = "read"] /\ o \in Nodes
    BY <1>3, <1>a DEF ReadMsg
  <2>2. msgs'[o] = [msgs[o] EXCEPT ![k].at = "read"] /\ \A j \in Nodes \ {o} : msgs'[j] = msgs[j]
    BY ZenonT(60), <2>1, <1>b
  <2>3. msgs[o] \in Seq(Msg) /\ k \in 1 .. Len(msgs[o])
    BY ZenonT(60), <2>1, <1>b, <1>3
  <2> HIDE DEF o, Msg
  <2>4. Len(msgs'[o]) = Len(msgs[o]) /\ \A j \in 1 .. Len(msgs[o]) : j # k => msgs'[o][j] = msgs[o][j]
    BY <2>2, <2>3
  <2>5. msgs'[o][k] = [msgs[o][k] EXCEPT !.at = "read"] /\ msgs[o][k] \in Msg
    BY <2>2, <2>3
  <2>6. msgs'[o][k].at = "read"
    BY <2>5 DEF Msg
  <2>7. \A j \in 1 .. Len(msgs'[o]) : msgs'[o][j].at = "stream" => msgs'[o][j].conn # NoConn
    BY ZenonT(60), <2>1, <2>4, <2>6 DEF StreamInv
  <2>8. \A j \in Nodes \ {o} : \A i \in 1 .. Len(msgs'[j]) : msgs'[j][i].at = "stream" => msgs'[j][i].conn # NoConn
    BY ZenonT(60), <2>2 DEF StreamInv
  <2> QED
    BY ZenonT(60), <2>7, <2>8 DEF StreamInv
<1>4. CASE UNCHANGED vars \/ \E c \in ConnIds : Fail(c)
  BY ZenonT(60), <1>4, <1>1 DEF vars, Fail
<1> QED
  BY ZenonT(60), <1>1, <1>2, <1>3, <1>4 DEF Next, MsgStep

(* Of the connections that one connect_peer leads to, the dedup rule of
   on_new_conn leaves one, and what is written to the canonical one is read,
   however the two nodes learn of them and whatever they send meanwhile. *)
THEOREM DedupHolds == Spec => []DedupIsHarmless
<1>1. TypeOK /\ DedupInv /\ [Next]_vars => DedupInv'
  BY ZenonT(60), JobStep, FreshStep, KeptStep, StreamStep DEF DedupInv
<1>2. Spec => []DedupInv
  BY <1>1, DedupInit, TypeCorrect, PTL DEF Spec
<1>3. TypeOK /\ ConnInv /\ DedupInv => DedupIsHarmless
  <2> SUFFICES ASSUME TypeOK, ConnInv, DedupInv PROVE DedupIsHarmless
    OBVIOUS
  <2>b. Len(conns) \in Nat /\ 1 \in Nodes /\ 2 \in Nodes /\ conns \in Seq(Nodes) /\ open \subseteq 1 .. Len(conns)
    <3>1. conns \in Seq(Nodes) /\ open \subseteq 1 .. Len(conns)
      BY ZenonT(60) DEF TypeOK
    <3> QED
      BY <3>1 DEF Nodes
  <2>a. ASSUME NEW n \in Nodes PROVE Other(n) \in Nodes
    BY <2>a DEF Nodes, Other
  <2>c. ASSUME ~failed, connects = 1
        PROVE  \A c \in 1 .. Len(conns) : c \in open \/ (conns[c] # 1 /\ Owned(1) # {})
    <3>1. connects <= 1
      BY <2>c
    <3> QED
      BY ZenonT(60), <2>c, <3>1 DEF DedupInv, KeptInv
  <2>1. DedupKeepsOne
    <3> SUFFICES ASSUME ConnsQuiet, conns # <<>>, ~failed, connects = 1 PROVE direct[1] # NoConn
      BY ZenonT(60) DEF DedupKeepsOne
    <3>1. 1 \in 1 .. Len(conns)
      BY <2>b
    <3>2. PICK c : c \in open
      <4>1. CASE 1 \in open
        BY ZenonT(60), <4>1
      <4>2. CASE Owned(1) # {}
        <5>1. PICK c : c \in Owned(1)
          BY ZenonT(60), <4>2
        <5>2. c \in 1 .. Len(conns) /\ conns[c] = 1
          BY ZenonT(60), <5>1 DEF Owned
        <5> QED
          BY ZenonT(60), <5>2, <2>c
      <4> QED
        BY ZenonT(60), <3>1, <4>1, <4>2, <2>c
    <3>3. Opened(c) \notin events[1]
      BY <2>b DEF ConnsQuiet
    <3>4. direct[1] = c
      BY ZenonT(60), <3>2, <3>3, <2>b DEF ConnInv
    <3> QED
      BY <3>2, <3>4, <2>b DEF NoConn
  <2>2. CanonicalKeepsMessages
    <3> SUFFICES ASSUME ~failed, connects = 1, NEW n \in Nodes, NEW c \in Unread(n), conns[c] = 1
                 PROVE  Heard(Other(n), c)
      BY ZenonT(60) DEF CanonicalKeepsMessages
    <3>1. PICK k \in 1 .. Len(msgs[n]) : msgs[n][k].at = "stream" /\ msgs[n][k].conn = c
      BY ZenonT(60) DEF Unread
    <3>2. c # NoConn
      BY ZenonT(60), <3>1 DEF DedupInv, StreamInv
    <3> DEFINE Msg == [at : {"relay", "stream", "read"}, conn : 0 .. Len(conns)]
    <3>3. msgs[n] \in Seq(Msg)
      BY ZenonT(60) DEF TypeOK
    <3>4. c \in 0 .. Len(conns)
      <4> HIDE DEF Msg
      <4>1. msgs[n][k] \in Msg
        BY <3>3
      <4> QED
        BY <3>1, <4>1 DEF Msg
    <3>5. c \in 1 .. Len(conns)
      BY <3>2, <3>4, <2>b DEF NoConn
    <3>6. c \in open
      BY ZenonT(60), <3>5, <2>c
    <3> QED
      BY ZenonT(60), <3>6, <2>a DEF ConnInv, Heard, Readable
  <2> QED
    BY ZenonT(60), <2>1, <2>2 DEF DedupIsHarmless
<1> QED
  BY <1>2, <1>3, ConnInvariant, PTL

=============================================================================
