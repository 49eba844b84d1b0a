----------------------------- MODULE WorkerProofs -----------------------------
(***************************************************************************)
(* The safety of a worker, for any number of connections and clients.      *)
(***************************************************************************)
EXTENDS Worker, FiniteSetTheorems, TLAPS

(* Registrations of different kinds or connections differ.                 *)
LEMMA IdsDiffer ==
    /\ NoId \notin Ids
    /\ \A k \in {"signal", "timer", "listen"} : <<k, NoConn>> \in Ids
    /\ \A c \in Conns : /\ c # NoConn
                        /\ <<"socket", c>> \in Ids \ CoreIds
                        /\ <<"pidfd", c>> \in Ids \ CoreIds
                        /\ <<"socket", c>> # NoId
                        /\ <<"pidfd", c>> # NoId
                        /\ <<"socket", c>> # <<"pidfd", c>>
    /\ \A c, d \in Conns : c # d => /\ <<"socket", c>> # <<"socket", d>>
                                    /\ <<"pidfd", c>> # <<"pidfd", d>>
    /\ \A c, d \in Conns : <<"socket", c>> # <<"pidfd", d>>
  BY ConnsAssumption DEF Ids, CoreIds, NoId

(* What a registration is, by its kind.                                    *)
LEMMA IdKinds ==
    ASSUME NEW id \in Ids \cup {NoId}
    PROVE  /\ id[1] \in {"signal", "timer", "listen", "socket", "pidfd", "none"}
           /\ id[1] = "none" => id = NoId
           /\ id[1] \in {"signal", "timer", "listen"} => id = <<id[1], NoConn>> /\ id \in CoreIds
           /\ id[1] \in {"socket", "pidfd"} => id[2] \in Conns /\ id = <<id[1], id[2]>>
           /\ id[2] \in Conns => id \in {<<"socket", id[2]>>, <<"pidfd", id[2]>>}
           /\ id[2] = NoConn \/ id[2] \in Conns
  BY ConnsAssumption DEF Ids, CoreIds, NoId

(* What the steps change of a connection.                                  *)
LEMMA ConnectionFields ==
    ASSUME NEW r \in Connection
    PROVE  /\ \A st \in {"new", "backlog", "accepted", "gone"} :
                 [r EXCEPT !.st = st] \in Connection
           /\ [r EXCEPT !.st = "accepted", !.mask = "in"] \in Connection
           /\ \A mask \in {"in", "out", "none"} : [r EXCEPT !.mask = mask] \in Connection
           /\ \A size \in 0..MaxFile :
                 [r EXCEPT !.mask = "out", !.len = size] \in Connection
           /\ \A rx \in {"none"} \cup RequestKinds : [r EXCEPT !.rx = rx] \in Connection
           /\ \A end \in {"open", "fin", "rst"} : [r EXCEPT !.end = end] \in Connection
           /\ \A b \in BOOLEAN : /\ [r EXCEPT !.room = b] \in Connection
                                 /\ [r EXCEPT !.edge = b] \in Connection
           /\ \A said \in {"nothing", "error", "file", "cgi", "mixed"} :
                 [r EXCEPT !.said = said] \in Connection
           /\ \A b \in BOOLEAN : \A said \in {"nothing", "error", "file", "cgi", "mixed"} :
                 [r EXCEPT !.room = b, !.said = said] \in Connection
           /\ r.len > 0 => [r EXCEPT !.len = r.len - 1] \in Connection
<1> USE DEF Connection
<1>1. /\ \A st \in {"new", "backlog", "accepted", "gone"} : [r EXCEPT !.st = st] \in Connection
      /\ \A mask \in {"in", "out", "none"} : [r EXCEPT !.mask = mask] \in Connection
    OBVIOUS
<1>2. [r EXCEPT !.st = "accepted", !.mask = "in"] \in Connection
    OBVIOUS
<1>3. \A size \in 0..MaxFile : [r EXCEPT !.mask = "out", !.len = size] \in Connection
    OBVIOUS
<1>4. /\ \A rx \in {"none"} \cup RequestKinds : [r EXCEPT !.rx = rx] \in Connection
      /\ \A end \in {"open", "fin", "rst"} : [r EXCEPT !.end = end] \in Connection
    OBVIOUS
<1>5. \A b \in BOOLEAN : [r EXCEPT !.room = b] \in Connection /\ [r EXCEPT !.edge = b] \in Connection
    OBVIOUS
<1>6. \A said \in {"nothing", "error", "file", "cgi", "mixed"} : [r EXCEPT !.said = said] \in Connection
    OBVIOUS
<1>7. \A b \in BOOLEAN : \A said \in {"nothing", "error", "file", "cgi", "mixed"} :
         [r EXCEPT !.room = b, !.said = said] \in Connection
    OBVIOUS
<1>8. r.len > 0 => [r EXCEPT !.len = r.len - 1] \in Connection
    BY ParamsAssumption
<1> HIDE DEF Connection
<1> QED
    BY <1>1, <1>2, <1>3, <1>4, <1>5, <1>6, <1>7, <1>8

(* A connection stays one, whatever happens to it.                         *)
LEMMA ConnectionTypes ==
    ASSUME NEW r \in Connection
    PROVE  /\ Polled(r) \in Connection
           /\ Told(r) \in Connection
           /\ Gone(r) \in Connection
           /\ Polled(r).st = r.st /\ Polled(r).mask = r.mask /\ Polled(r).said = r.said
           /\ Polled(r).end = r.end
           /\ Polled(r).edge = (r.edge \/ Reports(r) # {})
           /\ Reports(Polled(r)) = Reports(r)
           /\ Told(r).st = r.st /\ Told(r).mask = r.mask
           /\ Gone(r).st = "gone" /\ Gone(r).said = r.said /\ Gone(r).mask = "none"
<1> USE DEF Connection
<1>1. Polled(r) \in Connection
  <2>1. \A b \in BOOLEAN : [r EXCEPT !.edge = b] \in Connection
      OBVIOUS
  <2>2. (r.edge \/ Reports(r) # {}) \in BOOLEAN
      OBVIOUS
  <2> QED
      BY <2>1, <2>2 DEF Polled
<1>2. Told(r) \in Connection
    BY DEF Told
<1>7. Gone(r) \in Connection
  <2>1. 0 \in 0..MaxFile
      BY ParamsAssumption
  <2> QED
      BY <2>1 DEF Gone, Fresh
<1>3. /\ Polled(r).st = r.st /\ Polled(r).mask = r.mask /\ Polled(r).said = r.said
      /\ Polled(r).end = r.end
      /\ Polled(r).edge = (r.edge \/ Reports(r) # {})
    BY DEF Polled
<1>4. Reports(Polled(r)) = Reports(r)
    BY DEF Polled, Reports
<1>5. Told(r).st = r.st /\ Told(r).mask = r.mask
    BY DEF Told
<1>6. Gone(r).st = "gone" /\ Gone(r).said = r.said /\ Gone(r).mask = "none"
    BY DEF Gone, Fresh
<1> QED
    BY <1>1, <1>2, <1>3, <1>4, <1>5, <1>6, <1>7, Zenon

(* The counter follows the list of clients.                                *)
LEMMA Counts ==
    ASSUME TypeOK, CountMatches, pc # "dead"
    PROVE  /\ \A D \in SUBSET clients :
                CountWithout(D) = Cardinality(clients \ D) /\ CountWithout(D) \in 0..MaxClients
           /\ \A c \in Conns \ clients : Cardinality(clients \cup {c}) = numClients + 1
<1>1. IsFiniteSet(clients) /\ numClients = Cardinality(clients) /\ clients \subseteq Conns
    BY ConnsAssumption, FS_Subset DEF TypeOK, CountMatches
<1>2. ASSUME NEW D \in SUBSET clients
      PROVE  CountWithout(D) = Cardinality(clients \ D) /\ CountWithout(D) \in 0..MaxClients
  <2>1. IsFiniteSet(D) /\ IsFiniteSet(clients \ D) /\ Cardinality(D) \in Nat
        /\ Cardinality(clients \ D) \in Nat
      BY <1>1, FS_Subset, FS_CardinalityType
  <2>2. Cardinality(clients \ D) = Cardinality(clients) - Cardinality(clients \cap D)
      BY <1>1, FS_Difference
  <2>3. clients \cap D = D
      OBVIOUS
  <2>4. CountWithout(D) = Cardinality(clients \ D) /\ numClients \in 0..MaxClients
      BY <1>1, <2>1, <2>2, <2>3 DEF CountWithout, TypeOK
  <2>5. CountWithout(D) <= numClients
      BY <2>1, <2>4 DEF CountWithout
  <2> QED
      BY <2>1, <2>4, <2>5, ParamsAssumption
<1>3. \A c \in Conns \ clients : Cardinality(clients \cup {c}) = numClients + 1
    BY <1>1, FS_AddElement
<1> QED
    BY <1>2, <1>3

(* Whose callback runs is a client.                                        *)
LEMMA Running ==
    ASSUME WorkerInv, NEW c \in Conns,
           cur = <<"socket", c>> \/ cur = <<"pidfd", c>>
    PROVE  /\ c \in clients
           /\ ClientInv(c)
           /\ RegistrationInv(c) /\ LookupInv(c) /\ EventInv(c)
  BY DEF WorkerInv, ConnInv, RegistrationInv

(* The types of what client_disconnect changes.                            *)
LEMMA DisconnectTypes ==
    ASSUME TypeOK, CountMatches, pc # "dead",
           NEW D \in SUBSET clients, NEW told \in SUBSET D, Disconnect(D, told)
    PROVE  /\ clients' \subseteq Conns
           /\ numClients' \in 0..MaxClients
           /\ has' \in [Conns -> SUBSET {"file", "dirfd", "pidfd"}]
           /\ xfer' \in [Conns -> [size : 0..MaxFile, sent : 0..MaxFile]]
           /\ open' \in [Conns -> SUBSET {"socket", "file", "dirfd", "pidfd"}]
           /\ active' \subseteq Ids
           /\ ev' \in [Conns -> SUBSET Flags]
           /\ net' \in [Conns -> Connection]
           /\ age' \in [Conns -> 0..2 * Timeout]
           /\ quiet' \in [Conns -> 0..2 * Timeout]
<1> USE DEF TypeOK, Disconnect
<1>1. clients' \subseteq Conns /\ active' \subseteq Ids
    OBVIOUS
<1>2. numClients' \in 0..MaxClients
    BY Counts
<1>3. /\ has' \in [Conns -> SUBSET {"file", "dirfd", "pidfd"}]
      /\ ev' \in [Conns -> SUBSET Flags]
      /\ open' \in [Conns -> SUBSET {"socket", "file", "dirfd", "pidfd"}]
    OBVIOUS
<1>4. xfer' \in [Conns -> [size : 0..MaxFile, sent : 0..MaxFile]]
    BY ParamsAssumption DEF NoXfer
<1>5. net' \in [Conns -> Connection]
    BY ConnectionTypes
<1>6. 0 \in 0..2 * Timeout
    BY ParamsAssumption
<1>7. /\ age' \in [Conns -> 0..2 * Timeout]
      /\ quiet' \in [Conns -> 0..2 * Timeout]
    BY <1>6
<1> QED
    BY <1>1, <1>2, <1>3, <1>4, <1>5, <1>7

(* What a step changes of one connection is one of its fields.             *)
LEMMA NetTypes ==
    ASSUME TypeOK, NEW c \in Conns,
           \/ AcceptFull(c) \/ AcceptNoMemory(c)
           \/ \E registered \in BOOLEAN : AcceptClient(c, registered)
           \/ ReadRequest(c) \/ StatRegular(c)
           \/ \E size \in 0..MaxFile : StartFile(c, size)
           \/ \E execs, registered \in BOOLEAN : StartCgi(c, execs, registered)
           \/ \E n \in 1..MaxFile : SendSome(c, n)
           \/ Connect(c) \/ \E what \in PeerMay \cap RequestKinds : PeerSends(c, what)
           \/ PeerCloses(c) \/ PeerResets(c) \/ PeerReads(c)
           \/ CgiWrites(c) \/ CgiEnds(c) \/ Truncate(c)
    PROVE  net' \in [Conns -> Connection]
<1>1. net \in [Conns -> Connection]
    BY DEF TypeOK
<1>2. CASE AcceptFull(c) \/ AcceptNoMemory(c)
    BY <1>1, <1>2, ConnectionTypes DEF AcceptFull, AcceptNoMemory, TurnAway
<1>3. ASSUME NEW registered \in BOOLEAN, AcceptClient(c, registered)
      PROVE  net' \in [Conns -> Connection]
  <2>1. [net[c] EXCEPT !.st = "accepted", !.mask = "in"] \in Connection
      BY <1>1, ConnectionFields
  <2> QED
      BY <1>1, <1>3, <2>1, ConnectionTypes DEF AcceptClient
<1>4. CASE ReadRequest(c)
    BY <1>1, <1>4, ConnectionFields DEF ReadRequest
<1>5. ASSUME NEW size \in 0..MaxFile, StartFile(c, size)
      PROVE  net' \in [Conns -> Connection]
  <2>1. [net[c] EXCEPT !.mask = FileMask, !.len = size] \in Connection
      BY <1>1, ConnectionFields DEF FileMask
  <2> QED
      BY <1>1, <1>5, <2>1, ConnectionTypes DEF StartFile
<1>6. ASSUME NEW execs \in BOOLEAN, NEW registered \in BOOLEAN, StartCgi(c, execs, registered)
      PROVE  net' \in [Conns -> Connection]
  <2>1. [net[c] EXCEPT !.mask = CgiMask] \in Connection
      BY <1>1, ConnectionFields DEF CgiMask
  <2> QED
      BY <1>1, <1>6, <2>1, ConnectionTypes DEF StartCgi
<1>7. ASSUME NEW n \in 1..MaxFile, SendSome(c, n)
      PROVE  net' \in [Conns -> Connection]
  <2>1. PICK room \in BOOLEAN :
           net' = [net EXCEPT ![c].room = room,
                              ![c].said = IF @ \in {"nothing", "file"} THEN "file" ELSE "mixed"]
      BY <1>7 DEF SendSome
  <2> QED
      BY <1>1, <2>1, ConnectionFields
<1>8. ASSUME NEW r \in Connection, PeerActs(c, r)
      PROVE  net' \in [Conns -> Connection]
    BY <1>1, <1>8, ConnectionTypes DEF PeerActs
<1>9. ASSUME NEW what \in PeerMay \cap RequestKinds, PeerSends(c, what)
      PROVE  net' \in [Conns -> Connection]
    BY <1>1, <1>8, <1>9, ConnectionFields DEF PeerSends
<1>10. CASE PeerCloses(c) \/ PeerResets(c) \/ PeerReads(c)
    BY <1>1, <1>8, <1>10, ConnectionFields DEF PeerCloses, PeerResets, PeerReads
<1>11. CASE Connect(c)
    BY <1>1, <1>11, ConnectionFields DEF Connect
<1>12. CASE CgiWrites(c)
    BY <1>1, <1>12, ConnectionFields DEF CgiWrites
<1>13. CASE Truncate(c)
    BY <1>1, <1>13, ConnectionFields DEF Truncate
<1>14. CASE StatRegular(c) \/ CgiEnds(c)
    BY <1>1, <1>14 DEF StatRegular, CgiEnds
<1> QED
    BY <1>2, <1>3, <1>4, <1>5, <1>6, <1>7, <1>9, <1>10, <1>11, <1>12, <1>13, <1>14

(* The ways a callback gives up its client, which has no program running,  *)
(* and tells the peer only if it has sent it nothing.                      *)
LEMMA Drops ==
    ASSUME WorkerInv, NEW c \in Conns,
           \/ ReadEnd(c) \/ ReadFails(c) \/ ReadBad(c) \/ OpenFails(c) \/ StatRefused(c)
           \/ ForkFails(c) \/ SendLast(c) \/ SendFails(c) \/ Hangup(c) \/ ClientPidfd(c)
    PROVE  /\ c \in clients
           /\ proc[c] # "running"
           /\ pc \in ClientSteps \cup {"pidfd"}
           /\ Returns
           /\ UNCHANGED <<run, core, queue, proc, timer, sig, knock>>
           /\ \E told \in SUBSET {c} :
                 /\ Disconnect({c}, told)
                 /\ told # {} => net[c].said = "nothing"
<1>1. CASE ReadEnd(c)
  <2>1. In(c, "read") /\ Drop(c)
      BY <1>1 DEF ReadEnd
  <2>2. c \in clients /\ ClientInv(c) /\ net[c].mask = "in"
      BY <2>1, Running DEF In, EventInv, ClientSteps
  <2> QED
      BY <2>1, <2>2 DEF ClientInv, In, Drop, ClientSteps
<1>2. CASE ReadFails(c) \/ ReadBad(c) \/ OpenFails(c) \/ StatRefused(c) \/ ForkFails(c)
  <2>1. /\ In(c, "read") \/ In(c, "open") \/ In(c, "index") \/ In(c, "stat") \/ In(c, "exec")
        /\ Refuse(c)
      BY <1>2 DEF ReadFails, ReadBad, OpenFails, StatRefused, ForkFails
  <2>2. c \in clients /\ ClientInv(c) /\ net[c].mask = "in" /\ pc \in ClientSteps
      BY <2>1, Running DEF In, EventInv, ClientSteps
  <2> QED
      BY <2>1, <2>2 DEF ClientInv, Refuse
<1>3. CASE SendLast(c) \/ SendFails(c)
  <2>1. /\ In(c, "send")
        /\ Drop(c) \/ (Refuse(c) /\ xfer[c].sent = 0)
      BY <1>3 DEF SendLast, SendFails, TellsFailure
  <2>2. c \in clients /\ ClientInv(c) /\ net[c].mask = "out" /\ pc \in ClientSteps
      BY <2>1, Running DEF In, EventInv, ClientSteps
  <2>3. proc[c] # "running" /\ (xfer[c].sent = 0 => net[c].said = "nothing")
      BY <2>2 DEF ClientInv
  <2> QED
      BY <2>1, <2>2, <2>3 DEF Drop, Refuse
<1>4. CASE Hangup(c)
  <2>1. In(c, "hup") /\ Drop(c) /\ ("pidfd" \notin has[c] \/ proc[c] = "exited")
      BY <1>4 DEF Hangup, KillFails
  <2>2. c \in clients /\ ClientInv(c)
      BY <2>1, Running DEF In
  <2> QED
      BY <2>1, <2>2 DEF ClientInv, In, Drop, ClientSteps
<1>5. CASE ClientPidfd(c)
  <2>1. c \in clients /\ proc[c] = "exited"
      BY <1>5, Running DEF ClientPidfd, RegistrationInv
  <2> QED
      BY <1>5, <2>1 DEF ClientPidfd, Drop
<1> QED
    BY <1>1, <1>2, <1>3, <1>4, <1>5

(* server_timer disconnects clients that have no program running, and      *)
(* tells those it has sent nothing.                                        *)
LEMMA Expires ==
    ASSUME WorkerInv, NEW blind \in SUBSET clients, ServerTimer(blind)
    PROVE  \E D \in SUBSET clients : \E told \in SUBSET D : \E kill \in SUBSET clients :
              /\ Disconnect(D, told)
              /\ \A c \in D : proc[c] # "running"
              /\ \A c \in told : net[c].said = "nothing"
              /\ \A c \in clients : Overdue(c) => c \in D \cup kill \/
                                      ("pidfd" \in has[c] /\ ~(quiet[c] >= Timeout))
              /\ \A c \in kill : "pidfd" \in has[c]
              /\ proc' = Killed(kill)
<1> DEFINE old  == {c \in clients : Overdue(c)}
           idle == {c \in old : "pidfd" \notin has[c]}
           kill == {c \in old \ idle : c \in blind \/ quiet[c] >= Timeout}
           fail == {c \in kill : KillFails(c)}
           told == {c \in idle : xfer[c].sent = 0}
<1>1. Disconnect(idle \cup fail, told) /\ proc' = Killed(kill)
    BY DEF ServerTimer
<1>2. \A c \in clients : ClientInv(c)
    BY DEF WorkerInv, ConnInv, TypeOK
<1>3. \A c \in idle \cup fail : proc[c] # "running"
    BY <1>2 DEF ClientInv, KillFails
<1>4. \A c \in Conns : net[c].mask \in {"in", "out", "none"}
    BY DEF WorkerInv, TypeOK, Connection
<1>5. \A c \in told : net[c].said = "nothing"
    BY <1>2, <1>4 DEF ClientInv, WorkerInv, TypeOK
<1>6. \A c \in clients : Overdue(c) => c \in (idle \cup fail) \cup kill \/
                              ("pidfd" \in has[c] /\ ~(quiet[c] >= Timeout))
    OBVIOUS
<1>7. idle \cup fail \in SUBSET clients /\ told \in SUBSET (idle \cup fail) /\ kill \in SUBSET clients
    OBVIOUS
<1>8. \A c \in kill : "pidfd" \in has[c]
    OBVIOUS
<1> HIDE DEF old, idle, kill, fail, told
<1> QED
    BY <1>1, <1>3, <1>5, <1>6, <1>7, <1>8

(* Every step keeps the types.                                             *)
LEMMA TypeStep ==
    ASSUME WorkerInv, [Next]_vars
    PROVE  TypeOK'
<1>0. TypeOK /\ CountMatches
    BY DEF WorkerInv
<1>a. /\ 0 \in 0..MaxFile
      /\ 0 \in 0..2 * Timeout
      /\ Timeout \in 1..Timeout
      /\ MaxFile \in Nat
    BY ParamsAssumption
<1>b. \A c \in Conns : /\ active \cup {<<"socket", c>>} \subseteq Ids
                      /\ active \cup {<<"pidfd", c>>} \subseteq Ids
  <2>1. active \subseteq Ids
      BY <1>0 DEF TypeOK
  <2>2. \A c \in Conns : <<"socket", c>> \in Ids /\ <<"pidfd", c>> \in Ids
      BY IdsDiffer
  <2> QED
      BY <2>1, <2>2
<1> USE <1>0 DEF TypeOK, clientvars, loopvars, clockvars
<1>1. ASSUME NEW d \in {"directory", "sigfd", "timerfd", "socket", "loop"}, Setup(d)
      PROVE  TypeOK'
    BY <1>1 DEF Setup
<1>2. CASE SetupFails
    BY <1>2 DEF SetupFails
<1>3. ASSUME NEW deaf \in SUBSET CoreIds, EnterLoop(deaf)
      PROVE  TypeOK'
    BY <1>3 DEF EnterLoop, Ids
<1>4. ASSUME NEW R \in Batches, Collect(R)
      PROVE  TypeOK'
  <2>1. R \subseteq Ids
      BY DEF Batches, Ready
  <2>2. \A c \in Conns : Reports(net[c]) \in SUBSET Flags
      BY DEF Reports
  <2>3. ev' \in [Conns -> SUBSET Flags]
      BY <1>4, <2>2 DEF Collect
  <2>4. net' \in [Conns -> Connection]
      BY <1>4, ConnectionFields DEF Collect
  <2>5. sig' \in [pending : BOOLEAN, edge : BOOLEAN]
      BY <1>4 DEF Collect
  <2> QED
      BY <1>4, <2>1, <2>3, <2>4, <2>5 DEF Collect
<1>5. ASSUME NEW id \in queue, Dispatch(id)
      PROVE  TypeOK'
  <2>1. id \in Ids
      OBVIOUS
  <2>2. id[1] = "socket" \/ id[1] \in {"signal", "timer", "listen", "pidfd"}
      BY <2>1 DEF Ids, CoreIds
  <2> QED
      BY <1>5, <2>1, <2>2 DEF Dispatch, Branch
<1>6. CASE EndBatch \/ WaitFails
    BY <1>6, ZenonT(60) DEF EndBatch, WaitFails
<1>7. CASE ServerSignal
    BY <1>7 DEF ServerSignal, Returns
<1>8. ASSUME NEW blind \in SUBSET clients, ServerTimer(blind)
      PROVE  TypeOK'
  <2>1. PICK D \in SUBSET clients :
           \E told \in SUBSET D : \E kill \in SUBSET clients :
              Disconnect(D, told) /\ proc' = Killed(kill)
      BY <1>8, Expires
  <2>1a. PICK told \in SUBSET D, kill \in SUBSET clients :
            Disconnect(D, told) /\ proc' = Killed(kill)
      BY <2>1
  <2>2. pc # "dead"
      BY <1>8 DEF ServerTimer
  <2>3. proc' \in [Conns -> {"none", "running", "dying", "exited"}]
      BY <2>1a DEF Killed
  <2>4. /\ clients' \subseteq Conns /\ active' \subseteq Ids
        /\ numClients' \in 0..MaxClients
        /\ has' \in [Conns -> SUBSET {"file", "dirfd", "pidfd"}]
        /\ xfer' \in [Conns -> [size : 0..MaxFile, sent : 0..MaxFile]]
        /\ open' \in [Conns -> SUBSET {"socket", "file", "dirfd", "pidfd"}]
        /\ ev' \in [Conns -> SUBSET Flags]
        /\ net' \in [Conns -> Connection]
        /\ age' \in [Conns -> 0..2 * Timeout]
        /\ quiet' \in [Conns -> 0..2 * Timeout]
      BY <2>1a, <2>2, DisconnectTypes
  <2> QED
      BY <1>8, <2>3, <2>4 DEF ServerTimer, Returns
<1>9. ASSUME NEW c \in Conns, AcceptFull(c) \/ AcceptNoMemory(c)
      PROVE  TypeOK'
  <2>1. net' \in [Conns -> Connection]
      BY <1>9, NetTypes
  <2> QED
      BY <1>9, <2>1, ZenonT(60) DEF AcceptFull, AcceptNoMemory, TurnAway
<1>10. ASSUME NEW c \in Conns, NEW registered \in BOOLEAN, AcceptClient(c, registered)
       PROVE  TypeOK'
  <2>1. net' \in [Conns -> Connection]
      BY <1>10, NetTypes
  <2>2. numClients' \in 0..MaxClients
    <3>1. numClients' = numClients + 1 /\ numClients # MaxClients /\ numClients \in 0..MaxClients
        BY <1>10 DEF AcceptClient, Full
    <3> QED
        BY <3>1, ParamsAssumption
  <2>3. active' \subseteq Ids /\ clients' \subseteq Conns
    <3>1. /\ active' = active \/ active' = active \cup {<<"socket", c>>}
          /\ clients' = clients \cup {c}
        BY <1>10 DEF AcceptClient
    <3> QED
        BY <1>b, <3>1
  <2>4. open' \in [Conns -> SUBSET {"socket", "file", "dirfd", "pidfd"}]
      BY <1>10 DEF AcceptClient
  <2> QED
      BY <1>10, <2>1, <2>2, <2>3, <2>4 DEF AcceptClient, AcceptLoops
<1>11. CASE AcceptBlocks \/ AcceptFails
    BY <1>11, ZenonT(60) DEF AcceptBlocks, AcceptFails, Returns
<1>12. ASSUME NEW c \in Conns,
              \/ ReadEnd(c) \/ ReadFails(c) \/ ReadBad(c) \/ OpenFails(c) \/ StatRefused(c)
              \/ ForkFails(c) \/ SendLast(c) \/ SendFails(c) \/ Hangup(c) \/ ClientPidfd(c)
       PROVE  TypeOK'
  <2>1. /\ c \in clients /\ pc # "dead"
        /\ UNCHANGED <<run, core, queue, proc, timer, sig, knock>> /\ Returns
      BY <1>12, Drops, Zenon DEF ClientSteps
  <2>2. PICK told \in SUBSET {c} : Disconnect({c}, told)
      BY <1>12, Drops
  <2>2a. {c} \in SUBSET clients
      BY <2>1
  <2>3. /\ clients' \subseteq Conns /\ active' \subseteq Ids
        /\ numClients' \in 0..MaxClients
        /\ has' \in [Conns -> SUBSET {"file", "dirfd", "pidfd"}]
        /\ xfer' \in [Conns -> [size : 0..MaxFile, sent : 0..MaxFile]]
        /\ open' \in [Conns -> SUBSET {"socket", "file", "dirfd", "pidfd"}]
        /\ ev' \in [Conns -> SUBSET Flags]
        /\ net' \in [Conns -> Connection]
        /\ age' \in [Conns -> 0..2 * Timeout]
        /\ quiet' \in [Conns -> 0..2 * Timeout]
      BY <2>1, <2>2, <2>2a, DisconnectTypes, Zenon
  <2> QED
      BY <2>1, <2>3 DEF Returns
<1>13. ASSUME NEW c \in Conns, ReadRequest(c) \/ StatRegular(c)
       PROVE  TypeOK'
  <2>1. net' \in [Conns -> Connection]
      BY <1>13, NetTypes
  <2> QED
      BY <1>13, <2>1 DEF ReadRequest, StatRegular
<1>14. ASSUME NEW c \in Conns, OpenFile(c) \/ StatDirectory(c)
       PROVE  TypeOK'
  <2>1. has' \in [Conns -> SUBSET {"file", "dirfd", "pidfd"}]
      BY <1>14 DEF OpenFile, StatDirectory
  <2>2. open' \in [Conns -> SUBSET {"socket", "file", "dirfd", "pidfd"}]
      BY <1>14 DEF OpenFile, StatDirectory
  <2> QED
      BY <1>14, <2>1, <2>2, ZenonT(60) DEF OpenFile, StatDirectory
<1>15. ASSUME NEW c \in Conns, NEW size \in 0..MaxFile, StartFile(c, size)
       PROVE  TypeOK'
  <2>1. net' \in [Conns -> Connection]
      BY <1>15, NetTypes
  <2>2. age' \in [Conns -> 0..2 * Timeout]
      BY <1>15, <1>a DEF StartFile
  <2>3. xfer' \in [Conns -> [size : 0..MaxFile, sent : 0..MaxFile]]
      BY <1>15 DEF StartFile
  <2>4. /\ has' \in [Conns -> SUBSET {"file", "dirfd", "pidfd"}]
        /\ open' \in [Conns -> SUBSET {"socket", "file", "dirfd", "pidfd"}]
      BY <1>15 DEF StartFile
  <2> QED
      BY <1>15, <2>1, <2>2, <2>3, <2>4 DEF StartFile, AfterIn, AfterOut, Returns
<1>16. ASSUME NEW c \in Conns, NEW execs \in BOOLEAN, NEW registered \in BOOLEAN,
              StartCgi(c, execs, registered)
       PROVE  TypeOK'
  <2>1. net' \in [Conns -> Connection]
      BY <1>16, NetTypes
  <2>2. age' \in [Conns -> 0..2 * Timeout]
      BY <1>16, <1>a DEF StartCgi
  <2>3. /\ has' \in [Conns -> SUBSET {"file", "dirfd", "pidfd"}]
        /\ open' \in [Conns -> SUBSET {"socket", "file", "dirfd", "pidfd"}]
      BY <1>16 DEF StartCgi
  <2>4. active' \subseteq Ids
    <3>1. active' = active \/ active' = active \cup {<<"pidfd", c>>}
        BY <1>16 DEF StartCgi
    <3> QED
        BY <1>b, <3>1
  <2>5. proc' \in [Conns -> {"none", "running", "dying", "exited"}]
      BY <1>16 DEF StartCgi
  <2> QED
      BY <1>16, <2>1, <2>2, <2>3, <2>4, <2>5 DEF StartCgi, AfterIn, AfterOut, Returns
<1>17. ASSUME NEW c \in Conns, NEW n \in 1..MaxFile, SendSome(c, n)
       PROVE  TypeOK'
  <2>1. net' \in [Conns -> Connection]
      BY <1>17, NetTypes
  <2>2. xfer' \in [Conns -> [size : 0..MaxFile, sent : 0..MaxFile]]
    <3>1. xfer[c] \in [size : 0..MaxFile, sent : 0..MaxFile] /\ n < xfer[c].size - xfer[c].sent
        BY <1>17 DEF SendSome, Unsent
    <3>2. xfer[c].sent + n \in 0..MaxFile
        BY <1>a, <3>1
    <3>3. xfer' = [xfer EXCEPT ![c].sent = xfer[c].sent + n]
        BY <1>17 DEF SendSome
    <3> QED
        BY <3>1, <3>2, <3>3
  <2> QED
      BY <1>17, <2>1, <2>2 DEF SendSome, SendLoops
<1>18. ASSUME NEW c \in Conns, SendNothing(c)
       PROVE  TypeOK'
    BY <1>18 DEF SendNothing, vars
<1>19. ASSUME NEW c \in Conns, SendBlocks(c)
       PROVE  TypeOK'
  <2>1. age' \in [Conns -> 0..2 * Timeout]
      BY <1>19, <1>a DEF SendBlocks
  <2> QED
      BY <1>19, <2>1 DEF SendBlocks, AfterOut, Returns
<1>20. ASSUME NEW c \in Conns, HangupKills(c)
       PROVE  TypeOK'
    BY <1>20 DEF HangupKills, Killed, Returns
<1>21. ASSUME AllClosed
       PROVE  /\ clients' \subseteq Conns /\ active' \subseteq Ids
              /\ core' \subseteq core /\ pc' = "dead"
              /\ has' \in [Conns -> SUBSET {"file", "dirfd", "pidfd"}]
              /\ xfer' \in [Conns -> [size : 0..MaxFile, sent : 0..MaxFile]]
              /\ open' \in [Conns -> SUBSET {"socket", "file", "dirfd", "pidfd"}]
              /\ ev' \in [Conns -> SUBSET Flags]
              /\ net' \in [Conns -> Connection]
              /\ age' \in [Conns -> 0..2 * Timeout]
              /\ quiet' \in [Conns -> 0..2 * Timeout]
  <2>1. /\ clients' \subseteq Conns /\ active' \subseteq Ids
        /\ core' \subseteq core /\ pc' = "dead"
      BY <1>21 DEF AllClosed
  <2>2. /\ has' \in [Conns -> SUBSET {"file", "dirfd", "pidfd"}]
        /\ open' \in [Conns -> SUBSET {"socket", "file", "dirfd", "pidfd"}]
        /\ ev' \in [Conns -> SUBSET Flags]
      BY <1>21 DEF AllClosed
  <2>3. xfer' \in [Conns -> [size : 0..MaxFile, sent : 0..MaxFile]]
      BY <1>21, <1>a DEF AllClosed, NoXfer
  <2>4. age' \in [Conns -> 0..2 * Timeout] /\ quiet' \in [Conns -> 0..2 * Timeout]
      BY <1>21, <1>a DEF AllClosed
  <2>5. net' \in [Conns -> Connection]
      BY <1>21, ConnectionTypes DEF AllClosed
  <2> QED
      BY <2>1, <2>2, <2>3, <2>4, <2>5
<1>22. CASE ServerCleanup
  <2>1. proc' \in [Conns -> {"none", "running", "dying", "exited"}]
      BY <1>22 DEF ServerCleanup, Killed
  <2> QED
      BY <1>21, <1>22, <2>1 DEF ServerCleanup
<1>23. CASE SigTerm
  <2>1. CASE "sigfd" \in core
    <3>1. sig' \in [pending : BOOLEAN, edge : BOOLEAN]
      <4>1. \A b \in BOOLEAN : [pending |-> TRUE, edge |-> b] \in [pending : BOOLEAN, edge : BOOLEAN]
          OBVIOUS
      <4>2. (sig.edge \/ <<"signal", NoConn>> \in active) \in BOOLEAN
          OBVIOUS
      <4> QED
          BY <1>23, <2>1, <4>1, <4>2 DEF SigTerm
    <3> QED
        BY <1>23, <2>1, <3>1, ZenonT(60) DEF SigTerm
  <2>2. CASE "sigfd" \notin core
      BY <1>21, <1>23, <2>2, ZenonT(60) DEF SigTerm
  <2> QED
      BY <2>1, <2>2
<1>24. ASSUME NEW c \in Conns, Connect(c) \/ Truncate(c) \/ CgiEnds(c)
       PROVE  TypeOK'
  <2>1. net' \in [Conns -> Connection]
      BY <1>24, NetTypes
  <2>2. CASE Connect(c)
      BY <2>1, <2>2 DEF Connect
  <2>3. CASE Truncate(c)
      BY <2>1, <2>3 DEF Truncate
  <2>4. CASE CgiEnds(c)
      BY <2>1, <2>4 DEF CgiEnds
  <2> QED
      BY <1>24, <2>2, <2>3, <2>4
<1>25. ASSUME NEW c \in Conns,
              \/ PeerCloses(c) \/ PeerResets(c) \/ PeerReads(c)
              \/ \E what \in PeerMay \cap RequestKinds : PeerSends(c, what)
       PROVE  TypeOK'
  <2>1. net' \in [Conns -> Connection]
      BY <1>25, NetTypes
  <2>2. PICK r : PeerActs(c, r)
      BY <1>25 DEF PeerCloses, PeerResets, PeerReads, PeerSends
  <2> QED
      BY <2>1, <2>2 DEF PeerActs
<1>26. ASSUME NEW c \in Conns, CgiWrites(c)
       PROVE  TypeOK'
  <2>1. net' \in [Conns -> Connection]
      BY <1>26, NetTypes
  <2>2. quiet' \in [Conns -> 0..2 * Timeout]
      BY <1>26, <1>a DEF CgiWrites
  <2> QED
      BY <1>26, <2>1, <2>2 DEF CgiWrites
<1>27. CASE Tick
  <2>1. AgeLimit \in Nat /\ AgeLimit <= 2 * Timeout /\ Timeout \in Nat
      BY ParamsAssumption DEF AgeLimit
  <2>2. \A f \in [Conns -> 0..2 * Timeout] : \A S : Older(f, S) \in [Conns -> 0..2 * Timeout]
      BY <2>1 DEF Older
  <2>3. age' \in [Conns -> 0..2 * Timeout] /\ quiet' \in [Conns -> 0..2 * Timeout]
      BY <1>27, <2>2 DEF Tick
  <2>4. timer' \in [left : 1..Timeout, expired : BOOLEAN]
    <3>1. timer.left - 1 \in 1..Timeout \/ ~(timer.left > 1)
        BY <2>1
    <3> QED
        BY <1>27, <1>a, <3>1 DEF Tick
  <2> QED
      BY <1>27, <2>3, <2>4 DEF Tick
<1>28. CASE UNCHANGED vars
    BY <1>28 DEF vars
<1> HIDE <1>0 DEF TypeOK, clientvars, loopvars, clockvars
<1> QED
    BY <1>1, <1>2, <1>3, <1>4, <1>5, <1>6, <1>7, <1>8, <1>9, <1>10, <1>11, <1>12, <1>13,
       <1>14, <1>15, <1>16, <1>17, <1>18, <1>19, <1>20, <1>22, <1>23, <1>24, <1>25, <1>26,
       <1>27, <1>28
    DEF Next, WorkerNext, OutsideNext, AcceptNext, ReadNext, SendNext

(* Every step keeps the counter at the length of the list.                 *)
LEMMA CountStep ==
    ASSUME WorkerInv, [Next]_vars
    PROVE  CountMatches'
<1>1. TypeOK /\ CountMatches /\ TypeOK'
    BY TypeStep DEF WorkerInv
<1>2. numClients' <= MaxClients
    BY <1>1, ParamsAssumption DEF TypeOK
<1>3. ASSUME UNCHANGED <<clients, numClients>>, pc = "dead" => pc' = "dead"
      PROVE  CountMatches'
    BY <1>1, <1>3 DEF CountMatches
<1>4. ASSUME NEW D \in SUBSET clients, NEW told, Disconnect(D, told), pc # "dead"
      PROVE  CountMatches'
    BY <1>1, <1>2, <1>4, Counts DEF CountMatches, Disconnect
<1>5. ASSUME NEW blind \in SUBSET clients, ServerTimer(blind)
      PROVE  CountMatches'
  <2>1. PICK D \in SUBSET clients : \E told \in SUBSET D : Disconnect(D, told)
      BY <1>5, Expires
  <2> QED
      BY <1>4, <1>5, <2>1 DEF ServerTimer
<1>6. ASSUME NEW c \in Conns,
             \/ ReadEnd(c) \/ ReadFails(c) \/ ReadBad(c) \/ OpenFails(c) \/ StatRefused(c)
             \/ ForkFails(c) \/ SendLast(c) \/ SendFails(c) \/ Hangup(c) \/ ClientPidfd(c)
      PROVE  CountMatches'
  <2>1. {c} \in SUBSET clients /\ pc # "dead"
      BY <1>6, Drops, ZenonT(60) DEF ClientSteps
  <2>2. PICK told \in SUBSET {c} : Disconnect({c}, told)
      BY <1>6, Drops
  <2> QED
      BY <1>4, <2>1, <2>2
<1>7. ASSUME NEW c \in Conns, NEW registered \in BOOLEAN, AcceptClient(c, registered)
      PROVE  CountMatches'
  <2>1. net[c].st = "backlog" /\ pc # "dead"
      BY <1>7 DEF AcceptClient, AtListener, Backlog
  <2>2. c \notin clients
      BY <2>1 DEF WorkerInv, ConnInv, ClientInv
  <2> QED
      BY <1>1, <1>2, <1>7, <2>1, <2>2, Counts DEF CountMatches, AcceptClient
<1>8. CASE ServerCleanup
    BY <1>8 DEF ServerCleanup, AllClosed, CountMatches
<1>9. CASE SigTerm
    BY <1>3, <1>9 DEF SigTerm, AllClosed, CountMatches, clientvars
<1>10. CASE \/ \E d \in {"directory", "sigfd", "timerfd", "socket", "loop"} : Setup(d)
            \/ SetupFails \/ \E deaf \in SUBSET CoreIds : EnterLoop(deaf)
            \/ \E R \in Batches : Collect(R)
            \/ \E id \in queue : Dispatch(id)
            \/ EndBatch \/ WaitFails \/ ServerSignal
            \/ AcceptBlocks \/ AcceptFails
    BY <1>3, <1>10
    DEF Setup, SetupFails, EnterLoop, Collect, Dispatch, EndBatch, WaitFails, ServerSignal,
        AcceptBlocks, AcceptFails, Returns, clientvars
<1>11. ASSUME NEW c \in Conns,
              \/ AcceptFull(c) \/ AcceptNoMemory(c)
              \/ ReadRequest(c) \/ OpenFile(c) \/ StatRegular(c) \/ StatDirectory(c)
              \/ \E size \in 0..MaxFile : StartFile(c, size)
              \/ \E execs, registered \in BOOLEAN : StartCgi(c, execs, registered)
              \/ \E n \in 1..MaxFile : SendSome(c, n)
              \/ SendNothing(c) \/ SendBlocks(c) \/ HangupKills(c)
       PROVE  CountMatches'
  <2>1. pc # "dead"
      BY <1>11
      DEF AcceptFull, AcceptNoMemory, AtListener, ReadRequest, OpenFile, StatRegular,
          StatDirectory, StartFile, StartCgi, SendSome, SendNothing, SendBlocks, HangupKills, In
  <2>2. UNCHANGED <<clients, numClients>>
      BY <1>11
      DEF AcceptFull, AcceptNoMemory, TurnAway, ReadRequest, OpenFile, StatRegular,
          StatDirectory, StartFile, StartCgi, SendSome, SendNothing, SendBlocks, HangupKills,
          clientvars, vars
  <2> QED
      BY <1>3, <2>1, <2>2
<1>12. ASSUME NEW c \in Conns,
              \/ Connect(c) \/ \E what \in PeerMay \cap RequestKinds : PeerSends(c, what)
              \/ PeerCloses(c) \/ PeerResets(c) \/ PeerReads(c)
              \/ CgiWrites(c) \/ CgiEnds(c) \/ Truncate(c)
       PROVE  CountMatches'
    BY <1>3, <1>12
    DEF Connect, PeerSends, PeerCloses, PeerResets, PeerReads, PeerActs, CgiWrites, CgiEnds,
        Truncate, clientvars
<1>13. CASE Tick \/ UNCHANGED vars
    BY <1>3, <1>13 DEF Tick, clientvars, vars
<1> QED
    BY <1>5, <1>6, <1>7, <1>8, <1>9, <1>10, <1>11, <1>12, <1>13
    DEF Next, WorkerNext, OutsideNext, AcceptNext, ReadNext, SendNext

(* Every step of a callback leaves the worker where it knows whose it is.  *)
LEMMA WhereStep ==
    ASSUME WorkerInv, [Next]_vars
    PROVE  WhereInv'
<1>1. WhereInv /\ TypeOK
    BY DEF WorkerInv
<1>2. /\ cur[1] = Callback /\ cur \notin queue
      /\ cur \in Ids \cup {NoId} /\ queue \subseteq Ids /\ NoId \notin queue
      /\ NoId[1] = "none"
    BY <1>1, IdsDiffer DEF WhereInv, TypeOK, NoId
(* The loop is entered and the worker still where it was.                  *)
<1>3. ASSUME UNCHANGED <<pc, core, queue, cur>>, pc # "setup",
             "loop" \in core \/ (active' = active /\ clients' = clients)
      PROVE  WhereInv'
    BY <1>1, <1>3 DEF WhereInv, Callback
(* A callback goes on, or returns.                                         *)
<1>4. ASSUME UNCHANGED <<core, queue>>, pc \notin {"setup", "wait", "exit", "dead"},
             \/ Returns
             \/ cur' = cur /\ pc \in ClientSteps /\ pc' \in ClientSteps
      PROVE  WhereInv'
    BY <1>1, <1>2, <1>4 DEF WhereInv, Callback, Returns, ClientSteps
<1>5. ASSUME NEW d \in {"directory", "sigfd", "timerfd", "socket", "loop"}, Setup(d)
      PROVE  WhereInv'
    BY <1>1, <1>5 DEF Setup, WhereInv, Callback, Before, clientvars, loopvars
<1>6. CASE SetupFails
    BY <1>1, <1>6 DEF SetupFails, WhereInv, Callback, ClientSteps, clientvars, loopvars
<1>7. ASSUME NEW deaf \in SUBSET CoreIds, EnterLoop(deaf)
      PROVE  WhereInv'
    BY <1>1, <1>7 DEF EnterLoop, WhereInv, Callback, ClientSteps, clientvars
<1>8. ASSUME NEW R \in Batches, Collect(R)
      PROVE  WhereInv'
  <2>1. R \subseteq Ids
      BY <1>1 DEF Batches, Ready, TypeOK
  <2>2. cur = NoId
      BY <1>2, <1>8, IdKinds DEF Collect, Callback, ClientSteps
  <2> QED
      BY <1>1, <1>8, <2>1, <2>2, IdsDiffer
      DEF Collect, WhereInv, Callback, ClientSteps, clientvars
<1>9. ASSUME NEW id \in queue, Dispatch(id)
      PROVE  WhereInv'
  <2>1. id \in Ids /\ id[1] \in {"signal", "timer", "listen", "socket", "pidfd"}
      BY <1>2 DEF Ids, CoreIds
  <2>2. pc = "dispatch" /\ queue' = queue \ {id} /\ UNCHANGED <<core, active, clients>>
      BY <1>9 DEF Dispatch, clientvars
  <2>3. CASE id \in active
    <3>1. cur' = id /\ pc' \in {id[1]} \cup ClientSteps /\ (id[1] = "socket" => pc' \in ClientSteps)
          /\ (id[1] # "socket" => pc' = id[1])
        BY <1>9, <2>3 DEF Dispatch, Called, Branch, ClientSteps
    <3> QED
        BY <1>1, <2>1, <2>2, <3>1 DEF WhereInv, Callback, ClientSteps
  <2>4. CASE id \notin active
      BY <1>1, <1>9, <2>2, <2>4 DEF Dispatch, Called, WhereInv, Callback
  <2> QED
      BY <2>3, <2>4
<1>10. CASE EndBatch \/ WaitFails
    BY <1>1, <1>10 DEF EndBatch, WaitFails, WhereInv, Callback, ClientSteps, loopvars, clientvars
<1>11. CASE ServerSignal \/ AcceptBlocks \/ AcceptFails \/ \E blind \in SUBSET clients : ServerTimer(blind)
    BY <1>4, <1>11 DEF ServerSignal, AcceptBlocks, AcceptFails, ServerTimer
<1>12. ASSUME NEW c \in Conns,
              \/ ReadEnd(c) \/ ReadFails(c) \/ ReadBad(c) \/ OpenFails(c) \/ StatRefused(c)
              \/ ForkFails(c) \/ SendLast(c) \/ SendFails(c) \/ Hangup(c) \/ ClientPidfd(c)
       PROVE  WhereInv'
  <2>1. UNCHANGED <<core, queue>> /\ pc \in ClientSteps \cup {"pidfd"} /\ Returns
      BY <1>12, Drops
  <2> QED
      BY <1>4, <2>1 DEF ClientSteps
<1>13. ASSUME NEW c \in Conns,
              \/ AcceptFull(c) \/ AcceptNoMemory(c)
              \/ \E registered \in BOOLEAN : AcceptClient(c, registered)
              \/ SendNothing(c)
       PROVE  WhereInv'
  <2>1. UNCHANGED <<pc, core, queue, cur>> /\ pc \in {"listen", "send"}
      BY <1>13
      DEF AcceptFull, AcceptNoMemory, AcceptClient, AcceptLoops, TurnAway, AtListener,
          SendNothing, In, loopvars, vars
  <2> QED
      BY <1>1, <1>3, <2>1 DEF WhereInv
<1>14. ASSUME NEW c \in Conns,
              \/ ReadRequest(c) \/ OpenFile(c) \/ StatRegular(c) \/ StatDirectory(c)
              \/ \E size \in 0..MaxFile : StartFile(c, size)
              \/ \E execs, registered \in BOOLEAN : StartCgi(c, execs, registered)
              \/ \E n \in 1..MaxFile : SendSome(c, n)
              \/ SendBlocks(c) \/ HangupKills(c)
       PROVE  WhereInv'
  <2>1. pc \in ClientSteps /\ UNCHANGED <<core, queue>>
      BY <1>14
      DEF ReadRequest, OpenFile, StatRegular, StatDirectory, StartFile, StartCgi, SendSome,
          SendBlocks, HangupKills, In, ClientSteps, loopvars
  <2>2. Returns \/ (cur' = cur /\ pc' \in ClientSteps)
      BY <1>14
      DEF ReadRequest, OpenFile, StatRegular, StatDirectory, StartFile, StartCgi, SendSome,
          SendBlocks, HangupKills, AfterIn, AfterOut, SendLoops, ClientSteps, loopvars
  <2> QED
      BY <1>4, <2>1, <2>2 DEF ClientSteps
<1>15. CASE ServerCleanup \/ (SigTerm /\ "sigfd" \notin core)
  <2>1. AllClosed /\ UNCHANGED <<queue, cur>> /\ pc \in {"setup", "exit", "dead"}
      BY <1>1, <1>15 DEF ServerCleanup, SigTerm, WhereInv
  <2> QED
      BY <1>1, <2>1 DEF AllClosed, WhereInv, Callback, ClientSteps
<1>16. CASE UNCHANGED <<pc, core, active, clients, queue, cur>>
    BY <1>1, <1>16 DEF WhereInv, Callback
<1>17. CASE Tick \/ (SigTerm /\ "sigfd" \in core) \/ UNCHANGED vars
    BY <1>16, <1>17 DEF Tick, SigTerm, clientvars, loopvars, vars
<1>18. ASSUME NEW c \in Conns,
              \/ Connect(c) \/ \E what \in PeerMay \cap RequestKinds : PeerSends(c, what)
              \/ PeerCloses(c) \/ PeerResets(c) \/ PeerReads(c)
              \/ CgiWrites(c) \/ CgiEnds(c) \/ Truncate(c)
       PROVE  WhereInv'
    BY <1>16, <1>18
    DEF Connect, PeerSends, PeerCloses, PeerResets, PeerReads, PeerActs, CgiWrites, CgiEnds,
        Truncate, clientvars, loopvars
<1> QED
    BY <1>5, <1>6, <1>7, <1>8, <1>9, <1>10, <1>11, <1>12, <1>13, <1>14, <1>15, <1>17, <1>18
    DEF Next, WorkerNext, OutsideNext, AcceptNext, ReadNext, SendNext

(* Nothing happens to d but that its program ends or is killed, that its   *)
(* peer acts, or that its registrations go.                                *)
Undisturbed(d) ==
    /\ d \in clients' <=> d \in clients
    /\ has'[d] = has[d] /\ open'[d] = open[d] /\ xfer'[d] = xfer[d] /\ ev'[d] = ev[d]
    /\ d \notin clients => age'[d] = age[d] /\ quiet'[d] = quiet[d]
    /\ \/ proc'[d] = proc[d]
       \/ proc[d] \in {"running", "dying"} /\ proc'[d] \in {"dying", "exited"}
    /\ net'[d].st = net[d].st /\ net'[d].mask = net[d].mask /\ net'[d].said = net[d].said
    /\ <<"socket", d>> \in active' => <<"socket", d>> \in active
    /\ <<"pidfd", d>> \in active' => <<"pidfd", d>> \in active
    /\ <<"socket", d>> \in queue' => <<"socket", d>> \in queue
    /\ <<"pidfd", d>> \in queue' => <<"pidfd", d>> \in queue

(* It keeps its invariant, unless it is looked up at the moment.           *)
LEMMA Frame ==
    ASSUME NEW d \in Conns, ConnInv(d), Undisturbed(d),
           \/ UNCHANGED <<pc, cur>>
           \/ /\ ~LooksUp(d)
              /\ \/ cur' = cur /\ pc' = "hup"
                 \/ cur' \notin {<<"socket", d>>, <<"pidfd", d>>}
    PROVE  ConnInv(d)'
<1> USE DEF ConnInv, Undisturbed
<1>1. LooksUp(d)' => LooksUp(d) /\ pc' = pc
    BY DEF LooksUp
<1>2. LooksUp(d) => LooksUp(d)'
    BY DEF LooksUp
<1>3. RegistrationInv(d)'
    BY DEF RegistrationInv
<1>4. d \notin clients' => NoClientInv(d)'
    BY DEF NoClientInv
<1>5. d \in clients' => ClientInv(d)'
    BY <1>1, <1>2 DEF ClientInv
<1>6. LookupInv(d)'
    BY <1>1 DEF LookupInv
<1>7. EventInv(d)'
    BY DEF EventInv, ClientSteps
<1> QED
    BY <1>3, <1>4, <1>5, <1>6, <1>7

(* A client that is disconnected leaves nothing behind.                    *)
LEMMA DisconnectStep ==
    ASSUME WorkerInv, NEW D \in SUBSET clients, NEW told \in SUBSET D, Disconnect(D, told),
           \A c \in D : proc[c] # "running" /\ proc'[c] = proc[c],
           \A c \in told : net[c].said = "nothing",
           \A c \in Conns : \/ proc'[c] = proc[c]
                            \/ proc[c] \in {"running", "dying"} /\ proc'[c] \in {"dying", "exited"},
           \A c \in Conns \ D : ~LooksUp(c),
           Returns, UNCHANGED queue,
           NEW d \in Conns
    PROVE  ConnInv(d)'
<1>1. ConnInv(d) /\ TypeOK /\ D \subseteq Conns
    BY DEF WorkerInv, TypeOK
<1>2. cur' \notin {<<"socket", d>>, <<"pidfd", d>>}
    BY IdsDiffer DEF Returns
<1>3. CASE d \notin D
  <2>1. Undisturbed(d)
      BY <1>1, <1>3 DEF Disconnect, Undisturbed, TypeOK
  <2> QED
      BY <1>1, <1>2, <1>3, <2>1, Frame
<1>4. CASE d \in D
  <2>1. /\ d \notin clients' /\ <<"socket", d>> \notin active' /\ net'[d].st = "gone"
        /\ net'[d].said # "mixed"
    <3>1. net[d] \in Connection
        BY <1>1 DEF TypeOK
    <3>2. net'[d] \in {Gone(net[d]), Gone(Told(net[d]))} /\ (d \notin told => net'[d] = Gone(net[d]))
        BY <1>4 DEF Disconnect
    <3>3. Told(net[d]).said \in {net[d].said, "error"} \/ net[d].said # "nothing"
        BY <3>1 DEF Told, Connection
    <3>4. Gone(net[d]).said # "mixed" /\ (d \in told => Gone(Told(net[d])).said # "mixed")
        BY <1>1, <3>1, <3>3, ConnectionTypes DEF ConnInv
    <3>5. Gone(net[d]).st = "gone" /\ Gone(Told(net[d])).st = "gone"
        BY <3>1, ConnectionTypes
    <3>6. d \notin clients' /\ <<"socket", d>> \notin active'
        BY <1>4 DEF Disconnect, RegistrationsOf
    <3> QED
        BY <3>2, <3>4, <3>5, <3>6
  <2>2. <<"pidfd", d>> \notin active'
    <3>1. <<"pidfd", d>> \in active => "pidfd" \in has[d]
        BY <1>1 DEF ConnInv, RegistrationInv
    <3> QED
        BY <1>4, <3>1 DEF Disconnect, RegistrationsOf
  <2>3. /\ has'[d] = {} /\ open'[d] = {} /\ ev'[d] = {} /\ xfer'[d] = NoXfer
        /\ age'[d] = 0 /\ quiet'[d] = 0
    <3>1. open[d] = {"socket"} \cup has[d]
        BY <1>1, <1>4 DEF ConnInv, ClientInv
    <3> QED
        BY <1>1, <1>4, <3>1 DEF Disconnect, Owned
  <2>4. NoClientInv(d)'
      BY <1>4, <2>1, <2>3 DEF NoClientInv
  <2>5. RegistrationInv(d)'
      BY <1>1, <1>2, <1>4, <2>1, <2>2 DEF RegistrationInv, ConnInv
  <2>6. LookupInv(d)' /\ EventInv(d)'
      BY <1>2, <2>3 DEF LookupInv, LooksUp, EventInv
  <2> QED
      BY <2>1, <2>4, <2>5, <2>6 DEF ConnInv
<1> QED
    BY <1>3, <1>4

(* The loop, set-up and accept keep what is known of every connection.     *)
LEMMA LoopConnStep ==
    ASSUME WorkerInv, NEW d \in Conns,
           \/ \E s \in {"directory", "sigfd", "timerfd", "socket", "loop"} : Setup(s)
           \/ SetupFails \/ \E deaf \in SUBSET CoreIds : EnterLoop(deaf)
           \/ \E R \in Batches : Collect(R)
           \/ \E id \in queue : Dispatch(id)
           \/ EndBatch \/ WaitFails
           \/ ServerSignal \/ \E blind \in SUBSET clients : ServerTimer(blind)
           \/ AcceptNext
    PROVE  ConnInv(d)'
<1>1. TypeOK /\ WhereInv /\ ConnInv(d)
    BY DEF WorkerInv
<1>2. cur \in Ids \cup {NoId} /\ (Callback # "socket" => ~LooksUp(d))
    BY <1>1 DEF TypeOK, LooksUp, WhereInv
<1>3. NoId \notin {<<"socket", d>>, <<"pidfd", d>>}
    BY IdsDiffer
<1>4. pc \in {"setup", "wait", "dispatch", "exit", "dead"} => cur = NoId
    BY <1>1, <1>2, IdKinds DEF WhereInv, Callback, ClientSteps
<1>5. CASE (\E s \in {"directory", "sigfd", "timerfd", "socket", "loop"} : Setup(s)) \/ EndBatch
           \/ SetupFails \/ WaitFails
  <2>1. Undisturbed(d) /\ cur' = NoId /\ cur = NoId
      BY <1>4, <1>5
      DEF Setup, EndBatch, SetupFails, WaitFails, Undisturbed, clientvars, loopvars, clockvars
  <2> QED
      BY <1>1, <1>3, <2>1, Frame DEF LooksUp
<1>6. ASSUME NEW deaf \in SUBSET CoreIds, EnterLoop(deaf)
      PROVE  ConnInv(d)'
  <2>1. <<"socket", d>> \notin active' /\ <<"pidfd", d>> \notin active'
      BY <1>6, IdsDiffer DEF EnterLoop
  <2>2. Undisturbed(d) /\ cur' = NoId /\ cur = NoId
      BY <1>4, <1>6, <2>1 DEF EnterLoop, Undisturbed, clientvars, clockvars
  <2> QED
      BY <1>1, <1>3, <2>2, Frame DEF LooksUp
<1>7. CASE ServerSignal \/ AcceptBlocks \/ AcceptFails
  <2>1. Undisturbed(d)
      BY <1>7 DEF ServerSignal, AcceptBlocks, AcceptFails, Undisturbed, clientvars, clockvars
  <2>2. ~LooksUp(d) /\ cur' = NoId
      BY <1>7 DEF ServerSignal, AcceptBlocks, AcceptFails, LooksUp, Returns
  <2> QED
      BY <1>1, <1>3, <2>1, <2>2, Frame
<1>8. ASSUME NEW blind \in SUBSET clients, ServerTimer(blind)
      PROVE  ConnInv(d)'
  <2>1. PICK D \in SUBSET clients :
           \E told \in SUBSET D : \E kill \in SUBSET clients :
              /\ Disconnect(D, told)
              /\ \A c \in D : proc[c] # "running"
              /\ \A c \in told : net[c].said = "nothing"
              /\ proc' = Killed(kill)
      BY <1>8, Expires
  <2>2. PICK told \in SUBSET D, kill \in SUBSET clients :
              /\ Disconnect(D, told)
              /\ \A c \in told : net[c].said = "nothing"
              /\ proc' = Killed(kill)
      BY <2>1
  <2>3. \A c \in Conns : \/ proc'[c] = proc[c]
                         \/ proc[c] \in {"running", "dying"} /\ proc'[c] \in {"dying", "exited"}
      BY <2>2 DEF Killed
  <2>4. \A c \in D : proc[c] # "running" /\ proc'[c] = proc[c]
      BY <1>1, <2>1, <2>2 DEF Killed, TypeOK
  <2>5. \A c \in Conns : ~LooksUp(c)
      BY <1>8 DEF ServerTimer, LooksUp
  <2>6. Returns /\ UNCHANGED queue
      BY <1>8 DEF ServerTimer
  <2> QED
      BY <2>2, <2>3, <2>4, <2>5, <2>6, DisconnectStep
<1>9. ASSUME NEW R \in Batches, Collect(R)
      PROVE  ConnInv(d)'
  <2>1. cur = NoId /\ cur' = NoId
      BY <1>4, <1>9 DEF Collect
  <2>2. R \subseteq active /\ \A id \in R : IsReady(id)
      BY DEF Batches, Ready
  <2>3. /\ net'[d].st = net[d].st /\ net'[d].mask = net[d].mask /\ net'[d].said = net[d].said
      BY <1>1, <1>9 DEF Collect, TypeOK, Connection
  <2>4. /\ queue' = R
        /\ ev'[d] = IF <<"socket", d>> \in R THEN Reports(net[d]) ELSE {}
        /\ UNCHANGED <<active, clients, has, open, xfer, proc, age, quiet>>
      BY <1>9 DEF Collect, clientvars, clockvars
  <2>5. RegistrationInv(d)'
    <3>1. <<"pidfd", d>> \in R => proc[d] = "exited"
        BY <2>2 DEF IsReady
    <3>2. <<"socket", d>> \in R => net[d].st = "accepted"
        BY <1>1, <2>2 DEF ConnInv, RegistrationInv, ClientInv
    <3> QED
        BY <1>1, <1>3, <2>1, <2>3, <2>4, <3>1, <3>2 DEF ConnInv, RegistrationInv
  <2>6. d \notin clients' => NoClientInv(d)'
      BY <1>1, <2>2, <2>3, <2>4 DEF ConnInv, NoClientInv, RegistrationInv
  <2>7. d \in clients' => ClientInv(d)'
      BY <1>1, <1>3, <2>1, <2>3, <2>4 DEF ConnInv, ClientInv, LooksUp
  <2>8. LookupInv(d)'
      BY <1>3, <2>1 DEF LookupInv, LooksUp
  <2>9. EventInv(d)'
    <3>1. "in" \in Reports(net[d]) => net[d].mask = "in"
        BY DEF Reports
    <3>2. "out" \in Reports(net[d]) => net[d].mask = "out"
        BY DEF Reports
    <3> QED
        BY <1>3, <2>1, <2>3, <2>4, <3>1, <3>2 DEF EventInv
  <2> QED
      BY <1>1, <2>3, <2>5, <2>6, <2>7, <2>8, <2>9 DEF ConnInv
<1>10. ASSUME NEW id \in queue, Dispatch(id)
       PROVE  ConnInv(d)'
  <2>1. /\ cur = NoId /\ pc = "dispatch" /\ queue' = queue \ {id}
        /\ UNCHANGED <<active, clients, has, open, ev, xfer, net, proc, age, quiet>>
      BY <1>4, <1>10 DEF Dispatch, clientvars, clockvars
  <2>2. Undisturbed(d) /\ ~LooksUp(d)
      BY <1>3, <2>1 DEF Undisturbed, LooksUp
  <2>3. CASE cur' \notin {<<"socket", d>>, <<"pidfd", d>>}
      BY <1>1, <2>2, <2>3, Frame
  <2>4. CASE cur' \in {<<"socket", d>>, <<"pidfd", d>>}
    <3>1. /\ cur' = id /\ id \in active
          /\ pc' = IF id[1] = "socket" THEN Branch(ev[id[2]]) ELSE id[1]
        BY <1>3, <1>10, <2>1, <2>4 DEF Dispatch, Called
    <3>2. pc' = IF id = <<"socket", d>> THEN Branch(ev[d]) ELSE "pidfd"
        BY <2>4, <3>1, IdsDiffer
    <3>3. RegistrationInv(d)'
        BY <1>1, <2>1, <2>4, <3>1, IdsDiffer DEF ConnInv, RegistrationInv
    <3>4. ~LooksUp(d)'
        BY <2>4, <3>1, <3>2 DEF LooksUp, Branch
    <3>5. d \in clients' /\ ClientInv(d)'
        BY <1>1, <2>1, <2>2, <3>3, <2>4, <3>4 DEF ConnInv, RegistrationInv, ClientInv
    <3>6. EventInv(d)'
        BY <1>1, <2>1, <2>4, <3>1, <3>2, IdsDiffer DEF ConnInv, EventInv, Branch, ClientSteps
    <3> QED
        BY <1>1, <2>1, <3>3, <3>4, <3>5, <3>6 DEF ConnInv, LookupInv
  <2> QED
      BY <2>3, <2>4
<1>11. ASSUME NEW c \in Conns, AcceptFull(c) \/ AcceptNoMemory(c)
       PROVE  ConnInv(d)'
  <2>1. /\ net' = [net EXCEPT ![c] = Gone(Told(net[c]))] /\ net[c].st = "backlog"
        /\ UNCHANGED <<pc, cur, active, queue, clients, has, open, ev, xfer, proc, age, quiet>>
      BY <1>11 DEF AcceptFull, AcceptNoMemory, TurnAway, AtListener, Backlog, clientvars, loopvars, clockvars
  <2>2. CASE d # c
    <3>1. Undisturbed(d)
        BY <1>1, <2>1, <2>2 DEF Undisturbed, TypeOK
    <3> QED
        BY <1>1, <2>1, <3>1, Frame
  <2>3. CASE d = c
    <3>1. d \notin clients /\ NoClientInv(d) /\ net[d] \in Connection
        BY <1>1, <2>1, <2>3 DEF ConnInv, ClientInv, TypeOK
    <3>2. net'[d].st = "gone" /\ net'[d].said # "mixed"
      <4>1. net'[d] = Gone(Told(net[d]))
          BY <1>1, <2>1, <2>3 DEF TypeOK
      <4>2. Told(net[d]).said # "mixed"
          BY <2>1, <2>3, <3>1 DEF Told, NoClientInv, Connection
      <4> QED
          BY <3>1, <4>1, <4>2, ConnectionTypes
    <3> QED
        BY <1>1, <2>1, <3>1, <3>2
        DEF ConnInv, RegistrationInv, NoClientInv, LookupInv, LooksUp, EventInv
  <2> QED
      BY <2>2, <2>3
<1>12. ASSUME NEW c \in Conns, NEW registered \in BOOLEAN, AcceptClient(c, registered)
       PROVE  ConnInv(d)'
  <2>1. /\ net[c].st = "backlog"
        /\ open' = [open EXCEPT ![c] = {"socket"}]
        /\ net' = [net EXCEPT ![c] = Polled([net[c] EXCEPT !.st = "accepted", !.mask = "in"])]
        /\ active' = active \/ active' = active \cup {<<"socket", c>>}
        /\ clients' = clients \cup {c}
        /\ UNCHANGED <<pc, cur, queue, has, ev, xfer, proc, age, quiet>>
      BY <1>12 DEF AcceptClient, AtListener, Backlog, AcceptLoops, clientvars, loopvars, clockvars
  <2>2. CASE d # c
    <3>1. Undisturbed(d)
        BY <1>1, <2>1, <2>2, IdsDiffer DEF Undisturbed, TypeOK
    <3> QED
        BY <1>1, <2>1, <3>1, Frame
  <2>3. CASE d = c
    <3>1. d \notin clients /\ NoClientInv(d) /\ net[d] \in Connection
        BY <1>1, <2>1, <2>3 DEF ConnInv, ClientInv, TypeOK
    <3>2. net'[d].st = "accepted" /\ net'[d].mask = "in" /\ net'[d].said = "nothing"
      <4>1. net'[d] = Polled([net[d] EXCEPT !.st = "accepted", !.mask = "in"])
          BY <1>1, <2>1, <2>3 DEF TypeOK
      <4>2. [net[d] EXCEPT !.st = "accepted", !.mask = "in"] \in Connection
          BY <3>1, ConnectionFields
      <4>3. net[d].said = "nothing"
          BY <2>1, <2>3, <3>1 DEF NoClientInv
      <4>4. /\ [net[d] EXCEPT !.st = "accepted", !.mask = "in"].st = "accepted"
            /\ [net[d] EXCEPT !.st = "accepted", !.mask = "in"].mask = "in"
            /\ [net[d] EXCEPT !.st = "accepted", !.mask = "in"].said = "nothing"
          BY <3>1, <4>3 DEF Connection
      <4> QED
          BY <4>1, <4>2, <4>4, ConnectionTypes, ZenonT(60)
    <3>3. open'[d] = {"socket"}
        BY <1>1, <2>1, <2>3 DEF TypeOK
    <3>4. <<"socket", d>> \notin queue /\ <<"pidfd", d>> \notin active /\ proc[d] = "none"
          /\ cur \notin {<<"socket", d>>, <<"pidfd", d>>}
        BY <1>1, <2>1, <2>3, <3>1 DEF ConnInv, RegistrationInv, NoClientInv
    <3>5. RegistrationInv(d)'
        BY <1>1, <2>1, <2>3, <3>1, <3>2, <3>4, IdsDiffer DEF RegistrationInv, ConnInv
    <3>6. ClientInv(d)'
        BY <2>1, <3>1, <3>2, <3>3, <3>4 DEF ClientInv, NoClientInv
    <3>7. LookupInv(d)' /\ EventInv(d)'
        BY <2>1, <3>1, <3>4 DEF LookupInv, LooksUp, EventInv, NoClientInv
    <3> QED
        BY <2>1, <2>3, <3>2, <3>5, <3>6, <3>7 DEF ConnInv
  <2> QED
      BY <2>2, <2>3
<1> QED
    BY <1>5, <1>6, <1>7, <1>8, <1>9, <1>10, <1>11, <1>12 DEF AcceptNext

(* The callback of one client's socket leaves the other clients alone.     *)
LEMMA OtherStep ==
    ASSUME WorkerInv, NEW c \in Conns, NEW d \in Conns \ {c},
           cur = <<"socket", c>>, cur' \in {cur, NoId}, Undisturbed(d)
    PROVE  ConnInv(d)'
<1>1. /\ cur # <<"socket", d>>
      /\ cur' \notin {<<"socket", d>>, <<"pidfd", d>>}
    BY IdsDiffer
<1> QED
    BY <1>1, Frame DEF WorkerInv, LooksUp

(* client_socket, while it looks a request up.                             *)
LEMMA LookupConnStep ==
    ASSUME WorkerInv, NEW c \in Conns, NEW d \in Conns,
           ReadRequest(c) \/ OpenFile(c) \/ StatRegular(c) \/ StatDirectory(c)
    PROVE  ConnInv(d)'
<1>1. TypeOK /\ ConnInv(c) /\ ConnInv(d)
    BY DEF WorkerInv
<1>2. /\ cur = <<"socket", c>> /\ cur' = cur
      /\ pc \in {"read", "open", "stat", "index"} /\ pc' \in {"open", "stat", "index", "exec"}
      /\ UNCHANGED <<clients, active, queue, ev, xfer, proc, age, quiet>>
    BY DEF ReadRequest, OpenFile, StatRegular, StatDirectory, In, clientvars, loopvars, clockvars
<1>3. \A b \in Conns : net'[b].st = net[b].st /\ net'[b].mask = net[b].mask /\ net'[b].said = net[b].said
  <2>1. CASE ReadRequest(c)
      BY <1>1, <2>1 DEF ReadRequest, TypeOK, Connection
  <2>2. CASE OpenFile(c) \/ StatRegular(c) \/ StatDirectory(c)
      BY <2>2 DEF OpenFile, StatRegular, StatDirectory
  <2> QED
      BY <2>1, <2>2
<1>4. CASE d # c
  <2>1. has'[d] = has[d] /\ open'[d] = open[d]
      BY <1>1, <1>4 DEF ReadRequest, OpenFile, StatRegular, StatDirectory, clientvars, TypeOK
  <2>2. Undisturbed(d)
      BY <1>2, <1>3, <2>1 DEF Undisturbed
  <2> QED
      BY <1>2, <1>4, <2>2, OtherStep
<1>5. CASE d = c
  <2>1. /\ d \in clients /\ net[d].mask = "in" /\ "in" \in ev[d] /\ ClientInv(d)
      BY <1>1, <1>2, <1>5 DEF ConnInv, RegistrationInv, EventInv, ClientSteps
  <2>2. /\ pc \in {"read", "open"} => has[d] = {}
        /\ pc = "index" => has[d] = {"dirfd"}
        /\ pc = "stat" => has[d] \in {{"file"}, {"file", "dirfd"}}
      BY <1>1, <1>2, <1>5, <2>1 DEF ConnInv, ClientInv, LookupInv, LooksUp
  <2>3. /\ open'[d] = {"socket"} \cup has'[d] /\ "pidfd" \notin has'[d]
        /\ pc' = "open" => has'[d] = {}
        /\ pc' = "index" => has'[d] = {"dirfd"}
        /\ pc' \in {"stat", "exec"} => has'[d] \in {{"file"}, {"file", "dirfd"}}
    <3>1. open[d] = {"socket"} \cup has[d]
        BY <2>1 DEF ClientInv
    <3>2. CASE ReadRequest(c)
        BY <1>5, <2>2, <3>1, <3>2 DEF ReadRequest, In, clientvars
    <3>3. CASE OpenFile(c)
      <4>1. has'[d] = has[d] \cup {"file"} /\ open'[d] = open[d] \cup {"file"}
            /\ pc \in {"open", "index"} /\ pc' = "stat"
          BY <1>1, <1>5, <3>3 DEF OpenFile, In, TypeOK
      <4> QED
          BY <2>2, <3>1, <4>1
    <3>4. CASE StatRegular(c)
        BY <1>5, <2>2, <3>1, <3>4 DEF StatRegular, In, clientvars
    <3>5. CASE StatDirectory(c)
      <4>1. has'[d] = {"dirfd"} /\ open'[d] = (open[d] \ {"file"}) \cup {"dirfd"}
            /\ pc = "stat" /\ "dirfd" \notin has[d] /\ pc' = "index"
          BY <1>1, <1>5, <3>5 DEF StatDirectory, In, TypeOK
      <4> QED
          BY <2>2, <3>1, <4>1
    <3> QED
        BY <3>2, <3>3, <3>4, <3>5
  <2>4. RegistrationInv(d)'
    <3>1. "pidfd" \notin has[d] /\ proc[d] = "none"
        BY <2>1 DEF ClientInv
    <3> QED
        BY <1>1, <1>2, <1>3, <1>5, <2>1, <3>1, IdsDiffer DEF ConnInv, RegistrationInv
  <2>5. ClientInv(d)'
      BY <1>2, <1>3, <1>5, <2>1, <2>3 DEF ClientInv, LooksUp
  <2>6. LookupInv(d)'
      BY <1>2, <2>3 DEF LookupInv, LooksUp
  <2>7. EventInv(d)'
      BY <1>1, <1>2, <1>3, <1>5, <2>1 DEF ConnInv, EventInv, ClientSteps
  <2> QED
      BY <1>1, <1>2, <1>3, <2>1, <2>4, <2>5, <2>6, <2>7 DEF ConnInv
<1> QED
    BY <1>4, <1>5

(* client_socket starts the answer.                                        *)
LEMMA StartConnStep ==
    ASSUME WorkerInv, NEW c \in Conns, NEW d \in Conns,
           \/ \E size \in 0..MaxFile : StartFile(c, size)
           \/ \E execs, registered \in BOOLEAN : StartCgi(c, execs, registered)
    PROVE  ConnInv(d)'
<1>1. TypeOK /\ ConnInv(c) /\ ConnInv(d)
    BY DEF WorkerInv
<1>2. /\ cur = <<"socket", c>> /\ pc = "exec"
      /\ UNCHANGED <<clients, queue, ev, quiet>>
    BY DEF StartFile, StartCgi, In, clientvars, loopvars, clockvars
<1>3. /\ c \in clients /\ ClientInv(c) /\ net[c].mask = "in" /\ "in" \in ev[c] /\ "out" \notin ev[c]
    BY <1>1, <1>2 DEF ConnInv, RegistrationInv, EventInv, ClientSteps
<1>4. /\ has[c] \in {{"file"}, {"file", "dirfd"}} /\ open[c] = {"socket"} \cup has[c]
      /\ net[c].said = "nothing" /\ proc[c] = "none" /\ xfer[c] = NoXfer
      /\ net[c].st = "accepted"
    BY <1>1, <1>2, <1>3 DEF ConnInv, LookupInv, LooksUp, ClientInv
<1>5. (cur' = cur /\ pc' = "hup") \/ (cur' = NoId /\ pc' = "dispatch")
    BY <1>3 DEF StartFile, StartCgi, AfterIn, AfterOut, Returns
<1>6. cur' \in {cur, NoId} /\ <<"socket", c>> \notin queue /\ <<"pidfd", c>> \notin active \cup queue
  <2>1. cur \notin queue
      BY DEF WorkerInv, WhereInv
  <2> QED
      BY <1>1, <1>2, <1>4, <1>5, <2>1 DEF ConnInv, RegistrationInv
<1>7. ASSUME NEW size \in 0..MaxFile, StartFile(c, size)
      PROVE  ConnInv(d)'
  <2>1. /\ has' = [has EXCEPT ![c] = has[c] \ {"dirfd"}]
        /\ open' = [open EXCEPT ![c] = open[c] \ {"dirfd"}]
        /\ xfer' = [xfer EXCEPT ![c].size = size]
        /\ net' = [net EXCEPT ![c] = Polled([net[c] EXCEPT !.mask = "out", !.len = size])]
        /\ age' = [age EXCEPT ![c] = 0]
        /\ UNCHANGED <<active, proc>>
      BY <1>7 DEF StartFile, FileMask
  <2>2. CASE d # c
    <3>1. Undisturbed(d)
        BY <1>1, <1>2, <2>1, <2>2 DEF Undisturbed, TypeOK
    <3> QED
        BY <1>2, <1>6, <2>2, <3>1, OtherStep
  <2>3. CASE d = c
    <3>1. has'[c] = {"file"} /\ open'[c] = {"socket", "file"} /\ xfer'[c].sent = 0
        BY <1>1, <1>4, <2>1 DEF TypeOK, NoXfer
    <3>2. net'[c].st = "accepted" /\ net'[c].mask = "out" /\ net'[c].said = "nothing"
      <4>1. net'[c] = Polled([net[c] EXCEPT !.mask = "out", !.len = size]) /\ net[c] \in Connection
          BY <1>1, <2>1 DEF TypeOK
      <4>2. [net[c] EXCEPT !.mask = "out", !.len = size] \in Connection
          BY <4>1, ConnectionFields
      <4>3. /\ [net[c] EXCEPT !.mask = "out", !.len = size].st = "accepted"
            /\ [net[c] EXCEPT !.mask = "out", !.len = size].mask = "out"
            /\ [net[c] EXCEPT !.mask = "out", !.len = size].said = "nothing"
          BY <1>4, <4>1 DEF Connection
      <4> QED
          BY <4>1, <4>2, <4>3, ConnectionTypes, ZenonT(60)
    <3>3. RegistrationInv(c)'
        BY <1>1, <1>2, <1>3, <1>4, <1>5, <1>6, <2>1, <3>1, <3>2, IdsDiffer
        DEF ConnInv, RegistrationInv
    <3>4. ClientInv(c)'
        BY <1>4, <2>1, <3>1, <3>2 DEF ClientInv
    <3>5. LookupInv(c)' /\ EventInv(c)'
        BY <1>2, <1>3, <1>5, <1>6, <3>2, IdsDiffer DEF LookupInv, LooksUp, EventInv, ClientSteps
    <3> QED
        BY <1>2, <1>3, <2>3, <3>2, <3>3, <3>4, <3>5 DEF ConnInv
  <2> QED
      BY <2>2, <2>3
<1>8. ASSUME NEW execs \in BOOLEAN, NEW registered \in BOOLEAN, StartCgi(c, execs, registered)
      PROVE  ConnInv(d)'
  <2>1. /\ has' = [has EXCEPT ![c] = {"pidfd"}]
        /\ open' = [open EXCEPT ![c] = (open[c] \ {"file", "dirfd"}) \cup {"pidfd"}]
        /\ proc' = [proc EXCEPT ![c] = IF execs THEN "running" ELSE "exited"]
        /\ active' = active \/ active' = active \cup {<<"pidfd", c>>}
        /\ age' = [age EXCEPT ![c] = 0]
        /\ UNCHANGED xfer
      BY <1>8 DEF StartCgi
  <2>2. net' = [net EXCEPT ![c] = LET r == [net[c] EXCEPT !.mask = "none"]
                                   IN  Polled(IF execs THEN r ELSE Told(r))]
      BY <1>8 DEF StartCgi, CgiMask
  <2>3. CASE d # c
    <3>1. Undisturbed(d)
        BY <1>1, <1>2, <2>1, <2>2, <2>3, IdsDiffer DEF Undisturbed, TypeOK
    <3> QED
        BY <1>2, <1>6, <2>3, <3>1, OtherStep
  <2>4. CASE d = c
    <3>1. /\ has'[c] = {"pidfd"} /\ open'[c] = {"socket", "pidfd"}
          /\ proc'[c] = IF execs THEN "running" ELSE "exited"
        BY <1>1, <1>4, <2>1 DEF TypeOK
    <3>2. /\ net'[c].st = "accepted" /\ net'[c].mask = "none"
          /\ net'[c].said \in {"nothing", "error"}
          /\ execs => net'[c].said = "nothing"
      <4> DEFINE r == [net[c] EXCEPT !.mask = "none"]
      <4>1. net[c] \in Connection /\ r \in Connection
          BY <1>1, ConnectionFields DEF TypeOK
      <4>2. net'[c] = Polled(IF execs THEN r ELSE Told(r))
          BY <1>1, <2>2 DEF TypeOK
      <4>3. r.st = "accepted" /\ r.mask = "none" /\ r.said = "nothing"
          BY <1>4, <4>1 DEF Connection
      <4>4. Told(r).said \in {"nothing", "error"}
          BY <4>1, <4>3 DEF Told, Connection
      <4> HIDE DEF r
      <4>5. Told(r) \in Connection /\ Told(r).st = "accepted" /\ Told(r).mask = "none"
          BY <4>1, <4>3, ConnectionTypes
      <4>6. CASE execs
          BY <4>1, <4>2, <4>3, <4>6, ConnectionTypes
      <4>7. CASE ~execs
          BY <4>2, <4>4, <4>5, <4>7, ConnectionTypes
      <4> QED
          BY <4>6, <4>7
    <3>3. RegistrationInv(c)'
        BY <1>1, <1>2, <1>3, <1>4, <1>5, <1>6, <2>1, <3>1, <3>2, IdsDiffer
        DEF ConnInv, RegistrationInv
    <3>4. ClientInv(c)'
        BY <1>4, <2>1, <3>1, <3>2 DEF ClientInv
    <3>5. LookupInv(c)' /\ EventInv(c)'
        BY <1>2, <1>3, <1>5, <1>6, <3>2, IdsDiffer DEF LookupInv, LooksUp, EventInv, ClientSteps
    <3> QED
        BY <1>2, <1>3, <2>4, <3>2, <3>3, <3>4, <3>5 DEF ConnInv
  <2> QED
      BY <2>3, <2>4
<1> QED
    BY <1>7, <1>8

(* client_socket, while it answers, and when it gives up.                  *)
LEMMA AnswerConnStep ==
    ASSUME WorkerInv, NEW c \in Conns, NEW d \in Conns,
           \/ \E n \in 1..MaxFile : SendSome(c, n)
           \/ SendNothing(c) \/ SendBlocks(c) \/ HangupKills(c)
           \/ ReadEnd(c) \/ ReadFails(c) \/ ReadBad(c) \/ OpenFails(c) \/ StatRefused(c)
           \/ ForkFails(c) \/ SendLast(c) \/ SendFails(c) \/ Hangup(c) \/ ClientPidfd(c)
    PROVE  ConnInv(d)'
<1>1. TypeOK /\ ConnInv(c) /\ ConnInv(d) /\ WhereInv
    BY DEF WorkerInv
<1>2. ASSUME NEW n \in 1..MaxFile, SendSome(c, n)
      PROVE  ConnInv(d)'
  <2>1. /\ cur = <<"socket", c>> /\ pc = "send" /\ UNCHANGED <<cur, pc>>
        /\ UNCHANGED <<clients, has, open, active, queue, ev, proc, age, quiet>>
        /\ xfer' = [xfer EXCEPT ![c].sent = xfer[c].sent + n]
      BY <1>2 DEF SendSome, In, SendLoops, clockvars
  <2>2. PICK room \in BOOLEAN :
           net' = [net EXCEPT ![c].room = room,
                              ![c].said = IF @ \in {"nothing", "file"} THEN "file" ELSE "mixed"]
      BY <1>2 DEF SendSome
  <2>3. CASE d # c
    <3>1. Undisturbed(d)
        BY <1>1, <2>1, <2>2, <2>3 DEF Undisturbed, TypeOK
    <3> QED
        BY <2>1, <2>3, <3>1, OtherStep
  <2>4. CASE d = c
    <3>1. c \in clients /\ ClientInv(c) /\ net[c].mask = "out"
        BY <1>1, <2>1 DEF ConnInv, RegistrationInv, EventInv
    <3>2. net[c].said \in {"nothing", "file"}
        BY <3>1 DEF ClientInv
    <3>3. net'[c].st = net[c].st /\ net'[c].mask = "out" /\ net'[c].said = "file"
      <4>1. net[c] \in Connection
          BY <1>1 DEF TypeOK
      <4> QED
          BY <1>1, <2>2, <3>1, <3>2, <4>1 DEF TypeOK, Connection
    <3>4. xfer'[c].sent # 0
      <4>1. xfer[c] \in [size : 0..MaxFile, sent : 0..MaxFile] /\ MaxFile \in Nat
          BY <1>1, ParamsAssumption DEF TypeOK
      <4>2. xfer'[c].sent = xfer[c].sent + n
          BY <1>1, <2>1 DEF TypeOK
      <4> QED
          BY <4>1, <4>2
    <3>5. RegistrationInv(c)'
        BY <1>1, <2>1, <3>3 DEF ConnInv, RegistrationInv
    <3>6. ClientInv(c)'
        BY <2>1, <3>1, <3>3, <3>4 DEF ClientInv
    <3>7. LookupInv(c)' /\ EventInv(c)'
        BY <1>1, <2>1, <3>1, <3>3 DEF ConnInv, LookupInv, LooksUp, EventInv
    <3> QED
        BY <2>1, <2>4, <3>1, <3>3, <3>5, <3>6, <3>7 DEF ConnInv
  <2> QED
      BY <2>3, <2>4
<1>3. CASE SendNothing(c)
  <2>1. UNCHANGED vars
      BY <1>3 DEF SendNothing
  <2>2. Undisturbed(d) /\ UNCHANGED <<pc, cur>>
      BY <2>1 DEF vars, clientvars, loopvars, clockvars, Undisturbed
  <2> QED
      BY <1>1, <2>2, Frame
<1>4. CASE SendBlocks(c) \/ HangupKills(c)
  <2>1. /\ cur = <<"socket", c>> /\ pc \in {"send", "hup"}
        /\ UNCHANGED <<clients, has, open, xfer, active, queue, ev, net, quiet>>
        /\ \/ cur' = cur /\ pc' = "hup"
           \/ cur' = NoId
      BY <1>4 DEF SendBlocks, HangupKills, In, AfterOut, Returns, clientvars, clockvars
  <2>2. \/ proc'[d] = proc[d]
        \/ proc[d] \in {"running", "dying"} /\ proc'[d] \in {"dying", "exited"}
      BY <1>1, <1>4 DEF SendBlocks, HangupKills, Killed
  <2>3. d \notin clients => age'[d] = age[d] /\ quiet'[d] = quiet[d]
    <3>1. c \in clients
        BY <1>1, <2>1 DEF ConnInv, RegistrationInv
    <3> QED
        BY <1>1, <1>4, <3>1 DEF SendBlocks, HangupKills, TypeOK, clockvars
  <2>4. Undisturbed(d) /\ ~LooksUp(d)
      BY <2>1, <2>2, <2>3 DEF Undisturbed, LooksUp
  <2> QED
      BY <1>1, <2>1, <2>4, Frame, IdsDiffer
<1>5. CASE \/ ReadEnd(c) \/ ReadFails(c) \/ ReadBad(c) \/ OpenFails(c) \/ StatRefused(c)
           \/ ForkFails(c) \/ SendLast(c) \/ SendFails(c) \/ Hangup(c) \/ ClientPidfd(c)
  <2>1. /\ c \in clients /\ proc[c] # "running" /\ Returns
        /\ UNCHANGED <<queue, proc>>
      BY <1>5, Drops
  <2>2. PICK told \in SUBSET {c} : Disconnect({c}, told) /\ (told # {} => net[c].said = "nothing")
      BY <1>5, Drops
  <2>3. \A b \in Conns \ {c} : ~LooksUp(b)
    <3>1. cur = <<"socket", c>> \/ cur = <<"pidfd", c>>
        BY <1>5 DEF ReadEnd, ReadFails, ReadBad, OpenFails, StatRefused, ForkFails, SendLast,
                    SendFails, Hangup, ClientPidfd, In
    <3> QED
        BY <3>1, IdsDiffer DEF LooksUp
  <2>4. {c} \in SUBSET clients
      BY <2>1
  <2> QED
      BY <2>1, <2>2, <2>3, <2>4, DisconnectStep
<1> QED
    BY <1>2, <1>3, <1>4, <1>5

(* The outside, and exit().                                                *)
LEMMA OutsideConnStep ==
    ASSUME WorkerInv, NEW d \in Conns, ServerCleanup \/ OutsideNext \/ UNCHANGED vars
    PROVE  ConnInv(d)'
<1>1. TypeOK /\ ConnInv(d) /\ WhereInv
    BY DEF WorkerInv
<1>2. ASSUME Undisturbed(d), UNCHANGED <<pc, cur>>
      PROVE  ConnInv(d)'
    BY <1>1, <1>2, Frame
<1>3. ASSUME AllClosed, UNCHANGED <<queue, cur>>, queue = {}, cur = NoId,
             (proc' = proc /\ clients = {}) \/ proc' = Killed(CleanupKills)
      PROVE  ConnInv(d)'
  <2>1. /\ d \notin clients' /\ has'[d] = {} /\ open'[d] = {} /\ ev'[d] = {} /\ xfer'[d] = NoXfer
        /\ age'[d] = 0 /\ quiet'[d] = 0
        /\ net'[d] = IF net[d].st = "new" THEN net[d] ELSE Gone(net[d])
        /\ active' = {} /\ pc' = "dead"
      BY <1>3 DEF AllClosed
  <2>2. net[d] \in Connection
      BY <1>1 DEF TypeOK
  <2>3. net'[d].st \in {"new", "gone"} /\ net'[d].said = net[d].said
      BY <2>1, <2>2, ConnectionTypes
  <2>4. net'[d].st = "new" => net[d].st = "new" /\ d \notin clients
      BY <1>1, <2>1, <2>2, ConnectionTypes DEF ConnInv, ClientInv
  <2>5. proc'[d] # "running" /\ (d \notin clients => proc'[d] = proc[d])
    <3>1. d \notin clients => proc[d] # "running"
        BY <1>1 DEF ConnInv, NoClientInv
    <3>2. CASE proc' = proc /\ clients = {}
        BY <3>1, <3>2
    <3>3. CASE proc' = Killed(CleanupKills)
      <4>1. d \in clients /\ proc[d] = "running" => "pidfd" \in has[d]
          BY <1>1 DEF ConnInv, ClientInv
      <4> QED
          BY <3>1, <3>3, <4>1 DEF Killed, CleanupKills
    <3> QED
        BY <1>3, <3>2, <3>3
  <2>6. NoClientInv(d)'
      BY <1>1, <2>1, <2>3, <2>4, <2>5 DEF ConnInv, NoClientInv
  <2> QED
      BY <1>1, <1>3, <2>1, <2>3, <2>6, IdsDiffer
      DEF ConnInv, RegistrationInv, LookupInv, LooksUp, EventInv
<1>4. pc \in {"setup", "wait", "exit", "dead"} => queue = {} /\ cur = NoId
  <2>1. cur \in Ids \cup {NoId} /\ cur[1] = Callback
      BY <1>1 DEF WhereInv, TypeOK
  <2> QED
      BY <1>1, <2>1, IdKinds DEF WhereInv, Callback, ClientSteps
<1>5. CASE ServerCleanup
    BY <1>3, <1>4, <1>5 DEF ServerCleanup
<1>6. CASE SigTerm
  <2>1. CASE "sigfd" \in core
    <3>1. Undisturbed(d) /\ UNCHANGED <<pc, cur>>
        BY <1>6, <2>1 DEF SigTerm, Undisturbed, clientvars, loopvars, clockvars
    <3> QED
        BY <1>2, <3>1
  <2>2. CASE "sigfd" \notin core
    <3>1. pc \in {"setup", "exit", "dead"} /\ clients = {}
        BY <1>1, <2>2 DEF WhereInv
    <3> QED
        BY <1>3, <1>4, <1>6, <2>2, <3>1 DEF SigTerm
  <2> QED
      BY <2>1, <2>2
<1>7. ASSUME NEW c \in Conns, Connect(c)
      PROVE  ConnInv(d)'
  <2>1. /\ net[c].st = "new" /\ net' = [net EXCEPT ![c].st = "backlog"]
        /\ UNCHANGED <<pc, cur, clients, has, open, xfer, active, queue, ev, proc, age, quiet>>
      BY <1>7 DEF Connect, clientvars, loopvars, clockvars
  <2>2. CASE d # c
    <3>1. Undisturbed(d)
        BY <1>1, <2>1, <2>2 DEF Undisturbed, TypeOK
    <3> QED
        BY <1>2, <2>1, <3>1
  <2>3. CASE d = c
    <3>1. d \notin clients /\ NoClientInv(d)
        BY <1>1, <2>1, <2>3 DEF ConnInv, ClientInv
    <3>2. net'[d].st = "backlog" /\ net'[d].said = net[d].said
        BY <1>1, <2>1, <2>3 DEF TypeOK, Connection
    <3>3. <<"socket", d>> \notin queue
        BY <1>1, <2>1, <2>3 DEF ConnInv, RegistrationInv
    <3>4. RegistrationInv(d)' /\ LookupInv(d)'
        BY <1>1, <2>1, <3>3 DEF ConnInv, RegistrationInv, LookupInv, LooksUp
    <3>5. NoClientInv(d)'
        BY <2>1, <2>3, <3>1, <3>2 DEF NoClientInv
    <3>6. EventInv(d)'
        BY <1>1, <2>1, <3>1, <3>3 DEF ConnInv, RegistrationInv, EventInv, NoClientInv
    <3> QED
        BY <1>1, <2>1, <3>1, <3>2, <3>4, <3>5, <3>6 DEF ConnInv
  <2> QED
      BY <2>2, <2>3
<1>8. ASSUME NEW c \in Conns, NEW r \in Connection, PeerActs(c, r),
             r.st = net[c].st, r.mask = net[c].mask, r.said = net[c].said
      PROVE  ConnInv(d)'
  <2>1. net'[d].st = net[d].st /\ net'[d].mask = net[d].mask /\ net'[d].said = net[d].said
      BY <1>1, <1>8, ConnectionTypes DEF PeerActs, TypeOK
  <2>2. Undisturbed(d) /\ UNCHANGED <<pc, cur>>
      BY <1>8, <2>1 DEF PeerActs, Undisturbed, clientvars, loopvars, clockvars
  <2> QED
      BY <1>2, <2>2
<1>9. ASSUME NEW c \in Conns,
             \/ PeerCloses(c) \/ PeerResets(c) \/ PeerReads(c)
             \/ \E what \in PeerMay \cap RequestKinds : PeerSends(c, what)
      PROVE  ConnInv(d)'
  <2> DEFINE Same(r) == /\ r \in Connection
                        /\ r.st = net[c].st /\ r.mask = net[c].mask /\ r.said = net[c].said
  <2>1. net[c] \in Connection
      BY <1>1 DEF TypeOK
  <2>2. /\ \A end \in {"fin", "rst"} : Same([net[c] EXCEPT !.end = end])
        /\ Same([net[c] EXCEPT !.room = TRUE])
        /\ \A rx \in RequestKinds : Same([net[c] EXCEPT !.rx = rx])
      BY <2>1 DEF Connection
  <2>3. ASSUME NEW r, Same(r), PeerActs(c, r)
        PROVE  ConnInv(d)'
      BY <1>8, <2>3
  <2> HIDE DEF Same
  <2>4. CASE PeerCloses(c)
      BY <2>2, <2>3, <2>4 DEF PeerCloses
  <2>5. CASE PeerResets(c)
      BY <2>2, <2>3, <2>5 DEF PeerResets
  <2>6. CASE PeerReads(c)
      BY <2>2, <2>3, <2>6 DEF PeerReads
  <2>7. ASSUME NEW what \in PeerMay \cap RequestKinds, PeerSends(c, what)
        PROVE  ConnInv(d)'
      BY <2>2, <2>3, <2>7 DEF PeerSends
  <2> QED
      BY <1>9, <2>4, <2>5, <2>6, <2>7
<1>10. ASSUME NEW c \in Conns, CgiWrites(c)
       PROVE  ConnInv(d)'
  <2>1. /\ proc[c] = "running" /\ net[c].st = "accepted"
        /\ net' = [net EXCEPT ![c].said = IF @ \in {"nothing", "cgi"} THEN "cgi" ELSE "mixed"]
        /\ quiet' = [quiet EXCEPT ![c] = 0]
        /\ UNCHANGED <<pc, cur, clients, has, open, xfer, active, queue, ev, proc, age>>
      BY <1>10 DEF CgiWrites, clientvars, loopvars
  <2>2. CASE d # c
    <3>1. Undisturbed(d)
        BY <1>1, <2>1, <2>2 DEF Undisturbed, TypeOK
    <3> QED
        BY <1>2, <2>1, <3>1
  <2>3. CASE d = c
    <3>1. d \in clients /\ ClientInv(d) /\ "pidfd" \in has[d]
        BY <1>1, <2>1, <2>3 DEF ConnInv, NoClientInv, ClientInv
    <3>2. net[d] \in Connection
        BY <1>1 DEF TypeOK
    <3>3. net[d].mask = "none" /\ net[d].said \in {"nothing", "cgi"}
        BY <2>1, <2>3, <3>1, <3>2 DEF ClientInv, Connection
    <3>4. net'[d].st = net[d].st /\ net'[d].mask = net[d].mask /\ net'[d].said = "cgi"
        BY <1>1, <2>1, <2>3, <3>2, <3>3 DEF TypeOK, Connection
    <3>5. RegistrationInv(d)' /\ LookupInv(d)' /\ EventInv(d)'
        BY <1>1, <2>1, <3>4 DEF ConnInv, RegistrationInv, LookupInv, LooksUp, EventInv
    <3>6. ClientInv(d)'
        BY <2>1, <3>1, <3>3, <3>4 DEF ClientInv
    <3> QED
        BY <1>1, <2>1, <3>1, <3>4, <3>5, <3>6 DEF ConnInv
  <2> QED
      BY <2>2, <2>3
<1>11. ASSUME NEW c \in Conns, CgiEnds(c) \/ Truncate(c)
       PROVE  ConnInv(d)'
  <2>1. UNCHANGED <<pc, cur, clients, has, open, xfer, active, queue, ev, age, quiet>>
      BY <1>11 DEF CgiEnds, Truncate, clientvars, loopvars, clockvars
  <2>2. net'[d].st = net[d].st /\ net'[d].mask = net[d].mask /\ net'[d].said = net[d].said
      BY <1>1, <1>11, SMTT(30) DEF CgiEnds, Truncate, TypeOK, Connection
  <2>3. \/ proc'[d] = proc[d]
        \/ proc[d] \in {"running", "dying"} /\ proc'[d] \in {"dying", "exited"}
      BY <1>1, <1>11 DEF CgiEnds, Truncate, TypeOK
  <2>4. Undisturbed(d)
      BY <2>1, <2>2, <2>3 DEF Undisturbed
  <2> QED
      BY <1>2, <2>1, <2>4
<1>12. CASE Tick
  <2>1. d \notin clients => age'[d] = age[d] /\ quiet'[d] = quiet[d]
      BY <1>1, <1>12 DEF Tick, Older, TypeOK
  <2>2. Undisturbed(d) /\ UNCHANGED <<pc, cur>>
      BY <1>12, <2>1 DEF Tick, Undisturbed, clientvars, loopvars
  <2> QED
      BY <1>2, <2>2
<1>13. CASE UNCHANGED vars
  <2>1. Undisturbed(d) /\ UNCHANGED <<pc, cur>>
      BY <1>13 DEF vars, clientvars, loopvars, clockvars, Undisturbed
  <2> QED
      BY <1>2, <2>1
<1> QED
    BY <1>5, <1>6, <1>7, <1>9, <1>10, <1>11, <1>12, <1>13 DEF OutsideNext

(* A worker starts with nothing open and nobody connected.                 *)
LEMMA InitInv == Init => WorkerInv
<1> SUFFICES ASSUME Init PROVE WorkerInv
    OBVIOUS
<1>1. TypeOK
  <2>1. 0 \in 0..MaxClients /\ 0 \in 0..MaxFile /\ 0 \in 0..2 * Timeout /\ Timeout \in 1..Timeout
      BY ParamsAssumption
  <2>2. Fresh \in Connection
      BY <2>1 DEF Fresh, Connection
  <2>3. NoXfer \in [size : 0..MaxFile, sent : 0..MaxFile]
      BY <2>1 DEF NoXfer
  <2> QED
      BY <2>1, <2>2, <2>3 DEF Init, TypeOK
<1>2. WhereInv
    BY DEF Init, WhereInv, Callback, ClientSteps, NoId
<1>3. CountMatches
    BY FS_EmptySet, ParamsAssumption DEF Init, CountMatches
<1>4. ASSUME NEW c \in Conns
      PROVE  ConnInv(c)
    BY <1>4, IdsDiffer
    DEF Init, ConnInv, RegistrationInv, NoClientInv, LookupInv, LooksUp, EventInv, Fresh
<1> QED
    BY <1>1, <1>2, <1>3, <1>4 DEF WorkerInv

(* No step of the worker or of the outside breaks the invariant.           *)
LEMMA NextInv ==
    ASSUME WorkerInv, [Next]_vars
    PROVE  WorkerInv'
<1>1. TypeOK' /\ WhereInv' /\ CountMatches'
    BY TypeStep, WhereStep, CountStep
<1>2. ASSUME NEW d \in Conns
      PROVE  ConnInv(d)'
  <2>1. CASE \/ \E s \in {"directory", "sigfd", "timerfd", "socket", "loop"} : Setup(s)
             \/ SetupFails \/ \E deaf \in SUBSET CoreIds : EnterLoop(deaf)
             \/ \E R \in Batches : Collect(R)
             \/ \E id \in queue : Dispatch(id)
             \/ EndBatch \/ WaitFails
             \/ ServerSignal \/ \E blind \in SUBSET clients : ServerTimer(blind)
             \/ AcceptNext
      BY <2>1, LoopConnStep
  <2>2. CASE ReadNext \/ SendNext \/ \E c \in Conns : Hangup(c) \/ HangupKills(c) \/ ClientPidfd(c)
    <3>1. PICK c \in Conns :
             \/ ReadRequest(c) \/ OpenFile(c) \/ StatRegular(c) \/ StatDirectory(c)
             \/ \E size \in 0..MaxFile : StartFile(c, size)
             \/ \E execs, registered \in BOOLEAN : StartCgi(c, execs, registered)
             \/ \E n \in 1..MaxFile : SendSome(c, n)
             \/ SendNothing(c) \/ SendBlocks(c) \/ HangupKills(c)
             \/ ReadEnd(c) \/ ReadFails(c) \/ ReadBad(c) \/ OpenFails(c) \/ StatRefused(c)
             \/ ForkFails(c) \/ SendLast(c) \/ SendFails(c) \/ Hangup(c) \/ ClientPidfd(c)
        BY <2>2 DEF ReadNext, SendNext
    <3> QED
        BY <3>1, LookupConnStep, StartConnStep, AnswerConnStep
  <2>3. CASE ServerCleanup \/ OutsideNext \/ UNCHANGED vars
      BY <2>3, OutsideConnStep
  <2> QED
      BY <2>1, <2>2, <2>3 DEF Next, WorkerNext
<1> QED
    BY <1>1, <1>2 DEF WorkerInv

(* The invariant holds of every behaviour.                                 *)
THEOREM Invariance == Spec => []WorkerInv
<1>1. WorkerInv /\ [Next]_vars => WorkerInv'
    BY NextInv
<1> QED
    BY <1>1, InitInv, PTL DEF Spec

(* The variables keep their types: the counter of clients stays within     *)
(* maxClients, ages and the timer within their bounds (server.c:183, 688,  *)
(* 722).                                                                   *)
THEOREM TypeCorrect == Spec => []TypeOK
<1>1. WorkerInv => TypeOK
    BY DEF WorkerInv
<1> QED
    BY <1>1, Invariance, PTL

(* server->numClients is the length of server->clients at every step of    *)
(* every callback, and the limit holds (server.c:183, 688, 722).           *)
THEOREM CounterMatches == Spec => []CountMatches
<1>1. WorkerInv => CountMatches
    BY DEF WorkerInv
<1> QED
    BY <1>1, Invariance, PTL

(* No descriptor leaks and none is closed twice, whichever error path is   *)
(* taken (server.c:153-184).                                               *)
THEOREM FdsMatch == Spec => []FdsMatchRecords
<1>1. WorkerInv => FdsMatchRecords
    BY DEF WorkerInv, ConnInv, ClientInv, NoClientInv, FdsMatchRecords
<1> QED
    BY <1>1, Invariance, PTL

(* No callback runs for a client that was freed, even if its other         *)
(* registration is what freed it (server.c:167-180).                       *)
THEOREM LiveClients == Spec => []CallsLiveClient
<1>1. ASSUME WorkerInv
      PROVE  CallsLiveClient
  <2>1. \A c \in Conns : RegistrationInv(c)
      BY <1>1 DEF WorkerInv, ConnInv
  <2>2. cur \in Ids \cup {NoId} /\ active \subseteq Ids
      BY <1>1 DEF WorkerInv, TypeOK
  <2>3. \A id \in active \cup {cur} : id[2] \in Conns =>
           id \in {<<"socket", id[2]>>, <<"pidfd", id[2]>>}
      BY <2>2, IdKinds
  <2> QED
      BY <2>1, <2>3 DEF RegistrationInv, CallsLiveClient
<1> QED
    BY <1>1, Invariance, PTL

(* A running CGI program has a client that holds its pidfd, so that the    *)
(* worker can kill it (server.c:643-653, 804-815, 1053-1057).              *)
THEOREM NoOrphans == Spec => []NoOrphanCgi
<1>1. WorkerInv => NoOrphanCgi
    BY DEF WorkerInv, ConnInv, ClientInv, NoClientInv, NoOrphanCgi
<1> QED
    BY <1>1, Invariance, PTL

(* An error menu never follows a part of a file or of the output of a CGI  *)
(* program (server.c:618-622, 819-823).                                    *)
THEOREM RepliesOnce == Spec => []OneReply
<1>1. WorkerInv => OneReply
    BY DEF WorkerInv, ConnInv, OneReply
<1> QED
    BY <1>1, Invariance, PTL

(* What has something to report when it is polled is on the ready list.    *)
LEMMA PolledEdge ==
    ASSUME NEW r \in Connection, Reports(Polled(r)) # {}
    PROVE  Polled(r).edge
<1>1. Reports(r) # {}
    BY ConnectionTypes
<1>2. \A b \in BOOLEAN : [r EXCEPT !.edge = b].edge = b
    BY DEF Connection
<1>3. Polled(r) = [r EXCEPT !.edge = TRUE]
    BY <1>1 DEF Polled
<1> QED
    BY <1>2, <1>3

(* No wakeup of d is lost.                                                 *)
Awake(d) ==
    /\ <<"socket", d>> \in active \ (queue \cup {cur})
    /\ Reports(net[d]) # {}
    /\ "pidfd" \in has[d] => proc[d] = "running"
    => net[d].edge

(* Whatever concerns other connections leaves it so.                       *)
LEMMA WakeFrame ==
    ASSUME NEW d \in Conns, Awake(d),
           <<"socket", d>> \in active' => <<"socket", d>> \in active,
           <<"socket", d>> \in queue \cup {cur} => <<"socket", d>> \in queue' \cup {cur'},
           has'[d] = has[d], proc'[d] = "running" => proc[d] = "running",
           Reports(net'[d]) = Reports(net[d]), net'[d].edge = net[d].edge
    PROVE  Awake(d)'
  BY DEF Awake

(* So does client_disconnect.                                              *)
LEMMA WakeDisconnect ==
    ASSUME NEW d \in Conns, Awake(d), NEW D \in SUBSET Conns, NEW told, Disconnect(D, told),
           told \subseteq D, UNCHANGED queue,
           d \notin D => <<"socket", d>> # cur,
           proc'[d] = "running" => proc[d] = "running"
    PROVE  Awake(d)'
<1>1. CASE d \in D
  <2>1. <<"socket", d>> \notin active'
      BY <1>1 DEF Disconnect, RegistrationsOf
  <2> QED
      BY <2>1 DEF Awake
<1>2. CASE d \notin D
  <2>1. net'[d] = net[d] /\ has'[d] = has[d] /\ active' \subseteq active
      BY <1>2 DEF Disconnect
  <2> QED
      BY <1>2, <2>1, WakeFrame
<1> QED
    BY <1>1, <1>2

(* No step loses a wakeup.                                                 *)
LEMMA WakeStep ==
    ASSUME WorkerInv, [Next]_vars, NEW d \in Conns, Awake(d)
    PROVE  Awake(d)'
<1>1. TypeOK /\ WhereInv /\ ConnInv(d) /\ \A c \in Conns : ConnInv(c)
    BY DEF WorkerInv
<1>2. net[d] \in Connection
    BY <1>1 DEF TypeOK
<1>3. Callback # "socket" => <<"socket", d>> # cur
    BY <1>1 DEF WhereInv
<1>4. <<"socket", d>> \in active => d \in clients /\ ClientInv(d) /\ net[d].st = "accepted"
    BY <1>1 DEF ConnInv, RegistrationInv, ClientInv
<1>5. CASE \/ \E s \in {"directory", "sigfd", "timerfd", "socket", "loop"} : Setup(s)
           \/ SetupFails \/ \E deaf \in SUBSET CoreIds : EnterLoop(deaf)
           \/ ServerCleanup
  <2>1. active' \subseteq CoreIds
      BY <1>1, <1>5
      DEF WhereInv, Setup, SetupFails, EnterLoop, ServerCleanup, AllClosed, loopvars
  <2> QED
      BY <2>1, IdsDiffer DEF Awake
<1>6. ASSUME NEW R, Collect(R)
      PROVE  Awake(d)'
  <2>1. /\ queue' = R /\ queue = {} /\ UNCHANGED <<active, cur, has, proc>>
        /\ net'[d] = IF <<"socket", d>> \in R THEN [net[d] EXCEPT !.edge = FALSE] ELSE net[d]
      BY <1>1, <1>6 DEF Collect, clientvars, WhereInv
  <2>2. CASE <<"socket", d>> \in R
      BY <2>1, <2>2 DEF Awake
  <2>3. CASE <<"socket", d>> \notin R
      BY <2>1, <2>3, WakeFrame
  <2> QED
      BY <2>2, <2>3
<1>7. ASSUME NEW id \in queue, Dispatch(id)
      PROVE  Awake(d)'
  <2>1. /\ queue' = queue \ {id} /\ UNCHANGED <<active, has, proc, net>>
        /\ \/ id \in active /\ cur' = id
           \/ id \notin active /\ cur' = cur
      BY <1>7 DEF Dispatch, Called, clientvars
  <2>2. <<"socket", d>> # cur
      BY <1>3, <1>7 DEF Dispatch, Callback, ClientSteps
  <2> QED
      BY <2>1, <2>2 DEF Awake
<1>8. CASE EndBatch \/ WaitFails \/ ServerSignal \/ AcceptBlocks \/ AcceptFails
  <2>1. UNCHANGED <<active, queue, has, proc, net>>
      BY <1>8 DEF EndBatch, WaitFails, ServerSignal, AcceptBlocks, AcceptFails, clientvars, loopvars
  <2>2. <<"socket", d>> # cur
      BY <1>3, <1>8
      DEF EndBatch, WaitFails, ServerSignal, AcceptBlocks, AcceptFails, Callback, ClientSteps
  <2> QED
      BY <2>1, <2>2, WakeFrame
<1>9. ASSUME NEW blind \in SUBSET clients, ServerTimer(blind)
      PROVE  Awake(d)'
  <2>1. PICK D \in SUBSET clients : \E told \in SUBSET D : \E kill \in SUBSET clients :
              Disconnect(D, told) /\ proc' = Killed(kill)
      BY <1>9, Expires
  <2>2. proc'[d] = "running" => proc[d] = "running"
      BY <2>1 DEF Killed
  <2>3. <<"socket", d>> # cur /\ UNCHANGED queue
      BY <1>3, <1>9 DEF ServerTimer, Callback, ClientSteps
  <2>4. D \in SUBSET Conns
      BY <1>1, <2>1 DEF TypeOK
  <2> QED
      BY <2>1, <2>2, <2>3, <2>4, WakeDisconnect
<1>10. ASSUME NEW c \in Conns, AcceptFull(c) \/ AcceptNoMemory(c)
       PROVE  Awake(d)'
  <2>1. /\ net[c].st = "backlog" /\ net' = [net EXCEPT ![c] = Gone(Told(net[c]))]
        /\ UNCHANGED <<active, queue, cur, has, proc>>
      BY <1>10
      DEF AcceptFull, AcceptNoMemory, AtListener, Backlog, TurnAway, clientvars, loopvars
  <2>2. <<"socket", d>> \in active => net'[d] = net[d]
      BY <1>1, <1>4, <2>1 DEF TypeOK
  <2> QED
      BY <2>1, <2>2 DEF Awake
<1>11. ASSUME NEW c \in Conns, NEW registered \in BOOLEAN, AcceptClient(c, registered)
       PROVE  Awake(d)'
  <2>1. /\ net[c].st = "backlog"
        /\ net' = [net EXCEPT ![c] = Polled([net[c] EXCEPT !.st = "accepted", !.mask = "in"])]
        /\ active' \in {active, active \cup {<<"socket", c>>}}
        /\ UNCHANGED <<queue, cur, has, proc>>
      BY <1>11 DEF AcceptClient, AtListener, Backlog, AcceptLoops
  <2>2. CASE d # c
    <3>1. net'[d] = net[d]
        BY <1>1, <2>1, <2>2 DEF TypeOK
    <3>2. <<"socket", d>> \in active' => <<"socket", d>> \in active
        BY <2>1, <2>2, IdsDiffer
    <3> QED
        BY <2>1, <3>1, <3>2, WakeFrame
  <2>3. CASE d = c
    <3>1. [net[c] EXCEPT !.st = "accepted", !.mask = "in"] \in Connection
        BY <1>2, <2>3, ConnectionFields
    <3>2. net'[d] = Polled([net[c] EXCEPT !.st = "accepted", !.mask = "in"])
        BY <1>1, <2>1, <2>3 DEF TypeOK
    <3>3. Reports(net'[d]) # {} => net'[d].edge
        BY <3>1, <3>2, PolledEdge
    <3> QED
        BY <3>3 DEF Awake
  <2> QED
      BY <2>2, <2>3
<1>12. ASSUME NEW c \in Conns,
              \/ ReadRequest(c) \/ OpenFile(c) \/ StatRegular(c) \/ StatDirectory(c)
              \/ \E n \in 1..MaxFile : SendSome(c, n)
              \/ SendNothing(c)
       PROVE  Awake(d)'
  <2>1. cur = <<"socket", c>> /\ cur' = cur /\ UNCHANGED <<active, queue, proc>>
      BY <1>12
      DEF ReadRequest, OpenFile, StatRegular, StatDirectory, SendSome, SendNothing, SendLoops,
          In, loopvars, vars
  <2>2. d # c => has'[d] = has[d] /\ net'[d] = net[d]
      BY <1>1, <1>12, ZenonT(60)
      DEF ReadRequest, OpenFile, StatRegular, StatDirectory, SendSome, SendNothing,
          clientvars, vars, TypeOK
  <2>3. CASE d = c
      BY <2>1, <2>3 DEF Awake
  <2>4. CASE d # c
      BY <2>1, <2>2, <2>4, WakeFrame
  <2> QED
      BY <2>3, <2>4
<1>13. ASSUME NEW c \in Conns, NEW r \in Connection,
              cur = <<"socket", c>>, net' = [net EXCEPT ![c] = Polled(r)],
              active' \in {active, active \cup {<<"pidfd", c>>}}, UNCHANGED queue,
              \A b \in Conns \ {c} : has'[b] = has[b] /\ proc'[b] = proc[b]
       PROVE  Awake(d)'
  <2>1. CASE d = c
    <3>1. Reports(net'[d]) # {} => net'[d].edge
      <4>1. net'[d] = Polled(r)
          BY <1>1, <1>13, <2>1 DEF TypeOK
      <4> QED
          BY <4>1, PolledEdge
    <3> QED
        BY <3>1 DEF Awake
  <2>2. CASE d # c
      BY <1>1, <1>13, <2>2, IdsDiffer, WakeFrame DEF TypeOK
  <2> QED
      BY <2>1, <2>2
<1>14. ASSUME NEW c \in Conns, NEW size \in 0..MaxFile, StartFile(c, size)
       PROVE  Awake(d)'
  <2>1. [net[c] EXCEPT !.mask = FileMask, !.len = size] \in Connection
      BY <1>1, ConnectionFields DEF FileMask, TypeOK
  <2>2. /\ cur = <<"socket", c>> /\ UNCHANGED <<active, queue>>
        /\ net' = [net EXCEPT ![c] = Polled([net[c] EXCEPT !.mask = FileMask, !.len = size])]
      BY <1>14 DEF StartFile, In
  <2>3. \A b \in Conns \ {c} : has'[b] = has[b] /\ proc'[b] = proc[b]
      BY <1>1, <1>14 DEF StartFile, TypeOK
  <2> QED
      BY <1>13, <2>1, <2>2, <2>3
<1>15. ASSUME NEW c \in Conns, NEW execs \in BOOLEAN, NEW registered \in BOOLEAN,
              StartCgi(c, execs, registered)
       PROVE  Awake(d)'
  <2> DEFINE r == [net[c] EXCEPT !.mask = CgiMask]
  <2>1. r \in Connection /\ Told(r) \in Connection
      BY <1>1, ConnectionFields, ConnectionTypes DEF CgiMask, TypeOK
  <2>2. /\ cur = <<"socket", c>> /\ active' \in {active, active \cup {<<"pidfd", c>>}}
        /\ UNCHANGED queue
        /\ net' = [net EXCEPT ![c] = Polled(IF execs THEN r ELSE Told(r))]
      BY <1>15 DEF StartCgi, In
  <2>3. \A b \in Conns \ {c} : has'[b] = has[b] /\ proc'[b] = proc[b]
      BY <1>1, <1>15 DEF StartCgi, TypeOK
  <2> HIDE DEF r
  <2>4. CASE execs
      BY <1>13, <2>1, <2>2, <2>3, <2>4
  <2>5. CASE ~execs
      BY <1>13, <2>1, <2>2, <2>3, <2>5
  <2> QED
      BY <2>4, <2>5
<1>16. ASSUME NEW c \in Conns, SendBlocks(c) \/ HangupKills(c)
       PROVE  Awake(d)'
  <2>1. /\ cur = <<"socket", c>> /\ UNCHANGED <<active, queue, has, net>>
        /\ cur' \in {cur, NoId}
      BY <1>16 DEF SendBlocks, HangupKills, In, AfterOut, Returns, clientvars
  <2>2. proc'[d] = "running" => proc[d] = "running"
      BY <1>16 DEF SendBlocks, HangupKills, Killed
  <2>3. CASE d # c
      BY <2>1, <2>2, <2>3, IdsDiffer, WakeFrame
  <2>4. CASE d = c /\ SendBlocks(c)
    <3>1. net[d].mask = "out"
        BY <1>1, <2>4 DEF SendBlocks, In, ConnInv, EventInv
    <3>2. Reports(net[d]) = {}
        BY <1>2, <2>4, <3>1 DEF SendBlocks, Reports, Connection
    <3> QED
        BY <2>1, <3>2 DEF Awake
  <2>5. CASE d = c /\ HangupKills(c)
    <3>1. "pidfd" \in has[d] /\ proc'[d] # "running"
        BY <1>1, <2>5 DEF HangupKills, Killed
    <3> QED
        BY <2>1, <3>1 DEF Awake
  <2> QED
      BY <1>16, <2>3, <2>4, <2>5
<1>17. ASSUME NEW c \in Conns,
              \/ ReadEnd(c) \/ ReadFails(c) \/ ReadBad(c) \/ OpenFails(c) \/ StatRefused(c)
              \/ ForkFails(c) \/ SendLast(c) \/ SendFails(c) \/ Hangup(c) \/ ClientPidfd(c)
       PROVE  Awake(d)'
  <2>1. UNCHANGED <<queue, proc>>
      BY <1>17, Drops
  <2>2. PICK told \in SUBSET {c} : Disconnect({c}, told)
      BY <1>17, Drops
  <2>3. cur = <<"socket", c>> \/ cur = <<"pidfd", c>>
      BY <1>17 DEF ReadEnd, ReadFails, ReadBad, OpenFails, StatRefused, ForkFails, SendLast,
                   SendFails, Hangup, ClientPidfd, In
  <2>4. d \notin {c} => <<"socket", d>> # cur
      BY <2>3, IdsDiffer
  <2> QED
      BY <2>1, <2>2, <2>4, WakeDisconnect
<1>18. ASSUME NEW c \in Conns, Connect(c)
       PROVE  Awake(d)'
  <2>1. /\ net[c].st = "new" /\ net' = [net EXCEPT ![c].st = "backlog"]
        /\ UNCHANGED <<active, queue, cur, has, proc>>
      BY <1>18 DEF Connect, clientvars, loopvars
  <2>2. <<"socket", d>> \in active => net'[d] = net[d]
      BY <1>1, <1>4, <2>1 DEF TypeOK
  <2> QED
      BY <2>1, <2>2 DEF Awake
<1>19. ASSUME NEW c \in Conns, NEW r \in Connection, PeerActs(c, r)
       PROVE  Awake(d)'
  <2>1. /\ net' = [net EXCEPT ![c] = IF <<"socket", c>> \in active THEN Polled(r) ELSE r]
        /\ UNCHANGED <<active, queue, cur, has, proc>>
      BY <1>19 DEF PeerActs, clientvars, loopvars
  <2>2. CASE d # c
      BY <1>1, <2>1, <2>2, WakeFrame DEF TypeOK
  <2>3. CASE d = c
    <3>1. <<"socket", d>> \in active => net'[d] = Polled(r)
        BY <1>1, <2>1, <2>3 DEF TypeOK
    <3>2. <<"socket", d>> \in active /\ Reports(net'[d]) # {} => net'[d].edge
        BY <1>19, <3>1, PolledEdge
    <3> QED
        BY <2>1, <3>2 DEF Awake
  <2> QED
      BY <2>2, <2>3
<1>20. ASSUME NEW c \in Conns,
              \/ PeerCloses(c) \/ PeerResets(c) \/ PeerReads(c)
              \/ \E what \in PeerMay \cap RequestKinds : PeerSends(c, what)
       PROVE  Awake(d)'
  <2>1. net[c] \in Connection
      BY <1>1 DEF TypeOK
  <2>2. CASE PeerCloses(c) \/ PeerResets(c) \/ PeerReads(c)
      BY <1>19, <2>1, <2>2, ConnectionFields DEF PeerCloses, PeerResets, PeerReads
  <2>3. ASSUME NEW what \in PeerMay \cap RequestKinds, PeerSends(c, what)
        PROVE  Awake(d)'
      BY <1>19, <2>1, <2>3, ConnectionFields DEF PeerSends
  <2> QED
      BY <1>20, <2>2, <2>3
<1>21. ASSUME NEW c \in Conns, CgiWrites(c) \/ Truncate(c)
       PROVE  Awake(d)'
  <2>1. UNCHANGED <<active, queue, cur, has, proc>>
      BY <1>21 DEF CgiWrites, Truncate, clientvars, loopvars
  <2>2. CASE d # c
    <3>1. net'[d] = net[d]
        BY <1>1, <1>21, <2>2 DEF CgiWrites, Truncate, TypeOK
    <3> QED
        BY <2>1, <3>1, WakeFrame
  <2>3. CASE d = c
    <3>1. \/ net'[d] = [net[d] EXCEPT !.said = IF @ \in {"nothing", "cgi"} THEN "cgi" ELSE "mixed"]
          \/ net'[d] = [net[d] EXCEPT !.len = @ - 1]
        BY <1>1, <1>21, <2>3 DEF CgiWrites, Truncate, TypeOK
    <3>2. /\ net'[d].mask = net[d].mask /\ net'[d].rx = net[d].rx /\ net'[d].end = net[d].end
          /\ net'[d].room = net[d].room /\ net'[d].edge = net[d].edge
        BY <1>2, <3>1 DEF Connection
    <3>3. Reports(net'[d]) = Reports(net[d])
        BY <3>2 DEF Reports
    <3> QED
        BY <2>1, <3>2, <3>3, WakeFrame
  <2> QED
      BY <2>2, <2>3
<1>22. ASSUME NEW c \in Conns, CgiEnds(c)
       PROVE  Awake(d)'
  <2>1. UNCHANGED <<active, queue, cur, has, net>> /\ (proc'[d] = "running" => proc[d] = "running")
      BY <1>1, <1>22 DEF CgiEnds, clientvars, loopvars, TypeOK
  <2> QED
      BY <2>1, WakeFrame
<1>23. CASE SigTerm
  <2>1. CASE "sigfd" \in core
    <3>1. UNCHANGED <<active, queue, cur, has, proc, net>>
        BY <1>23, <2>1 DEF SigTerm, clientvars, loopvars
    <3> QED
        BY <3>1, WakeFrame
  <2>2. CASE "sigfd" \notin core
      BY <1>23, <2>2 DEF SigTerm, AllClosed, Awake
  <2> QED
      BY <2>1, <2>2
<1>24. CASE Tick \/ UNCHANGED vars
  <2>1. UNCHANGED <<active, queue, cur, has, proc, net>>
      BY <1>24 DEF Tick, vars, clientvars, loopvars
  <2> QED
      BY <2>1, WakeFrame
<1> QED
    BY <1>5, <1>6, <1>7, <1>8, <1>9, <1>10, <1>11, <1>12, <1>14, <1>15, <1>16, <1>17, <1>18,
       <1>20, <1>21, <1>22, <1>23, <1>24
    DEF Next, WorkerNext, OutsideNext, AcceptNext, ReadNext, SendNext

(* Edge-triggered events are not lost: whatever could be done for a client *)
(* is on epoll's ready list, in the batch or being done (server.c:223-255, *)
(* 602-629, 643-648).                                                      *)
THEOREM WakeupsKept == Spec => []NoLostWakeup
<1>1. NoLostWakeup <=> \A d \in Conns : Awake(d)
    BY DEF NoLostWakeup, Awake
<1>2. Init => NoLostWakeup
    BY <1>1 DEF Init, Awake
<1>3. WorkerInv /\ NoLostWakeup /\ [Next]_vars => NoLostWakeup'
  <2>1. ASSUME WorkerInv, NoLostWakeup, [Next]_vars
        PROVE  NoLostWakeup'
    <3>1. \A d \in Conns : Awake(d)'
        BY <1>1, <2>1, WakeStep
    <3> QED
        BY <3>1 DEF NoLostWakeup, Awake
  <2> QED
      BY <2>1
<1> QED
    BY <1>2, <1>3, Invariance, PTL DEF Spec

(***************************************************************************)
(* The worker uses its event loop as EventLoop.tla allows.                 *)
(***************************************************************************)

(* A step that takes no event from the batch is a change of registrations, *)
(* provided it adds none that the batch or the callback still refers to.   *)
LEMMA Changes ==
    ASSUME active' \subseteq Ids, (active' \ active) \cap (queue \cup {cur}) = {},
           cur' \in {cur, NoId}, UNCHANGED queue
    PROVE  EL!ELNext
<1>1. EL!Change
    BY DEF EL!Change
<1> QED
    BY <1>1 DEF EL!ELNext

(* The registrations a step adds are new to the batch: a connection in the *)
(* backlog has none there, nor has a client without a CGI program one of   *)
(* its pidfd.                                                              *)
LEMMA AddsNew ==
    ASSUME WorkerInv,
           \/ \E deaf \in SUBSET CoreIds : EnterLoop(deaf)
           \/ \E c \in Conns : \E registered \in BOOLEAN : AcceptClient(c, registered)
           \/ \E c \in Conns : \E execs, registered \in BOOLEAN : StartCgi(c, execs, registered)
    PROVE  /\ (active' \ active) \cap (queue \cup {cur}) = {}
           /\ cur' \in {cur, NoId}
           /\ UNCHANGED queue
<1>1. TypeOK /\ WhereInv /\ \A c \in Conns : ConnInv(c)
    BY DEF WorkerInv
<1>2. ASSUME NEW deaf \in SUBSET CoreIds, EnterLoop(deaf)
      PROVE  /\ (active' \ active) \cap (queue \cup {cur}) = {}
             /\ cur' \in {cur, NoId}
             /\ UNCHANGED queue
  <2>1. queue = {} /\ cur[1] = "none"
      BY <1>1, <1>2 DEF WhereInv, EnterLoop, Callback, ClientSteps
  <2>2. cur \notin CoreIds
      BY <2>1 DEF CoreIds
  <2> QED
      BY <1>2, <2>1, <2>2 DEF EnterLoop
<1>3. ASSUME NEW c \in Conns, NEW registered \in BOOLEAN, AcceptClient(c, registered)
      PROVE  /\ (active' \ active) \cap (queue \cup {cur}) = {}
             /\ cur' \in {cur, NoId}
             /\ UNCHANGED queue
  <2>1. net[c].st = "backlog" /\ pc = "listen" /\ UNCHANGED <<queue, cur>>
        /\ active' \ active \subseteq {<<"socket", c>>}
      BY <1>3 DEF AcceptClient, AtListener, Backlog, AcceptLoops
  <2>2. <<"socket", c>> \notin queue
      BY <1>1, <2>1 DEF ConnInv, RegistrationInv
  <2>3. <<"socket", c>> # cur
      BY <1>1, <2>1 DEF WhereInv, Callback, ClientSteps
  <2> QED
      BY <2>1, <2>2, <2>3
<1>4. ASSUME NEW c \in Conns, NEW execs \in BOOLEAN, NEW registered \in BOOLEAN,
             StartCgi(c, execs, registered)
      PROVE  /\ (active' \ active) \cap (queue \cup {cur}) = {}
             /\ cur' \in {cur, NoId}
             /\ UNCHANGED queue
  <2>1. /\ cur = <<"socket", c>> /\ pc = "exec" /\ cur' \in {cur, NoId} /\ UNCHANGED queue
        /\ active' \ active \subseteq {<<"pidfd", c>>}
      BY <1>4 DEF StartCgi, In, AfterIn, AfterOut, Returns
  <2>2. net[c].mask = "in" /\ c \in clients /\ ClientInv(c)
      BY <1>1, <2>1, Running DEF WorkerInv, EventInv, ClientSteps
  <2>3. <<"pidfd", c>> \notin queue
      BY <1>1, <2>2 DEF ClientInv, ConnInv, RegistrationInv
  <2>4. <<"pidfd", c>> # cur
      BY <2>1, IdsDiffer
  <2> QED
      BY <2>1, <2>3, <2>4
<1> QED
    BY <1>2, <1>3, <1>4

(* Every step is one of the event loop, or none.                           *)
LEMMA StepRefines ==
    ASSUME WorkerInv, [Next]_vars
    PROVE  [EL!ELNext]_(EL!elvars)
<1>1. TypeOK /\ WhereInv /\ active' \subseteq Ids
    BY TypeStep DEF WorkerInv, TypeOK
<1>2. ASSUME active' \subseteq active, cur' \in {cur, NoId}, UNCHANGED queue
      PROVE  EL!ELNext
    BY <1>1, <1>2, Changes
<1>3. pc \in {"wait", "dispatch"} => cur = NoId
  <2>1. cur \in Ids \cup {NoId} /\ cur[1] = Callback
      BY <1>1 DEF TypeOK, WhereInv
  <2> QED
      BY <2>1, IdKinds DEF Callback, ClientSteps
<1>4. ASSUME NEW R \in Batches, Collect(R)
      PROVE  EL!ELNext
  <2>1. queue = {} /\ cur = NoId /\ queue' = R /\ UNCHANGED <<active, cur>>
      BY <1>1, <1>3, <1>4 DEF Collect, WhereInv
  <2>2. R \subseteq active
      BY DEF Batches, Ready
  <2>3. EL!Collect
      BY <2>1, <2>2 DEF EL!Collect
  <2> QED
      BY <2>3 DEF EL!ELNext
<1>5. ASSUME NEW id \in queue, Dispatch(id)
      PROVE  EL!ELNext
  <2>1. cur = NoId /\ id \in Ids /\ queue' = queue \ {id} /\ UNCHANGED active
      BY <1>1, <1>3, <1>5 DEF Dispatch, TypeOK
  <2>2. CASE id \in active
    <3>1. EL!Deliver(id)
        BY <1>5, <2>1, <2>2 DEF Dispatch, Called, EL!Deliver
    <3> QED
        BY <2>1, <3>1 DEF EL!ELNext
  <2>3. CASE id \notin active
    <3>1. EL!Skip(id)
        BY <1>5, <2>1, <2>3 DEF Dispatch, Called, EL!Skip
    <3> QED
        BY <2>1, <3>1 DEF EL!ELNext
  <2> QED
      BY <2>2, <2>3
<1>6. CASE \/ \E deaf \in SUBSET CoreIds : EnterLoop(deaf)
           \/ \E c \in Conns : \E registered \in BOOLEAN : AcceptClient(c, registered)
           \/ \E c \in Conns : \E execs, registered \in BOOLEAN : StartCgi(c, execs, registered)
    BY <1>1, <1>6, AddsNew, Changes
<1>7. CASE \/ \E d \in {"directory", "sigfd", "timerfd", "socket", "loop"} : Setup(d)
           \/ SetupFails \/ EndBatch \/ WaitFails \/ ServerSignal \/ AcceptBlocks \/ AcceptFails
           \/ \E c \in Conns : AcceptFull(c) \/ AcceptNoMemory(c)
    BY <1>2, <1>7
    DEF Setup, SetupFails, EndBatch, WaitFails, ServerSignal, AcceptBlocks, AcceptFails,
        AcceptFull, AcceptNoMemory, TurnAway, Returns, loopvars
<1>8. ASSUME NEW blind \in SUBSET clients, ServerTimer(blind)
      PROVE  EL!ELNext
    BY <1>2, <1>8 DEF ServerTimer, Disconnect, Returns
<1>9. ASSUME NEW c \in Conns,
             \/ ReadEnd(c) \/ ReadFails(c) \/ ReadBad(c) \/ OpenFails(c) \/ StatRefused(c)
             \/ ForkFails(c) \/ SendLast(c) \/ SendFails(c) \/ Hangup(c) \/ ClientPidfd(c)
      PROVE  EL!ELNext
  <2>1. Returns /\ UNCHANGED queue /\ \E told \in SUBSET {c} : Disconnect({c}, told)
      BY <1>9, Drops
  <2> QED
      BY <1>2, <2>1 DEF Disconnect, Returns
<1>10. ASSUME NEW c \in Conns,
              \/ ReadRequest(c) \/ OpenFile(c) \/ StatRegular(c) \/ StatDirectory(c)
              \/ \E size \in 0..MaxFile : StartFile(c, size)
              \/ \E n \in 1..MaxFile : SendSome(c, n)
              \/ SendNothing(c) \/ SendBlocks(c) \/ HangupKills(c)
       PROVE  EL!ELNext
    BY <1>2, <1>10
    DEF ReadRequest, OpenFile, StatRegular, StatDirectory, StartFile, SendSome, SendLoops,
        SendNothing, SendBlocks, HangupKills, AfterIn, AfterOut, Returns, loopvars, vars
<1>11. CASE ServerCleanup \/ SigTerm
    BY <1>2, <1>11 DEF ServerCleanup, SigTerm, AllClosed, loopvars
<1>12. ASSUME NEW c \in Conns,
              \/ Connect(c) \/ \E what \in PeerMay \cap RequestKinds : PeerSends(c, what)
              \/ PeerCloses(c) \/ PeerResets(c) \/ PeerReads(c)
              \/ CgiWrites(c) \/ CgiEnds(c) \/ Truncate(c)
       PROVE  EL!ELNext
    BY <1>2, <1>12
    DEF Connect, PeerSends, PeerCloses, PeerResets, PeerReads, PeerActs, CgiWrites, CgiEnds,
        Truncate, loopvars
<1>13. CASE Tick \/ UNCHANGED vars
    BY <1>2, <1>13 DEF Tick, loopvars, vars
<1> QED
    BY <1>4, <1>5, <1>6, <1>7, <1>8, <1>9, <1>10, <1>11, <1>12, <1>13
    DEF Next, WorkerNext, OutsideNext, AcceptNext, ReadNext, SendNext

(* The worker never gives the identity of a registration to a new one that *)
(* an event still waiting was not meant for (server.c:153-184, 580, 718,   *)
(* 1186-1188; sepoll.c delivers what EventLoop.tla promises).              *)
THEOREM Refinement == Spec => ImplementsEventLoop
<1>1. Init => EL!ELInit
    BY DEF Init, EL!ELInit
<1>2. WorkerInv /\ [Next]_vars => [EL!ELNext]_(EL!elvars)
    BY StepRefines
<1> QED
    BY <1>1, <1>2, Invariance, PTL DEF Spec, ImplementsEventLoop, EL!ELSpec

(***************************************************************************)
(* The backlog.                                                            *)
(***************************************************************************)

(* Only its arrival puts a connection into the backlog.                    *)
LEMMA BacklogShrinks ==
    ASSUME WorkerInv, [Next]_vars, \A c \in Conns : ~Connect(c)
    PROVE  Backlog' \subseteq Backlog
<1>1. TypeOK /\ \A c \in Conns : ConnInv(c)
    BY DEF WorkerInv
<1>2. ASSUME \A c \in Conns : net'[c].st = net[c].st \/ net'[c].st # "backlog"
      PROVE  Backlog' \subseteq Backlog
    BY <1>2 DEF Backlog
<1>3. ASSUME UNCHANGED net
      PROVE  Backlog' \subseteq Backlog
    BY <1>3 DEF Backlog
<1>4. ASSUME NEW D \in SUBSET Conns, NEW told, Disconnect(D, told)
      PROVE  Backlog' \subseteq Backlog
  <2>1. \A c \in Conns : \/ net'[c] = net[c]
                         \/ net'[c] = Gone(net[c]) \/ net'[c] = Gone(Told(net[c]))
      BY <1>4 DEF Disconnect
  <2>2. \A c \in Conns : Told(net[c]) \in Connection
      BY <1>1, ConnectionTypes DEF TypeOK
  <2>3. \A c \in Conns : Gone(net[c]).st = "gone" /\ Gone(Told(net[c])).st = "gone"
      BY <1>1, <2>2, ConnectionTypes DEF TypeOK
  <2> QED
      BY <1>2, <2>1, <2>3
<1>5. ASSUME NEW c \in Conns, NEW r \in Connection, net' = [net EXCEPT ![c] = r],
             r.st = net[c].st \/ r.st # "backlog"
      PROVE  Backlog' \subseteq Backlog
    BY <1>1, <1>2, <1>5 DEF TypeOK
<1>6. CASE \/ \E d \in {"directory", "sigfd", "timerfd", "socket", "loop"} : Setup(d)
           \/ SetupFails \/ \E deaf \in SUBSET CoreIds : EnterLoop(deaf)
           \/ \E id \in queue : Dispatch(id)
           \/ EndBatch \/ WaitFails \/ ServerSignal \/ AcceptBlocks \/ AcceptFails
           \/ Tick \/ UNCHANGED vars
    BY <1>3, <1>6
    DEF Setup, SetupFails, EnterLoop, Dispatch, EndBatch, WaitFails, ServerSignal,
        AcceptBlocks, AcceptFails, Tick, vars
<1>7. ASSUME NEW R, Collect(R)
      PROVE  Backlog' \subseteq Backlog
  <2>1. \A c \in Conns : net'[c] = net[c] \/ net'[c] = [net[c] EXCEPT !.edge = FALSE]
      BY <1>7 DEF Collect
  <2>2. \A c \in Conns : [net[c] EXCEPT !.edge = FALSE].st = net[c].st
      BY <1>1 DEF TypeOK, Connection
  <2> QED
      BY <1>2, <2>1, <2>2
<1>8. ASSUME NEW blind \in SUBSET clients, ServerTimer(blind)
      PROVE  Backlog' \subseteq Backlog
  <2>1. PICK D \in SUBSET clients : \E told \in SUBSET D : Disconnect(D, told)
      BY <1>8, Expires
  <2>2. D \in SUBSET Conns
      BY <1>1, <2>1 DEF TypeOK
  <2> QED
      BY <1>4, <2>1, <2>2
<1>9. ASSUME NEW c \in Conns,
             \/ ReadEnd(c) \/ ReadFails(c) \/ ReadBad(c) \/ OpenFails(c) \/ StatRefused(c)
             \/ ForkFails(c) \/ SendLast(c) \/ SendFails(c) \/ Hangup(c) \/ ClientPidfd(c)
      PROVE  Backlog' \subseteq Backlog
  <2>1. PICK told \in SUBSET {c} : Disconnect({c}, told)
      BY <1>9, Drops
  <2> QED
      BY <1>4, <2>1
<1>10. ASSUME NEW c \in Conns, AcceptFull(c) \/ AcceptNoMemory(c)
       PROVE  Backlog' \subseteq Backlog
  <2>1. net' = [net EXCEPT ![c] = Gone(Told(net[c]))]
      BY <1>10 DEF AcceptFull, AcceptNoMemory, TurnAway
  <2>2. Told(net[c]) \in Connection
      BY <1>1, ConnectionTypes DEF TypeOK
  <2>3. Gone(Told(net[c])) \in Connection /\ Gone(Told(net[c])).st = "gone"
      BY <2>2, ConnectionTypes
  <2> QED
      BY <1>5, <2>1, <2>3
<1>11. ASSUME NEW c \in Conns, NEW registered \in BOOLEAN, AcceptClient(c, registered)
       PROVE  Backlog' \subseteq Backlog
  <2> DEFINE r == [net[c] EXCEPT !.st = "accepted", !.mask = "in"]
  <2>1. net[c] \in Connection /\ r \in Connection
      BY <1>1, ConnectionFields DEF TypeOK
  <2>2. r.st = "accepted"
      BY <2>1 DEF Connection
  <2>3. net' = [net EXCEPT ![c] = Polled(r)]
      BY <1>11 DEF AcceptClient
  <2>4. Polled(r) \in Connection /\ Polled(r).st = "accepted"
      BY <2>1, <2>2, ConnectionTypes
  <2> QED
      BY <1>5, <2>3, <2>4
<1>12. ASSUME NEW c \in Conns,
              \/ ReadRequest(c) \/ OpenFile(c) \/ StatRegular(c) \/ StatDirectory(c)
              \/ SendNothing(c) \/ SendBlocks(c) \/ HangupKills(c)
              \/ CgiWrites(c) \/ CgiEnds(c) \/ Truncate(c)
       PROVE  Backlog' \subseteq Backlog
  <2>1. CASE \/ OpenFile(c) \/ StatRegular(c) \/ StatDirectory(c)
             \/ SendNothing(c) \/ SendBlocks(c) \/ HangupKills(c) \/ CgiEnds(c)
      BY <1>3, <2>1
      DEF OpenFile, StatRegular, StatDirectory, SendNothing, SendBlocks, HangupKills, CgiEnds, vars
  <2>2. CASE ReadRequest(c) \/ CgiWrites(c) \/ Truncate(c)
    <3>1. ASSUME ReadRequest(c)
          PROVE  \A b \in Conns : net'[b].st = net[b].st
        BY <1>1, <3>1 DEF ReadRequest, TypeOK, Connection
    <3>2. ASSUME CgiWrites(c)
          PROVE  \A b \in Conns : net'[b].st = net[b].st
        BY <1>1, <3>2 DEF CgiWrites, TypeOK, Connection
    <3>3. ASSUME Truncate(c)
          PROVE  \A b \in Conns : net'[b].st = net[b].st
        BY <1>1, <3>3 DEF Truncate, TypeOK, Connection
    <3> QED
        BY <1>2, <2>2, <3>1, <3>2, <3>3
  <2> QED
      BY <1>12, <2>1, <2>2
<1>13. ASSUME NEW c \in Conns, NEW size \in 0..MaxFile, StartFile(c, size)
       PROVE  Backlog' \subseteq Backlog
  <2> DEFINE r == [net[c] EXCEPT !.mask = FileMask, !.len = size]
  <2>1. net[c] \in Connection /\ r \in Connection
      BY <1>1, ConnectionFields DEF FileMask, TypeOK
  <2>2. r.st = net[c].st
      BY <2>1 DEF Connection
  <2>3. net' = [net EXCEPT ![c] = Polled(r)]
      BY <1>13 DEF StartFile
  <2>4. Polled(r) \in Connection /\ Polled(r).st = net[c].st
      BY <2>1, <2>2, ConnectionTypes
  <2> QED
      BY <1>5, <2>3, <2>4
<1>14. ASSUME NEW c \in Conns, NEW execs \in BOOLEAN, NEW registered \in BOOLEAN,
              StartCgi(c, execs, registered)
       PROVE  Backlog' \subseteq Backlog
  <2> DEFINE r == [net[c] EXCEPT !.mask = CgiMask]
  <2>1. net[c] \in Connection /\ r \in Connection
      BY <1>1, ConnectionFields DEF CgiMask, TypeOK
  <2>2. r.st = net[c].st
      BY <2>1 DEF Connection
  <2>3. net' = [net EXCEPT ![c] = Polled(IF execs THEN r ELSE Told(r))]
      BY <1>14 DEF StartCgi
  <2> HIDE DEF r
  <2>4. Told(r) \in Connection /\ Told(r).st = net[c].st
      BY <2>1, <2>2, ConnectionTypes
  <2>5. /\ Polled(r) \in Connection /\ Polled(r).st = net[c].st
        /\ Polled(Told(r)) \in Connection /\ Polled(Told(r)).st = net[c].st
      BY <2>1, <2>4, <2>2, ConnectionTypes
  <2>6. CASE execs
      BY <1>5, <2>3, <2>5, <2>6
  <2>7. CASE ~execs
      BY <1>5, <2>3, <2>5, <2>7
  <2> QED
      BY <2>6, <2>7
<1>15. ASSUME NEW c \in Conns, NEW n \in 1..MaxFile, SendSome(c, n)
       PROVE  Backlog' \subseteq Backlog
  <2>1. PICK room \in BOOLEAN :
           net' = [net EXCEPT ![c].room = room,
                              ![c].said = IF @ \in {"nothing", "file"} THEN "file" ELSE "mixed"]
      BY <1>15 DEF SendSome
  <2>2. \A b \in Conns : net'[b].st = net[b].st
      BY <1>1, <2>1 DEF TypeOK, Connection
  <2> QED
      BY <1>2, <2>2
<1>16. ASSUME NEW c \in Conns, NEW r \in Connection, PeerActs(c, r), r.st = net[c].st
       PROVE  Backlog' \subseteq Backlog
  <2>1. Polled(r) \in Connection /\ Polled(r).st = net[c].st
      BY <1>16, ConnectionTypes
  <2>2. CASE <<"socket", c>> \in active
      BY <1>5, <1>16, <2>1, <2>2 DEF PeerActs
  <2>3. CASE <<"socket", c>> \notin active
      BY <1>5, <1>16, <2>3 DEF PeerActs
  <2> QED
      BY <2>2, <2>3
<1>17. ASSUME NEW c \in Conns,
              \/ PeerCloses(c) \/ PeerResets(c) \/ PeerReads(c)
              \/ \E what \in PeerMay \cap RequestKinds : PeerSends(c, what)
       PROVE  Backlog' \subseteq Backlog
  <2> DEFINE Same(r) == r \in Connection /\ r.st = net[c].st
  <2>1. net[c] \in Connection
      BY <1>1 DEF TypeOK
  <2>2. /\ \A end \in {"fin", "rst"} : Same([net[c] EXCEPT !.end = end])
        /\ Same([net[c] EXCEPT !.room = TRUE])
        /\ \A rx \in RequestKinds : Same([net[c] EXCEPT !.rx = rx])
      BY <2>1 DEF Connection
  <2>3. ASSUME NEW r, Same(r), PeerActs(c, r)
        PROVE  Backlog' \subseteq Backlog
      BY <1>16, <2>3
  <2> HIDE DEF Same
  <2>4. CASE PeerCloses(c) \/ PeerResets(c) \/ PeerReads(c)
      BY <2>2, <2>3, <2>4 DEF PeerCloses, PeerResets, PeerReads
  <2>5. ASSUME NEW what \in PeerMay \cap RequestKinds, PeerSends(c, what)
        PROVE  Backlog' \subseteq Backlog
      BY <2>2, <2>3, <2>5 DEF PeerSends
  <2> QED
      BY <1>17, <2>4, <2>5
<1>18. ASSUME AllClosed
       PROVE  Backlog' \subseteq Backlog
  <2>1. \A c \in Conns : net'[c] = net[c] \/ net'[c] = Gone(net[c])
      BY <1>18 DEF AllClosed
  <2>2. \A c \in Conns : Gone(net[c]).st = "gone"
      BY <1>1, ConnectionTypes DEF TypeOK
  <2> QED
      BY <1>2, <2>1, <2>2
<1>19. CASE ServerCleanup \/ SigTerm
    BY <1>3, <1>18, <1>19 DEF ServerCleanup, SigTerm
<1> QED
    BY <1>6, <1>7, <1>8, <1>9, <1>10, <1>11, <1>12, <1>13, <1>14, <1>15, <1>17, <1>19
    DEF Next, WorkerNext, OutsideNext, AcceptNext, ReadNext, SendNext

(* As long as accept4 does not fail, the worker comes back to connections  *)
(* it has left in the backlog.                                             *)
LEMMA AcceptStep ==
    ASSUME WorkerInv, [Next]_vars, AcceptInv, "accept" \notin Faults, "addcore" \notin Faults
    PROVE  AcceptInv'
<1> DEFINE listen == <<"listen", NoConn>>
<1>1. TypeOK /\ WhereInv
    BY DEF WorkerInv
<1>2. listen \in CoreIds /\ \A c \in Conns : <<"socket", c>> \notin CoreIds /\ <<"pidfd", c>> \notin CoreIds
    BY IdsDiffer DEF CoreIds
<1>3. ASSUME pc' \notin {"setup", "exit", "dead"} => pc \notin {"setup", "exit", "dead"},
             CoreIds \cap active \subseteq active',
             knock' = knock, listen \in queue => listen \in queue',
             pc = "listen" => pc' = "listen",
             Backlog' \subseteq Backlog
      PROVE  AcceptInv'
    BY <1>3 DEF AcceptInv
<1>4. CASE \E c \in Conns : Connect(c)
  <2>1. listen \in active => knock'
      BY <1>4 DEF Connect
  <2>2. UNCHANGED <<pc, active>>
      BY <1>4 DEF Connect, loopvars
  <2> QED
      BY <1>2, <2>1, <2>2 DEF AcceptInv
<1>5. CASE \A c \in Conns : ~Connect(c)
  <2>1. Backlog' \subseteq Backlog
      BY <1>5, BacklogShrinks
  <2>2. ASSUME NEW D, NEW told, Disconnect(D, told)
        PROVE  CoreIds \cap active \subseteq active'
    <3>1. active' = active \ UNION {RegistrationsOf(c) : c \in D}
        BY <2>2 DEF Disconnect
    <3>2. \A c \in D : RegistrationsOf(c) \subseteq {<<"socket", c>>, <<"pidfd", c>>}
        BY DEF RegistrationsOf
    <3>3. \A c : <<"socket", c>> \notin CoreIds /\ <<"pidfd", c>> \notin CoreIds
        BY DEF CoreIds
    <3>4. ASSUME NEW id \in CoreIds \cap active
          PROVE  id \in active'
      <4>1. \A c \in D : id \notin RegistrationsOf(c)
          BY <3>2, <3>3
      <4> QED
          BY <3>1, <4>1
    <3> QED
        BY <3>4
  <2>3. CASE \/ \E d \in {"directory", "sigfd", "timerfd", "socket", "loop"} : Setup(d)
             \/ SetupFails \/ WaitFails \/ ServerCleanup
      BY <2>3 DEF Setup, SetupFails, WaitFails, ServerCleanup, AllClosed, AcceptInv
  <2>4. ASSUME NEW deaf \in SUBSET CoreIds, EnterLoop(deaf)
        PROVE  AcceptInv'
    <3>1. deaf = {}
        BY <2>4 DEF EnterLoop
    <3>2. active' = CoreIds /\ knock' = (Backlog # {})
        BY <1>2, <2>4, <3>1 DEF EnterLoop
    <3> QED
        BY <2>1, <3>2 DEF AcceptInv
  <2>5. ASSUME NEW R, Collect(R)
        PROVE  AcceptInv'
    <3>1. /\ pc = "wait" /\ queue = {} /\ queue' = R /\ UNCHANGED active
          /\ knock' = (knock /\ listen \notin R)
        BY <1>1, <2>5 DEF Collect, WhereInv
    <3> QED
        BY <2>1, <3>1 DEF AcceptInv
  <2>6. ASSUME NEW id \in queue, Dispatch(id)
        PROVE  AcceptInv'
    <3>1. pc = "dispatch" /\ UNCHANGED <<active, knock>> /\ queue' = queue \ {id}
          /\ pc' \in {"dispatch", "signal", "timer", "listen", "pidfd", "read", "send", "hup"}
      <4>1. id[1] \in {"signal", "timer", "listen", "socket", "pidfd"}
          BY <1>1 DEF TypeOK, Ids, CoreIds
      <4> QED
          BY <2>6, <4>1 DEF Dispatch, Branch
    <3>2. id = listen /\ id \in active => pc' = "listen"
        BY <2>6 DEF Dispatch, Called
    <3> QED
        BY <1>2, <2>1, <3>1, <3>2 DEF AcceptInv
  <2>7. CASE EndBatch
      BY <1>3, <2>1, <2>7 DEF EndBatch, loopvars
  <2>8. CASE ServerSignal \/ \E blind \in SUBSET clients : ServerTimer(blind)
      BY <1>3, <2>1, <2>2, <2>8 DEF ServerSignal, ServerTimer, Returns
  <2>9. CASE AcceptBlocks
    <3>1. Backlog = {} /\ pc = "listen" /\ UNCHANGED active
        BY <2>9 DEF AcceptBlocks
    <3> QED
        BY <2>1, <3>1 DEF AcceptInv
  <2>10. CASE AcceptFails
      BY <2>10 DEF AcceptFails
  <2>11. ASSUME NEW c \in Conns,
                \/ AcceptFull(c) \/ AcceptNoMemory(c)
                \/ \E registered \in BOOLEAN : AcceptClient(c, registered)
         PROVE  AcceptInv'
    <3>1. UNCHANGED <<pc, queue, knock>> /\ active \subseteq active'
        BY <2>11 DEF AcceptFull, AcceptNoMemory, TurnAway, AcceptClient, AcceptLoops, loopvars
    <3> QED
        BY <1>3, <2>1, <3>1
  <2>12. ASSUME NEW c \in Conns,
                \/ ReadEnd(c) \/ ReadFails(c) \/ ReadBad(c) \/ OpenFails(c) \/ StatRefused(c)
                \/ ForkFails(c) \/ SendLast(c) \/ SendFails(c) \/ Hangup(c) \/ ClientPidfd(c)
         PROVE  AcceptInv'
    <3>1. pc \in ClientSteps \cup {"pidfd"} /\ Returns /\ UNCHANGED <<queue, knock>>
          /\ \E told \in SUBSET {c} : Disconnect({c}, told)
        BY <2>12, Drops
    <3>2. pc \notin {"setup", "exit", "dead", "listen"} /\ pc' = "dispatch"
        BY <3>1 DEF ClientSteps, Returns
    <3> QED
        BY <1>3, <2>1, <2>2, <3>1, <3>2
  <2>13. ASSUME NEW c \in Conns,
                \/ ReadRequest(c) \/ OpenFile(c) \/ StatRegular(c) \/ StatDirectory(c)
                \/ \E size \in 0..MaxFile : StartFile(c, size)
                \/ \E execs, registered \in BOOLEAN : StartCgi(c, execs, registered)
                \/ \E n \in 1..MaxFile : SendSome(c, n)
                \/ SendNothing(c) \/ SendBlocks(c) \/ HangupKills(c)
         PROVE  AcceptInv'
    <3>1. pc \in ClientSteps
        BY <2>13
        DEF ReadRequest, OpenFile, StatRegular, StatDirectory, StartFile, StartCgi, SendSome,
            SendNothing, SendBlocks, HangupKills, In, ClientSteps
    <3>2. UNCHANGED <<queue, knock>> /\ active \subseteq active'
        BY <2>13
        DEF ReadRequest, OpenFile, StatRegular, StatDirectory, StartFile, StartCgi, SendSome,
            SendNothing, SendBlocks, HangupKills, loopvars, vars
    <3> QED
        BY <1>3, <2>1, <3>1, <3>2 DEF ClientSteps
  <2>14. ASSUME NEW c \in Conns,
                \/ PeerCloses(c) \/ PeerResets(c) \/ PeerReads(c)
                \/ \E what \in PeerMay \cap RequestKinds : PeerSends(c, what)
                \/ CgiWrites(c) \/ CgiEnds(c) \/ Truncate(c)
         PROVE  AcceptInv'
    <3>1. UNCHANGED <<pc, queue, active, knock>>
        BY <2>14
        DEF PeerSends, PeerCloses, PeerResets, PeerReads, PeerActs, CgiWrites, CgiEnds,
            Truncate, loopvars
    <3> QED
        BY <1>3, <2>1, <3>1
  <2>15. CASE SigTerm
    <3>1. \/ UNCHANGED <<pc, queue, active, knock>>
          \/ pc' = "dead"
        BY <2>15 DEF SigTerm, AllClosed, loopvars
    <3> QED
        BY <1>3, <2>1, <3>1 DEF AcceptInv
  <2>16. CASE Tick \/ UNCHANGED vars
      BY <1>3, <2>1, <2>16 DEF Tick, vars, loopvars
  <2> QED
      BY <1>5, <2>3, <2>4, <2>5, <2>6, <2>7, <2>8, <2>9, <2>10, <2>11, <2>12, <2>13, <2>14,
         <2>15, <2>16
      DEF Next, WorkerNext, OutsideNext, AcceptNext, ReadNext, SendNext
<1> QED
    BY <1>4, <1>5

(* Provided accept4 fails only when the backlog is empty and the listening *)
(* socket could be added to the loop, the worker never waits with a        *)
(* connection in the backlog that epoll would not report (server.c:665).   *)
THEOREM Accepts ==
    "accept" \notin Faults /\ "addcore" \notin Faults => (Spec => []AcceptedUntilBlocked)
<1> SUFFICES ASSUME "accept" \notin Faults /\ "addcore" \notin Faults
             PROVE  Spec => []AcceptedUntilBlocked
    OBVIOUS
<1>1. Init => AcceptInv
    BY DEF Init, AcceptInv
<1>2. WorkerInv /\ AcceptInv /\ [Next]_vars => AcceptInv'
    BY AcceptStep
<1>3. WorkerInv /\ AcceptInv => AcceptedUntilBlocked
    BY DEF WorkerInv, WhereInv, AcceptInv, AcceptedUntilBlocked
<1> QED
    BY <1>1, <1>2, <1>3, Invariance, PTL DEF Spec

(***************************************************************************)
(* Clients that stay idle.                                                 *)
(***************************************************************************)

(* The age of a client is bounded by the timer, before and after it has    *)
(* expired.                                                                *)
LEMMA Bounds ==
    ASSUME TypeOK
    PROVE  /\ Timeout \in Nat \ {0}
           /\ AgeBound \in Int /\ 0 <= AgeBound /\ AgeBound <= 2 * Timeout - 1
           /\ timer.left \in 1..Timeout /\ timer.expired \in BOOLEAN
           /\ \A c \in Conns : age[c] \in Nat /\ quiet[c] \in Nat
           /\ \A c \in Conns : age[c] = 0 => Bounded(c)
           /\ \A c \in Conns : "pidfd" \in has[c] /\ quiet[c] = 0 => Bounded(c)
<1>1. Timeout \in Nat \ {0} /\ timer.left \in 1..Timeout /\ timer.expired \in BOOLEAN
    BY ParamsAssumption DEF TypeOK
<1>2. AgeBound \in Int /\ 0 <= AgeBound /\ AgeBound <= 2 * Timeout - 1
    BY <1>1 DEF AgeBound
<1>3. \A c \in Conns : age[c] \in Nat /\ quiet[c] \in Nat
    BY <1>1 DEF TypeOK
<1> QED
    BY <1>1, <1>2, <1>3 DEF Bounded

(* A step that neither serves the timer nor lets time pass keeps the       *)
(* bounds, if it starts the time of what it makes a client or gives a CGI  *)
(* program anew.                                                           *)
LEMMA BootFrame ==
    ASSUME TypeOK, TypeOK', BootInv, UNCHANGED timer,
           pc' = "setup" => pc = "setup",
           <<"timer", NoConn>> \in active' => <<"timer", NoConn>> \in active,
           \A c \in clients' :
              \/ age'[c] = 0
              \/ quiet'[c] = 0 /\ "pidfd" \in has'[c]
              \/ /\ c \in clients
                 /\ age'[c] = age[c] /\ quiet'[c] = quiet[c]
                 /\ "pidfd" \in has'[c] <=> "pidfd" \in has[c]
                 /\ proc'[c] = "running" => proc[c] = "running"
    PROVE  BootInv'
<1>1. AgeBound' = AgeBound
    BY DEF AgeBound
<1>2. ASSUME <<"timer", NoConn>> \in active', NEW c \in clients'
      PROVE  Bounded(c)'
  <2>1. c \in Conns
      BY DEF TypeOK
  <2>2. CASE age'[c] = 0 \/ (quiet'[c] = 0 /\ "pidfd" \in has'[c])
    <3>1. /\ AgeBound \in Int /\ 0 <= AgeBound
          /\ age'[c] \in Nat /\ quiet'[c] \in Nat
      <4>1. /\ AgeBound \in Int /\ 0 <= AgeBound
          BY Bounds
      <4>2. 2 * Timeout \in Nat
          BY ParamsAssumption
      <4> QED
          BY <2>1, <4>1, <4>2 DEF TypeOK
    <3> QED
        BY <1>1, <2>2, <3>1 DEF Bounded
  <2>3. CASE /\ c \in clients
             /\ age'[c] = age[c] /\ quiet'[c] = quiet[c]
             /\ "pidfd" \in has'[c] <=> "pidfd" \in has[c]
             /\ proc'[c] = "running" => proc[c] = "running"
    <3>1. Bounded(c)
        BY <1>2, <2>3 DEF BootInv
    <3> QED
        BY <1>1, <2>3, <3>1 DEF Bounded
  <2> QED
      BY <2>2, <2>3
<1>3. /\ pc' = "setup" => ~timer'.expired
      /\ <<"timer", NoConn>> \in active' /\ timer'.expired => timer'.left = Timeout
    BY DEF BootInv
<1> QED
    BY <1>2, <1>3 DEF BootInv

(* No client grows older than the bound, as long as time passes only while *)
(* the worker waits with nothing to do.                                    *)
LEMMA BootStep ==
    ASSUME WorkerInv, [Next]_vars, BootInv, Prompt
    PROVE  BootInv'
<1> DEFINE tick == <<"timer", NoConn>>
           Aging(c) == /\ c \in clients
                       /\ age'[c] = age[c] /\ quiet'[c] = quiet[c]
                       /\ "pidfd" \in has'[c] <=> "pidfd" \in has[c]
                       /\ proc'[c] = "running" => proc[c] = "running"
<1>1. TypeOK /\ TypeOK' /\ WhereInv /\ \A c \in Conns : ConnInv(c)
    BY TypeStep DEF WorkerInv
<1>2. clients \subseteq Conns /\ clients' \subseteq Conns
    BY <1>1 DEF TypeOK
<1>3. \A c : tick # <<"socket", c>> /\ tick # <<"pidfd", c>>
    OBVIOUS
<1>4. ASSUME UNCHANGED timer, pc' = "setup" => pc = "setup", tick \in active' => tick \in active,
             \A c \in clients' :
                \/ age'[c] = 0 \/ (quiet'[c] = 0 /\ "pidfd" \in has'[c]) \/ Aging(c)
      PROVE  BootInv'
    BY <1>1, <1>4, BootFrame
<1>5. CASE \/ \E d \in {"directory", "sigfd", "timerfd", "socket", "loop"} : Setup(d)
           \/ SetupFails
           \/ \E id \in queue : Dispatch(id)
           \/ \E R \in Batches : Collect(R)
           \/ EndBatch \/ WaitFails \/ ServerSignal \/ AcceptBlocks \/ AcceptFails
           \/ \E c \in Conns : AcceptFull(c) \/ AcceptNoMemory(c)
           \/ UNCHANGED vars
  <2>1. UNCHANGED <<timer, active, clients, age, quiet, has, proc>>
      BY <1>5
      DEF Setup, SetupFails, Dispatch, Collect, EndBatch, WaitFails, ServerSignal, AcceptBlocks,
          AcceptFails, AcceptFull, AcceptNoMemory, TurnAway, clientvars, loopvars, clockvars, vars
  <2>2. pc' = "setup" => pc = "setup"
    <3>1. \A id \in queue : id[1] # "setup"
        BY <1>1 DEF TypeOK, Ids, CoreIds
    <3> QED
        BY <1>5, <3>1
        DEF Setup, SetupFails, Dispatch, Branch, Collect, EndBatch, WaitFails, ServerSignal,
            AcceptBlocks, AcceptFails, AcceptFull, AcceptNoMemory, TurnAway, AtListener, Returns, vars
  <2> QED
      BY <1>4, <2>1, <2>2
<1>6. ASSUME NEW deaf \in SUBSET CoreIds, EnterLoop(deaf)
      PROVE  BootInv'
  <2>1. pc = "setup" /\ clients = {} /\ UNCHANGED <<clients, timer>> /\ pc' = "wait"
      BY <1>1, <1>6 DEF EnterLoop, WhereInv, clientvars, clockvars
  <2>2. ~timer'.expired
      BY <2>1 DEF BootInv
  <2> QED
      BY <2>1, <2>2 DEF BootInv
<1>7. ASSUME NEW D \in SUBSET clients, NEW told, Disconnect(D, told), UNCHANGED <<timer, proc>>,
             Returns
      PROVE  BootInv'
    BY <1>2, <1>4, <1>7 DEF Disconnect, Returns
<1>8. ASSUME NEW c \in Conns,
             \/ ReadEnd(c) \/ ReadFails(c) \/ ReadBad(c) \/ OpenFails(c) \/ StatRefused(c)
             \/ ForkFails(c) \/ SendLast(c) \/ SendFails(c) \/ Hangup(c) \/ ClientPidfd(c)
      PROVE  BootInv'
  <2>1. {c} \in SUBSET clients /\ Returns /\ UNCHANGED <<timer, proc>>
      BY <1>8, Drops, ZenonT(60)
  <2>2. PICK told \in SUBSET {c} : Disconnect({c}, told)
      BY <1>8, Drops
  <2> QED
      BY <1>7, <2>1, <2>2
<1>9. ASSUME NEW blind \in SUBSET clients, ServerTimer(blind)
      PROVE  BootInv'
  <2>1. PICK D \in SUBSET clients, kill \in SUBSET clients : \E told \in SUBSET D :
           /\ Disconnect(D, told)
           /\ \A c \in clients : Overdue(c) => c \in D \cup kill \/
                                   ("pidfd" \in has[c] /\ ~(quiet[c] >= Timeout))
           /\ \A c \in kill : "pidfd" \in has[c]
           /\ proc' = Killed(kill)
      BY <1>9, Expires
  <2>2. timer' = [timer EXCEPT !.expired = FALSE] /\ pc' = "dispatch"
      BY <1>9 DEF ServerTimer, Returns
  <2>3. ~timer'.expired /\ timer'.left = timer.left
      BY <1>1, <2>2 DEF TypeOK
  <2>4. /\ Timeout \in Nat \ {0} /\ timer.left \in 1..Timeout
        /\ \A c \in Conns : age[c] \in Nat /\ quiet[c] \in Nat
      BY <1>1, Bounds
  <2>5. AgeBound' \in Int /\ Timeout - 1 <= AgeBound'
      BY <2>3, <2>4 DEF AgeBound
  <2>6. ASSUME NEW c \in clients'
        PROVE  Bounded(c)'
    <3>1. c \in clients \ D /\ c \in Conns /\ age'[c] = age[c] /\ quiet'[c] = quiet[c]
          /\ has'[c] = has[c]
        BY <1>2, <2>1, <2>6 DEF Disconnect
    <3>2. CASE ~Overdue(c)
      <4>1. age'[c] <= AgeBound'
          BY <2>4, <2>5, <3>1, <3>2 DEF Overdue
      <4> QED
          BY <4>1 DEF Bounded
    <3>3. CASE c \in kill
      <4>1. "pidfd" \in has'[c] /\ proc'[c] # "running"
          BY <2>1, <3>1, <3>3 DEF Killed
      <4> QED
          BY <4>1 DEF Bounded
    <3>4. CASE "pidfd" \in has[c] /\ ~(quiet[c] >= Timeout)
      <4>1. "pidfd" \in has'[c] /\ quiet'[c] <= AgeBound'
          BY <2>4, <2>5, <3>1, <3>4
      <4> QED
          BY <4>1 DEF Bounded
    <3> QED
        BY <2>1, <3>1, <3>2, <3>3, <3>4
  <2> QED
      BY <2>2, <2>3, <2>6 DEF BootInv
<1>10. ASSUME NEW c \in Conns, NEW registered \in BOOLEAN, AcceptClient(c, registered)
       PROVE  BootInv'
  <2>1. /\ clients' = clients \cup {c} /\ net[c].st = "backlog"
        /\ UNCHANGED <<timer, age, quiet, has, proc, pc>>
        /\ tick \in active' => tick \in active
      BY <1>3, <1>10 DEF AcceptClient, AtListener, Backlog, AcceptLoops, clockvars
  <2>2. age[c] = 0
      BY <1>1, <2>1 DEF ConnInv, ClientInv, NoClientInv
  <2> QED
      BY <1>4, <2>1, <2>2
<1>11. ASSUME NEW c \in Conns,
              \/ \E size \in 0..MaxFile : StartFile(c, size)
              \/ \E execs, registered \in BOOLEAN : StartCgi(c, execs, registered)
              \/ SendBlocks(c)
       PROVE  BootInv'
  <2>1. /\ UNCHANGED <<timer, quiet, clients>> /\ age' = [age EXCEPT ![c] = 0]
        /\ \A b \in Conns \ {c} : has'[b] = has[b] /\ proc'[b] = proc[b]
    <3>1. UNCHANGED <<timer, quiet, clients>> /\ age' = [age EXCEPT ![c] = 0]
        BY <1>11 DEF StartFile, StartCgi, SendBlocks, clientvars
    <3>2. ASSUME NEW size, StartFile(c, size)
          PROVE  \A b \in Conns \ {c} : has'[b] = has[b] /\ proc'[b] = proc[b]
        BY <1>1, <3>2 DEF StartFile, TypeOK
    <3>3. ASSUME NEW execs, NEW registered, StartCgi(c, execs, registered)
          PROVE  \A b \in Conns \ {c} : has'[b] = has[b] /\ proc'[b] = proc[b]
        BY <1>1, <3>3 DEF StartCgi, TypeOK
    <3>4. SendBlocks(c) => UNCHANGED <<has, proc>>
        BY DEF SendBlocks, clientvars
    <3> QED
        BY <1>11, <3>1, <3>2, <3>3, <3>4
  <2>2. tick \in active' => tick \in active
      BY <1>3, <1>11 DEF StartFile, StartCgi, SendBlocks
  <2>3. pc' # "setup"
    <3>1. pc # "setup"
        BY <1>11 DEF StartFile, StartCgi, SendBlocks, In
    <3> QED
        BY <1>11, <3>1 DEF StartFile, StartCgi, SendBlocks, AfterIn, AfterOut, Returns
  <2>4. age'[c] = 0 /\ \A b \in Conns \ {c} : age'[b] = age[b]
      BY <1>1, <2>1 DEF TypeOK
  <2> QED
      BY <1>2, <1>4, <2>1, <2>2, <2>3, <2>4
<1>12. ASSUME NEW c \in Conns,
              \/ ReadRequest(c) \/ OpenFile(c) \/ StatRegular(c) \/ StatDirectory(c)
              \/ \E n \in 1..MaxFile : SendSome(c, n)
              \/ SendNothing(c) \/ HangupKills(c)
       PROVE  BootInv'
  <2>1. UNCHANGED <<timer, age, quiet, clients, active>> /\ pc' # "setup"
      BY <1>12
      DEF ReadRequest, OpenFile, StatRegular, StatDirectory, SendSome, SendLoops, SendNothing,
          HangupKills, Returns, In, clientvars, loopvars, clockvars, vars
  <2>2. \A b \in Conns : proc'[b] = "running" => proc[b] = "running"
      BY <1>12
      DEF ReadRequest, OpenFile, StatRegular, StatDirectory, SendSome, SendNothing, HangupKills,
          Killed, vars
  <2>3. \A b \in Conns : "pidfd" \in has'[b] <=> "pidfd" \in has[b]
    <3>1. ASSUME StatDirectory(c)
          PROVE  "pidfd" \notin has[c]
      <4>1. cur = <<"socket", c>> /\ pc = "stat"
          BY <3>1 DEF StatDirectory, In
      <4> QED
          BY <4>1, Running DEF LookupInv, LooksUp
    <3> QED
        BY <1>1, <1>12, <3>1
        DEF ReadRequest, OpenFile, StatRegular, StatDirectory, SendSome, SendNothing, HangupKills,
            clientvars, vars, TypeOK
  <2> QED
      BY <1>2, <1>4, <2>1, <2>2, <2>3
<1>13. ASSUME NEW c \in Conns,
              \/ Connect(c) \/ \E what \in PeerMay \cap RequestKinds : PeerSends(c, what)
              \/ PeerCloses(c) \/ PeerResets(c) \/ PeerReads(c)
              \/ CgiEnds(c) \/ Truncate(c)
       PROVE  BootInv'
  <2>1. UNCHANGED <<timer, age, quiet, clients, active, has, pc>>
      BY <1>13
      DEF Connect, PeerSends, PeerCloses, PeerResets, PeerReads, PeerActs, CgiEnds, Truncate,
          clientvars, loopvars, clockvars
  <2>2. \A b \in Conns : proc'[b] = "running" => proc[b] = "running"
      BY <1>1, <1>13, ZenonT(60)
      DEF Connect, PeerSends, PeerCloses, PeerResets, PeerReads, PeerActs, CgiEnds, Truncate, TypeOK
  <2> QED
      BY <1>2, <1>4, <2>1, <2>2
<1>14. ASSUME NEW c \in Conns, CgiWrites(c)
       PROVE  BootInv'
  <2>1. /\ UNCHANGED <<timer, age, clients, active, has, proc, pc>>
        /\ quiet' = [quiet EXCEPT ![c] = 0] /\ proc[c] = "running"
      BY <1>14 DEF CgiWrites, clientvars, loopvars
  <2>2. "pidfd" \in has[c]
      BY <1>1, <2>1 DEF ConnInv, NoClientInv, ClientInv
  <2>3. quiet'[c] = 0 /\ \A b \in Conns \ {c} : quiet'[b] = quiet[b]
      BY <1>1, <2>1 DEF TypeOK
  <2> QED
      BY <1>2, <1>4, <2>1, <2>2, <2>3
<1>15. CASE ServerCleanup \/ SigTerm
  <2>1. \/ pc' = "dead" /\ active' = {}
        \/ UNCHANGED <<timer, age, quiet, clients, active, has, proc, pc>>
      BY <1>15 DEF ServerCleanup, SigTerm, AllClosed, clientvars, loopvars, clockvars
  <2>2. ASSUME pc' = "dead", active' = {}
        PROVE  BootInv'
      BY <2>2 DEF BootInv
  <2> QED
      BY <1>4, <2>1, <2>2
<1>16. CASE Tick
  <2>1. pc = "wait" /\ Ready = {} /\ UNCHANGED <<pc, active, clients, has, proc>>
        /\ age' = Older(age, clients)
        /\ quiet' = Older(quiet, {c \in clients : "pidfd" \in has[c]})
      BY <1>16 DEF Tick, clientvars, loopvars
  <2>2. ASSUME tick \in active
        PROVE  BootInv'
    <3>1. ~timer.expired
        BY <2>1, <2>2 DEF Ready, IsReady
    <3>2. "timerfd" \in core
        BY <1>1, <2>1 DEF WhereInv
    <3>3. /\ Timeout \in Nat \ {0} /\ timer.left \in 1..Timeout /\ timer.expired \in BOOLEAN
          /\ \A c \in Conns : age[c] \in Nat /\ quiet[c] \in Nat
        BY <1>1, Bounds
    <3>4. \/ timer.left > 1 /\ timer' = [timer EXCEPT !.left = timer.left - 1]
          \/ timer.left = 1 /\ timer' = [left |-> Timeout, expired |-> TRUE]
        BY <1>16, <3>2, <3>3 DEF Tick
    <3>5. \/ timer.left > 1 /\ timer'.left = timer.left - 1 /\ ~timer'.expired
          \/ timer.left = 1 /\ timer'.left = Timeout /\ timer'.expired
        BY <1>1, <3>1, <3>4 DEF TypeOK
    <3>6. AgeBound' = AgeBound + 1 /\ AgeBound \in Int
        BY <3>1, <3>3, <3>5 DEF AgeBound
    <3>7. ASSUME NEW c \in clients
          PROVE  Bounded(c)'
      <4>1. Bounded(c) /\ c \in Conns
          BY <1>2, <2>2 DEF BootInv
      <4>2. age'[c] \in {age[c], age[c] + 1} /\ quiet'[c] \in {quiet[c], quiet[c] + 1}
          BY <2>1, <4>1 DEF Older
      <4>3. /\ age[c] <= AgeBound => age'[c] <= AgeBound'
            /\ quiet[c] <= AgeBound => quiet'[c] <= AgeBound'
          BY <3>3, <3>6, <4>1, <4>2
      <4> QED
          BY <2>1, <4>1, <4>3 DEF Bounded
    <3> QED
        BY <2>1, <3>5, <3>7 DEF BootInv
  <2>3. CASE tick \notin active
      BY <2>1, <2>3 DEF BootInv
  <2> QED
      BY <2>2, <2>3
<1> QED
    BY <1>5, <1>6, <1>8, <1>9, <1>10, <1>11, <1>12, <1>13, <1>14, <1>15, <1>16
    DEF Next, WorkerNext, OutsideNext, AcceptNext, ReadNext, SendNext

(* As long as the worker keeps up with the clock and its loop knows the    *)
(* timer, no client is idle, nor its CGI program silent, for two timeouts  *)
(* (server.c:787-829).                                                     *)
THEOREM Boots == Prompt => (Spec => []BootedInTime)
<1> SUFFICES ASSUME Prompt
             PROVE  Spec => []BootedInTime
    OBVIOUS
<1>1. Init => BootInv
    BY DEF Init, BootInv
<1>2. WorkerInv /\ BootInv /\ [Next]_vars => BootInv'
    BY BootStep
<1>3. WorkerInv /\ BootInv => BootedInTime
  <2>1. ASSUME WorkerInv, BootInv
        PROVE  BootedInTime
    <3>1. /\ Timeout \in Nat \ {0} /\ AgeBound \in Int /\ AgeBound <= 2 * Timeout - 1
          /\ \A c \in Conns : age[c] \in Nat /\ quiet[c] \in Nat
        BY <2>1, Bounds DEF WorkerInv
    <3>2. \A c \in Conns : /\ age[c] <= AgeBound => age[c] < 2 * Timeout
                           /\ quiet[c] <= AgeBound => quiet[c] < 2 * Timeout
        BY <3>1
    <3>3. clients \subseteq Conns
        BY <2>1 DEF WorkerInv, TypeOK
    <3> QED
        BY <2>1, <3>2, <3>3 DEF BootInv, Bounded, BootedInTime
  <2> QED
      BY <2>1
<1> QED
    BY <1>1, <1>2, <1>3, Invariance, PTL DEF Spec
=============================================================================
