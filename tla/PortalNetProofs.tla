---------------------------- MODULE PortalNetProofs ----------------------------
(***************************************************************************)
(* For any socket pool, any number of portal sessions, clients and errors: *)
(* the first portal's DNS task never waits on a socket without the port    *)
(* unless it has closed a stranger's, a portal costs the pool at most one  *)
(* socket, and the LCD counts the clients there are.  Proved with TLAPS.   *)
(***************************************************************************)
EXTENDS PortalNet, FiniteSetTheorems, SequenceTheorems, TLAPS

\* Which descriptors belong to whom, and when a DNS task exists at all.
Owners ==
    /\ open \subseteq Fds /\ udp \subseteq open /\ port \subseteq udp
    /\ fixed \subseteq open \ (udp \cup conns \cup {sock})
    /\ sessions \in Nat /\ (ctl # "off" => sessions >= 1)
    /\ ctl \notin {"open", "delete"} => task = "none"
    /\ ctl \in {"radio", "off", "scan", "softap", "httpd"} => fixed = {} /\ conns = {}
    /\ task \in {"none", "socket"} => sock = NoFd

\* As long as the DNS task has closed nobody else's descriptor, the HTTP server's table is right, and the
\* task's socket is its own.
TableTrue ==
    ~stray => /\ conns \subseteq open \ udp
              /\ task \in {"bind", "recv", "reply"} => sock \in udp

\* Who has the port during the first session: nobody before the task binds, then the task's socket only.
FirstPort ==
    /\ sessions = 0 => ctl = "off" /\ port = {}
    /\ sessions = 1 /\ ctl \in {"scan", "softap", "httpd", "dns"} => port = {}
    /\ sessions = 1 /\ ~stray =>
         /\ task \in {"socket", "bind"} => port = {}
         /\ task \in {"recv", "reply"} => port = {sock}
         /\ task = "close" => port \subseteq {sock}

NetInv == Owners /\ TableTrue /\ FirstPort /\ OneSocketPerSession

\* A step other than the deletion of the DNS task.
Others ==
    \/ OpenBegin \/ ScanOver \/ OpenSoftap \/ OpenHttpd \/ OpenDns
    \/ CloseBegin \/ CloseHttpd \/ CloseRadio
    \/ OnApEvent \/ StationJoins \/ StationLeaves \/ HttpAccept \/ HttpClose
    \/ Dns \/ Rest

\* Nothing is in use before the first session.
LEMMA NetInitInv == Init => NetInv
<1> SUFFICES ASSUME Init PROVE NetInv
  OBVIOUS
<1>1. Lost = {}
  BY DEF Init, DnsInit, Lost
<1>2. OneSocketPerSession
  BY <1>1, FS_EmptySet DEF Init, OneSocketPerSession, Deletions
<1> QED
  BY <1>2 DEF Init, DnsInit, NetInv, Owners, TableTrue, FirstPort

----------------------------------------------------------------------------
(* The DNS task's own steps *)

\* Whatever they close, they lose no socket.
LEMMA DnsOwners == Owners /\ Dns => Owners' /\ Lost' \subseteq Lost
<1> SUFFICES ASSUME Owners, Dns PROVE Owners' /\ Lost' \subseteq Lost
  OBVIOUS
<1> USE DEF Owners, Go
<1>1. UNCHANGED <<ctl, sessions, fixed, conns>> /\ DnsTask
  BY DEF Dns
<1>2. CASE DnsSocket
  <2>1. CASE task' = "gone"
    <3>1. open' = open /\ udp' = udp /\ port' = port /\ sock' = sock /\ task = "socket"
      BY <1>2, <2>1 DEF DnsSocket
    <3> QED
      BY <1>1, <2>1, <3>1 DEF Lost
  <2>2. CASE task' # "gone"
    <3>1. PICK fd \in Fds : Allocated(fd) /\ udp' = udp \cup {fd} /\ sock' = fd
      BY <1>2, <2>2 DEF DnsSocket
    <3>2. task = "socket" /\ task' = "bind" /\ sock = NoFd /\ port' = port
      BY <1>2, <2>2 DEF DnsSocket
    <3>3. open' = open \cup {fd} /\ fd \notin open
      BY <3>1 DEF Allocated, Free
    <3>4. fixed' \subseteq open' \ (udp' \cup conns' \cup {sock'})
      BY <1>1, <3>1, <3>3
    <3>5. Lost' \subseteq Lost
      BY <1>1, <3>1, <3>2, <3>3, DnsAssumption DEF Lost
    <3>6. ctl' = ctl /\ ctl \in {"open", "delete"} /\ sessions' = sessions
      BY <1>1, <3>2
    <3>7. open' \subseteq Fds /\ udp' \subseteq open' /\ port' \subseteq udp'
      BY <1>1, <3>1, <3>2, <3>3
    <3>8. Owners'
      BY <3>2, <3>4, <3>6, <3>7
    <3> QED
      BY <3>5, <3>8
  <2> QED
    BY <2>1, <2>2
<1>3. CASE DnsBind
  BY <1>1, <1>3 DEF DnsBind, Bound, NextPass, Lost
<1>4. CASE DnsRecv
  BY <1>1, <1>4 DEF DnsRecv, Lost
<1>5. CASE DnsRecvFails
  BY <1>1, <1>5 DEF DnsRecvFails, Closed, Lost
<1>6. CASE DnsReply
  <2>1. task = "reply" /\ task' \in {"recv", "close"} /\ UNCHANGED <<open, udp, port, sock>>
    BY <1>6 DEF DnsReply, NextPass
  <2> QED
    BY <1>1, <2>1 DEF Lost
<1>7. CASE DnsClose
  <2>1. fixed' \subseteq open' \ (udp' \cup conns' \cup {sock'})
    BY <1>1, <1>7, DnsAssumption DEF DnsClose, Closed
  <2> QED
    BY <1>1, <1>7, <2>1 DEF DnsClose, Closed, Lost
<1> QED
  BY <1>1, <1>2, <1>3, <1>4, <1>5, <1>6, <1>7 DEF DnsTask

\* Only a second close can hit a connection, and stray then says so.
LEMMA DnsTable == Owners /\ TableTrue /\ Dns => TableTrue'
<1> SUFFICES ASSUME Owners, TableTrue, Dns, ~stray' PROVE TableTrue'
  BY DEF TableTrue
<1> USE DEF Owners, TableTrue, Go
<1>1. conns' = conns /\ ~stray /\ ~(task = "close" /\ sock \in conns) /\ DnsTask
  BY DEF Dns
<1>2. CASE DnsSocket
  <2>1. CASE task' = "gone"
    BY <1>1, <1>2, <2>1 DEF DnsSocket
  <2>2. CASE task' # "gone"
    <3>1. PICK fd \in Fds : Allocated(fd) /\ udp' = udp \cup {fd} /\ sock' = fd
      BY <1>2, <2>2 DEF DnsSocket
    <3> QED
      BY <1>1, <3>1 DEF Allocated, Free
  <2> QED
    BY <2>1, <2>2
<1>3. CASE DnsBind
  BY <1>1, <1>3 DEF DnsBind, NextPass
<1>4. CASE DnsRecv
  BY <1>1, <1>4 DEF DnsRecv
<1>5. CASE DnsRecvFails
  BY <1>1, <1>5 DEF DnsRecvFails, Closed
<1>6. CASE DnsReply
  <2>1. task = "reply" /\ task' \in {"recv", "close"} /\ UNCHANGED <<open, udp, sock>>
    BY <1>6 DEF DnsReply, NextPass
  <2> QED
    BY <1>1, <2>1
<1>7. CASE DnsClose
  BY <1>1, <1>7 DEF DnsClose, Closed
<1> QED
  BY <1>1, <1>2, <1>3, <1>4, <1>5, <1>6, <1>7 DEF DnsTask

\* Every way from a socket back to the next one gives the port up.
LEMMA DnsFirstPort == Owners /\ TableTrue /\ FirstPort /\ Dns => FirstPort'
<1> SUFFICES ASSUME Owners, TableTrue, FirstPort, Dns PROVE FirstPort'
  OBVIOUS
<1> USE DEF Owners, FirstPort, Go
<1>1. UNCHANGED <<ctl, sessions>> /\ DnsTask /\ (stray => stray') /\ task # "none"
  BY DEF Dns, DnsTask, DnsSocket, DnsBind, DnsRecv, DnsRecvFails, DnsReply, DnsClose
<1>2. CASE DnsSocket
  BY <1>1, <1>2 DEF DnsSocket
<1>3. CASE DnsBind
  BY <1>1, <1>3 DEF DnsBind, NextPass, Bound, TableTrue
<1>4. CASE DnsRecv
  BY <1>1, <1>4 DEF DnsRecv
<1>5. CASE DnsRecvFails
  BY <1>1, <1>5 DEF DnsRecvFails, Closed
<1>6. CASE DnsReply
  <2>1. task = "reply" /\ task' \in {"recv", "close"} /\ UNCHANGED <<port, sock>>
    BY <1>6 DEF DnsReply, NextPass
  <2> QED
    BY <1>1, <2>1
<1>7. CASE DnsClose
  BY <1>1, <1>7 DEF DnsClose, Closed
<1> QED
  BY <1>1, <1>2, <1>3, <1>4, <1>5, <1>6, <1>7 DEF DnsTask
----------------------------------------------------------------------------
(* The other steps *)

\* Opening and closing the portal, and its clients, lose no socket, except by deleting the DNS task.
LEMMA OthersOwners ==
    ASSUME Owners, Others \/ UNCHANGED vars PROVE Owners' /\ Lost' \subseteq Lost
<1> USE DEF Owners, At
<1>1. CASE OpenBegin
  BY <1>1 DEF OpenBegin, dnsVars, Lost
<1>2. CASE ScanOver
  BY <1>2 DEF ScanOver, dnsVars, netVars, Lost
<1>3. CASE OpenSoftap
  BY <1>3 DEF OpenSoftap, dnsVars, netVars, Lost
<1>4. CASE OpenHttpd
  <2>1. task = "none" /\ task' = "none" /\ sock' = sock /\ sock = NoFd /\ sessions' = sessions
    BY <1>4 DEF OpenHttpd
  <2>2. CASE ctl' = "off"
    BY <1>4, <2>1, <2>2 DEF OpenHttpd, Lost
  <2>3. CASE ctl' = "dns"
    <3>1. PICK fds \in SUBSET Free : fixed' = fds /\ open' = open \cup fds
      BY <1>4, <2>3 DEF OpenHttpd
    <3>2. fixed = {} /\ conns = {} /\ fds \subseteq Fds /\ fds \cap open = {}
      BY <1>4, <3>1 DEF OpenHttpd, Free
    <3>3. UNCHANGED <<udp, port, conns>>
      BY <1>4 DEF OpenHttpd
    <3>4. NoFd \notin fds
      BY <3>2, DnsAssumption
    <3>5. fixed' \subseteq open' \ (udp' \cup conns' \cup {sock'})
      BY <2>1, <3>1, <3>2, <3>3, <3>4
    <3>6. Lost' \subseteq Lost
      BY <2>1, <3>1, <3>2, <3>3 DEF Lost
    <3>7. open' \subseteq Fds /\ udp' \subseteq open' /\ port' \subseteq udp'
      BY <3>1, <3>2, <3>3
    <3>8. sessions \in Nat /\ sessions >= 1
      BY <1>4 DEF OpenHttpd
    <3> QED
      BY <2>1, <2>3, <3>5, <3>6, <3>7, <3>8
  <2> QED
    BY <1>4, <2>2, <2>3 DEF OpenHttpd
<1>5. CASE OpenDns
  BY <1>5 DEF OpenDns, StartDns, netVars, Lost
<1>6. CASE CloseBegin
  BY <1>6 DEF CloseBegin, TellDns, Lost
<1>7. CASE CloseHttpd
  BY <1>7 DEF CloseHttpd, Closed, Lost
<1>8. CASE CloseRadio
  BY <1>8 DEF CloseRadio, dnsVars, Lost
<1>9. CASE OnApEvent
  BY <1>9 DEF OnApEvent, dnsVars, Lost
<1>10. CASE StationJoins
  BY <1>10 DEF StationJoins, dnsVars, Lost
<1>11. CASE StationLeaves
  BY <1>11 DEF StationLeaves, dnsVars, Lost
<1>12. CASE HttpAccept
  <2>1. PICK fd \in Fds : open' = open \cup {fd} /\ conns' = conns \cup {fd} /\ fd \notin open
    BY <1>12 DEF HttpAccept, Allocated, Free
  <2>2. UNCHANGED <<udp, port, task, sock, ctl, sessions, fixed>> /\ ctl \in {"open", "httpd_stop"}
    BY <1>12 DEF HttpAccept, ClientsMayAct
  <2> QED
    BY <2>1, <2>2 DEF Lost
<1>13. CASE HttpClose
  <2>1. PICK fd \in conns : Closed({fd}) /\ conns' = conns \ {fd}
    BY <1>13 DEF HttpClose
  <2>2. UNCHANGED <<task, sock, ctl, sessions, fixed>> /\ ctl \in {"open", "httpd_stop"}
    BY <1>13 DEF HttpClose, ClientsMayAct
  <2> QED
    BY <2>1, <2>2 DEF Closed, Lost
<1>14. CASE Dns
  BY <1>14, DnsOwners
<1>15. CASE Rest \/ UNCHANGED vars
  BY <1>15 DEF Rest, vars, dnsVars, netVars, Lost
<1> QED
  BY <1>1, <1>2, <1>3, <1>4, <1>5, <1>6, <1>7, <1>8, <1>9, <1>10, <1>11, <1>12, <1>13, <1>14, <1>15 DEF Others

\* The HTTP server takes only free descriptors and closes only those in its table.
LEMMA OthersTable ==
    ASSUME Owners, TableTrue, Others \/ UNCHANGED vars PROVE TableTrue'
<1> USE DEF Owners, TableTrue, At
<1>1. CASE OpenBegin \/ CloseRadio
  BY <1>1 DEF OpenBegin, CloseRadio, dnsVars
<1>2. CASE ScanOver \/ OpenSoftap
  BY <1>2 DEF ScanOver, OpenSoftap, dnsVars, netVars
<1>3. CASE OpenHttpd
  <2>1. open \subseteq open' /\ UNCHANGED <<udp, conns, stray, task, sock>>
    BY <1>3 DEF OpenHttpd
  <2> QED
    BY <2>1
<1>4. CASE OpenDns
  BY <1>4 DEF OpenDns, StartDns, netVars
<1>5. CASE CloseBegin
  BY <1>5 DEF CloseBegin, TellDns
<1>6. CASE CloseHttpd
  BY <1>6 DEF CloseHttpd, Closed
<1>7. CASE OnApEvent \/ StationJoins \/ StationLeaves
  BY <1>7 DEF OnApEvent, StationJoins, StationLeaves, dnsVars
<1>8. CASE HttpAccept
  BY <1>8 DEF HttpAccept, Allocated, Free
<1>9. CASE HttpClose
  <2>1. PICK fd \in conns : Closed({fd}) /\ conns' = conns \ {fd}
    BY <1>9 DEF HttpClose
  <2>2. UNCHANGED <<task, sock, stray>>
    BY <1>9 DEF HttpClose
  <2> QED
    BY <2>1, <2>2 DEF Closed
<1>10. CASE Dns
  BY <1>10, DnsTable
<1>11. CASE Rest \/ UNCHANGED vars
  BY <1>11 DEF Rest, vars, dnsVars, netVars
<1> QED
  BY <1>1, <1>2, <1>3, <1>4, <1>5, <1>6, <1>7, <1>8, <1>9, <1>10, <1>11 DEF Others

\* None of them gives the port to anybody, and the first session's task keeps it.
LEMMA OthersFirstPort ==
    ASSUME Owners, TableTrue, FirstPort, Others \/ UNCHANGED vars PROVE FirstPort'
<1> USE DEF Owners, FirstPort, At
<1>1. CASE OpenBegin
  BY <1>1 DEF OpenBegin, dnsVars
<1>2. CASE ScanOver \/ OpenSoftap
  BY <1>2 DEF ScanOver, OpenSoftap, dnsVars, netVars
<1>3. CASE OpenHttpd
  BY <1>3 DEF OpenHttpd
<1>4. CASE OpenDns
  BY <1>4 DEF OpenDns, StartDns, netVars
<1>5. CASE CloseBegin
  BY <1>5 DEF CloseBegin, TellDns
<1>6. CASE CloseHttpd
  BY <1>6 DEF CloseHttpd, Closed
<1>7. CASE CloseRadio
  BY <1>7 DEF CloseRadio, dnsVars
<1>8. CASE OnApEvent \/ StationJoins \/ StationLeaves
  BY <1>8 DEF OnApEvent, StationJoins, StationLeaves, ClientsMayAct, dnsVars
<1>9. CASE HttpAccept
  BY <1>9 DEF HttpAccept, ClientsMayAct
<1>10. CASE HttpClose
  <2>1. PICK fd \in conns : port' = port \ {fd}
    BY <1>10 DEF HttpClose, Closed
  <2>2. UNCHANGED <<task, sock, ctl, sessions, stray>> /\ ctl \in {"open", "httpd_stop"}
    BY <1>10 DEF HttpClose, ClientsMayAct
  <2>3. ~stray => fd \notin port
    BY DEF TableTrue
  <2> QED
    BY <2>1, <2>2, <2>3
<1>11. CASE Dns
  BY <1>11, DnsFirstPort
<1>12. CASE Rest \/ UNCHANGED vars
  BY <1>12 DEF Rest, vars, dnsVars, netVars
<1> QED
  BY <1>1, <1>2, <1>3, <1>4, <1>5, <1>6, <1>7, <1>8, <1>9, <1>10, <1>11, <1>12 DEF Others

\* The number of deletions that may have cost a socket only goes up.
LEMMA DeletionsGrow ==
    ASSUME Owners, Others \/ UNCHANGED vars PROVE Deletions' \in Int /\ Deletions <= Deletions'
<1> USE DEF Owners, At, Deletions
<1>1. CASE OpenBegin
  BY <1>1 DEF OpenBegin
<1>2. CASE ScanOver \/ OpenSoftap \/ OpenDns
  BY <1>2 DEF ScanOver, OpenSoftap, OpenDns, netVars
<1>3. CASE OpenHttpd \/ CloseBegin \/ CloseHttpd \/ CloseRadio
  BY <1>3 DEF OpenHttpd, CloseBegin, CloseHttpd, CloseRadio
<1>4. CASE OnApEvent \/ StationJoins \/ StationLeaves \/ HttpAccept \/ HttpClose \/ Dns
  BY <1>4 DEF OnApEvent, StationJoins, StationLeaves, HttpAccept, HttpClose, Dns
<1>5. CASE Rest \/ UNCHANGED vars
  BY <1>5 DEF Rest, vars, netVars
<1> QED
  BY <1>1, <1>2, <1>3, <1>4, <1>5 DEF Others

----------------------------------------------------------------------------

LEMMA LostFinite == Owners => IsFiniteSet(Lost) /\ Cardinality(Lost) \in Nat
  BY DnsAssumption, FS_Subset, FS_CardinalityType DEF Owners, Lost

LEMMA NetStepInv == NetInv /\ [Next]_vars => NetInv'
<1> SUFFICES ASSUME NetInv, [Next]_vars PROVE NetInv'
  OBVIOUS
<1>1. IsFiniteSet(Lost) /\ Cardinality(Lost) \in Nat /\ Deletions \in Int
  BY LostFinite DEF NetInv, Owners, Deletions
<1>2. CASE Others \/ UNCHANGED vars
  <2>1. Owners' /\ Lost' \subseteq Lost
    BY <1>2, OthersOwners DEF NetInv
  <2>2. FirstPort' /\ TableTrue'
    BY <1>2, OthersFirstPort, OthersTable DEF NetInv
  <2>3. Cardinality(Lost') <= Cardinality(Lost) /\ Cardinality(Lost') \in Nat
    BY <1>1, <2>1, FS_Subset, FS_CardinalityType
  <2>4. Deletions' \in Int /\ Deletions <= Deletions'
    BY <1>2, DeletionsGrow DEF NetInv
  <2>5. OneSocketPerSession'
    BY <1>1, <2>3, <2>4 DEF NetInv, OneSocketPerSession
  <2> QED
    BY <2>1, <2>2, <2>5 DEF NetInv
\* The deleted task's socket is the one that may be lost.
<1>3. CASE CloseDns
  <2>1. /\ ctl = "delete" /\ ctl' = "httpd_stop" /\ sessions' = sessions
        /\ task' = "none" /\ sock' = NoFd /\ UNCHANGED <<open, udp, port, fixed, conns, stray>>
    BY <1>3 DEF CloseDns, DeleteDns, At
  <2>2. Owners' /\ TableTrue' /\ FirstPort'
    BY <2>1, DnsAssumption DEF NetInv, Owners, TableTrue, FirstPort
  <2>3. Lost' \subseteq Lost \cup {sock}
    BY <2>1 DEF Lost
  <2>4. IsFiniteSet(Lost \cup {sock}) /\ Cardinality(Lost \cup {sock}) <= Cardinality(Lost) + 1
    BY <1>1, FS_AddElement
  <2>5. Cardinality(Lost') <= Cardinality(Lost \cup {sock}) /\ Cardinality(Lost') \in Nat
    BY <2>3, <2>4, FS_Subset, FS_CardinalityType
  <2>6. Cardinality(Lost \cup {sock}) \in Nat
    BY <2>4, FS_CardinalityType
  <2>7. Deletions' = Deletions + 1
    BY <2>1 DEF Deletions, NetInv, Owners
  <2>8. OneSocketPerSession'
    BY <1>1, <2>4, <2>5, <2>6, <2>7 DEF NetInv, OneSocketPerSession
  <2> QED
    BY <2>2, <2>8 DEF NetInv
<1> QED
  BY <1>2, <1>3 DEF Next, Portal, Others

LEMMA AlwaysNetInv == Spec => []NetInv
<1> QED
  BY NetInitInv, NetStepInv, PTL DEF Spec

\* dns_server_task, for any pool, clients and errors: until the first portal has been closed and another one
\* opened, or the task has closed a connection of the HTTP server's by mistake, it waits for queries only on
\* a socket that has port 53.
THEOREM FirstAlwaysListens == Spec => []FirstSessionListens
<1>1. NetInv => FirstSessionListens
  BY DEF NetInv, Owners, FirstPort, FirstSessionListens
<1> QED
  BY <1>1, AlwaysNetInv, PTL

\* stop_dns_server, for any pool and traffic: a portal costs lwIP's pool at most one socket.
THEOREM OneSocketAtMost == Spec => []OneSocketPerSession
<1>1. NetInv => OneSocketPerSession
  BY DEF NetInv
<1> QED
  BY <1>1, AlwaysNetInv, PTL

----------------------------------------------------------------------------
(* Type correctness, except for the bound on clients *)

\* A port has one owner at most.
PortOwned == \E fd : port \subseteq {fd}

PlainTypes ==
    /\ PortOwned /\ conns \subseteq Fds /\ stray \in BOOLEAN
    /\ handle \in BOOLEAN /\ started \in BOOLEAN /\ crashed \in BOOLEAN
    /\ task \in Labels /\ sock \in Fds \cup {NoFd}
    /\ errors \in 0..MaxErrors
    /\ ctl \in {"off", "scan", "softap", "httpd", "dns", "open", "delete", "httpd_stop", "radio"}
    /\ sessions \in 0..MaxSessions
    /\ stations \in 0..MaxClients /\ joins \in 0..MaxJoins /\ clients \in Nat
    /\ evq \in Seq({"join", "leave"})

LEMMA NetBounds == MaxSessions \in Nat /\ MaxClients \in Nat /\ MaxJoins \in Nat
<1>1. {MaxSessions, MaxClients, MaxJoins} \subseteq {MaxSessions, MaxClients, MaxJoins, HttpFixed, HttpMax}
  OBVIOUS
<1>2. {MaxSessions, MaxClients, MaxJoins} \subseteq Nat
  BY <1>1, NetAssumption
<1> QED BY <1>2

LEMMA InitTypes == ASSUME Init PROVE PlainTypes
<1>1. sock \in Fds \cup {NoFd} /\ task \in Labels
  BY DEF Init, DnsInit, Labels
<1>2. errors \in 0..MaxErrors
  BY DnsAssumption DEF Init, DnsInit
<1>3. PortOwned /\ conns \subseteq Fds /\ stray \in BOOLEAN
  BY DEF Init, DnsInit, PortOwned
<1>4. evq \in Seq({"join", "leave"})
  BY EmptySeq DEF Init
<1>5. sessions \in 0..MaxSessions /\ stations \in 0..MaxClients /\ joins \in 0..MaxJoins /\ clients \in Nat
  BY NetBounds DEF Init
<1>6. handle \in BOOLEAN /\ started \in BOOLEAN /\ crashed \in BOOLEAN
  BY DEF Init, DnsInit
<1>7. ctl = "off"
  BY DEF Init
<1> QED BY <1>1, <1>2, <1>3, <1>4, <1>5, <1>6, <1>7 DEF PlainTypes

LEMMA DnsTypes == ASSUME Owners, PlainTypes, Dns PROVE PlainTypes'
<1>1. DnsTask /\ UNCHANGED <<ctl, sessions, conns, stations, evq, clients, joins, crashed>>
  BY DEF Dns
<1>2. stray' \in BOOLEAN
  BY DEF Dns, PlainTypes
<1>3. errors' \in 0..MaxErrors
  <2>1. errors' = errors \/ Fails
    BY <1>1 DEF DnsTask, DnsSocket, DnsBind, DnsRecv, DnsRecvFails, DnsReply, DnsClose
  <2> QED BY <2>1, DnsAssumption DEF Fails, PlainTypes
<1>4. task' \in Labels /\ handle' \in BOOLEAN /\ started' \in BOOLEAN
  BY <1>1 DEF DnsTask, DnsSocket, DnsBind, DnsRecv, DnsRecvFails, DnsReply, DnsClose, Go, NextPass, Labels, PlainTypes
<1>5. sock' \in Fds \cup {NoFd}
  BY <1>1 DEF DnsTask, DnsSocket, DnsBind, DnsRecv, DnsRecvFails, DnsReply, DnsClose, PlainTypes
<1>6. PortOwned'
  <2>1. port' \subseteq port \/ port' = {sock}
    BY <1>1 DEF DnsTask, DnsSocket, DnsBind, DnsRecv, DnsRecvFails, DnsReply, DnsClose, Bound, Closed
  <2> QED BY <2>1 DEF PlainTypes, PortOwned
<1> QED BY <1>1, <1>2, <1>3, <1>4, <1>5, <1>6 DEF PlainTypes

\* What the driver posts when the SoftAP's clients are sent away.
Leaves(k) == [i \in 1..k |-> "leave"]

LEMMA LeavesProperties ==
    ASSUME NEW q \in Seq({"join", "leave"}), NEW k \in Nat, NEW r, r = q \o Leaves(k)
    PROVE  /\ r \in Seq({"join", "leave"}) /\ Len(r) = Len(q) + k
           /\ \A i \in 1..Len(r) : r[i] = IF i <= Len(q) THEN q[i] ELSE "leave"
<1>1. PICK u : u = Leaves(k)
  OBVIOUS
<1>2. u \in [1..k -> {"join", "leave"}] /\ \A i \in 1..k : u[i] = "leave"
  BY <1>1 DEF Leaves
<1>3. u \in Seq({"join", "leave"}) /\ Len(u) = k
  BY <1>2, IsASeq, LenProperties
<1>4. /\ r \in Seq({"join", "leave"}) /\ Len(r) = Len(q) + k /\ Len(q) \in Nat
      /\ \A i \in 1..(Len(q) + k) : r[i] = IF i <= Len(q) THEN q[i] ELSE u[i - Len(q)]
  BY <1>1, <1>3, ConcatProperties, LenProperties
<1>5. ASSUME NEW i \in 1..Len(r) PROVE r[i] = IF i <= Len(q) THEN q[i] ELSE "leave"
  <2>1. i <= Len(q) \/ i - Len(q) \in 1..k
    BY <1>4
  <2> QED BY <1>2, <1>4, <2>1
<1> QED BY <1>4, <1>5

LEMMA SentAway ==
    ASSUME evq \in Seq({"join", "leave"}), stations \in 0..MaxClients, evq' = evq \o Leaves(stations)
    PROVE  /\ evq' \in Seq({"join", "leave"}) /\ Len(evq') = Len(evq) + stations
           /\ \A i \in 1..Len(evq') : evq'[i] = IF i <= Len(evq) THEN evq[i] ELSE "leave"
<1>1. stations \in Nat
  BY NetBounds
<1>2. PICK r : r = evq \o Leaves(stations)
  OBVIOUS
<1> QED BY <1>1, <1>2, LeavesProperties

LEMMA OtherTypes ==
    ASSUME Owners, PlainTypes, Portal \/ OnApEvent \/ StationJoins \/ StationLeaves \/ HttpAccept \/ HttpClose
    PROVE  PlainTypes'
<1>1. CASE OpenBegin
  <2>1. sessions' \in 0..MaxSessions
    BY <1>1, NetBounds DEF OpenBegin, PlainTypes
  <2> QED BY <1>1, <2>1 DEF OpenBegin, At, dnsVars, PlainTypes, PortOwned
<1>2. CASE ScanOver \/ OpenSoftap
  BY <1>2 DEF ScanOver, OpenSoftap, At, dnsVars, netVars, PlainTypes, PortOwned
<1>3. CASE OpenHttpd
  <2>1. UNCHANGED <<port, handle, started, task, sock, errors, sessions, conns, stray, clients, joins, crashed>>
    BY <1>3 DEF OpenHttpd
  <2>2. stations' \in 0..MaxClients /\ evq' \in Seq({"join", "leave"}) /\ ctl' \in {"dns", "off"}
    <3>1. CASE Cardinality(Free) >= HttpFixed
      BY <1>3, <3>1 DEF OpenHttpd, At, PlainTypes
    <3>2. CASE ~(Cardinality(Free) >= HttpFixed)
      <4>1. stations' = 0 /\ evq' = evq \o Leaves(stations) /\ ctl' = "off"
        BY <1>3, <3>2 DEF OpenHttpd, At, Leaves
      <4>2. evq' \in Seq({"join", "leave"})
        BY <4>1, SentAway DEF PlainTypes
      <4> QED BY <4>1, <4>2, NetBounds
    <3> QED BY <3>1, <3>2
  <2> QED BY <2>1, <2>2 DEF PlainTypes, PortOwned
<1>4. CASE OpenDns
  BY <1>4 DEF OpenDns, StartDns, At, netVars, PlainTypes, PortOwned, Labels
<1>5. CASE CloseBegin
  BY <1>5 DEF CloseBegin, TellDns, At, PlainTypes, PortOwned
<1>6. CASE CloseDns
  BY <1>6 DEF CloseDns, DeleteDns, At, PlainTypes, PortOwned, Labels
<1>7. CASE CloseHttpd
  BY <1>7 DEF CloseHttpd, Closed, At, PlainTypes, PortOwned
<1>8. CASE CloseRadio
  <2>1. stations' = 0 /\ evq' = evq \o Leaves(stations)
    BY <1>8 DEF CloseRadio, Leaves
  <2>2. evq' \in Seq({"join", "leave"})
    BY <2>1, SentAway DEF PlainTypes
  <2>3. stations' \in 0..MaxClients
    BY <2>1, NetBounds
  <2> QED BY <1>8, <2>2, <2>3 DEF CloseRadio, At, dnsVars, PlainTypes, PortOwned
<1>9. CASE OnApEvent
  <2>1. evq' \in Seq({"join", "leave"}) /\ clients' \in Nat
    BY <1>9, HeadTailProperties DEF OnApEvent, PlainTypes
  <2> QED BY <1>9, <2>1 DEF OnApEvent, dnsVars, PlainTypes, PortOwned
<1>10. CASE StationJoins
  <2>1. evq' \in Seq({"join", "leave"}) /\ stations' \in 0..MaxClients /\ joins' \in 0..MaxJoins
    BY <1>10, AppendProperties, NetBounds DEF StationJoins, PlainTypes
  <2> QED BY <1>10, <2>1 DEF StationJoins, dnsVars, PlainTypes, PortOwned
<1>11. CASE StationLeaves
  <2>1. evq' \in Seq({"join", "leave"}) /\ stations' \in 0..MaxClients
    BY <1>11, AppendProperties, NetBounds DEF StationLeaves, PlainTypes
  <2> QED BY <1>11, <2>1 DEF StationLeaves, dnsVars, PlainTypes, PortOwned
<1>12. CASE HttpAccept
  <2>1. conns' \subseteq Fds
    BY <1>12 DEF HttpAccept, PlainTypes
  <2> QED BY <1>12, <2>1 DEF HttpAccept, PlainTypes, PortOwned
<1>13. CASE HttpClose
  <2>1. PortOwned'
    BY <1>13 DEF HttpClose, Closed, PlainTypes, PortOwned
  <2> QED BY <1>13, <2>1 DEF HttpClose, PlainTypes
<1> QED BY <1>1, <1>2, <1>3, <1>4, <1>5, <1>6, <1>7, <1>8, <1>9, <1>10, <1>11, <1>12, <1>13 DEF Portal

----------------------------------------------------------------------------
(* The clients' events and the count *)

\* What an event adds to a count of the clients, and to one of their arrivals.
Net == [e \in {"join", "leave"} |-> IF e = "join" THEN 1 ELSE -1]
Arrival == [e \in {"join", "leave"} |-> IF e = "join" THEN 1 ELSE 0]

\* s[i] is what the events of q, from its i-th on, have still to add.
Pending(q, w, s) ==
    /\ s \in [1..(Len(q) + 1) -> Int] /\ s[Len(q) + 1] = 0
    /\ \A i \in 1..Len(q) : s[i] = s[i + 1] + w[q[i]]

LEMMA WeightTypes == Net \in [{"join", "leave"} -> Int] /\ Arrival \in [{"join", "leave"} -> Int]
  BY DEF Net, Arrival

LEMMA WeightValues == Net["join"] = 1 /\ Net["leave"] = -1 /\ Arrival["join"] = 1 /\ Arrival["leave"] = 0
  BY DEF Net, Arrival

\* The first event is handled.
Handled(q, r, w, s, t) ==
    /\ Pending(r, w, t)
    /\ \A i \in 1..(Len(r) + 1) : t[i] = s[i + 1]
    /\ s[1] = t[1] + w[Head(q)]

LEMMA TailPending ==
    ASSUME NEW q \in Seq({"join", "leave"}), q # <<>>, NEW r, r = Tail(q),
           NEW w \in [{"join", "leave"} -> Int], NEW s, Pending(q, w, s)
    PROVE  \E t : Handled(q, r, w, s, t)
<1>1. /\ r \in Seq({"join", "leave"}) /\ Len(r) = Len(q) - 1 /\ Len(q) \in Nat /\ Len(r) \in Nat
      /\ \A i \in 1..Len(r) : r[i] = q[i + 1]
  BY HeadTailProperties, LenProperties
<1>2. Head(q) = q[1]
  OBVIOUS
<1>3. PICK t : t = [i \in 1..(Len(r) + 1) |-> s[i + 1]]
  OBVIOUS
<1>4. \A i \in 1..(Len(r) + 1) : t[i] = s[i + 1] /\ i + 1 \in 1..(Len(q) + 1)
  BY <1>1, <1>3
<1>5. t \in [1..(Len(r) + 1) -> Int]
  BY <1>1, <1>3, <1>4 DEF Pending
<1>6. t[Len(r) + 1] = 0
  BY <1>1, <1>4 DEF Pending
<1>7. ASSUME NEW i \in 1..Len(r) PROVE t[i] = t[i + 1] + w[r[i]]
  <2>1. i + 1 \in 1..Len(q) /\ i \in 1..(Len(r) + 1) /\ i + 1 \in 1..(Len(r) + 1)
    BY <1>1
  <2> QED BY <1>1, <1>4, <2>1 DEF Pending
<1>8. s[1] = t[1] + w[Head(q)]
  <2>1. 1 \in 1..Len(q) /\ 1 \in 1..(Len(r) + 1)
    BY <1>1
  <2> QED BY <1>2, <1>4, <2>1 DEF Pending
<1>9. Pending(r, w, t)
  BY <1>5, <1>6, <1>7 DEF Pending
<1> QED BY <1>4, <1>8, <1>9 DEF Handled

\* An event is posted.
Posted(q, e, r, w, s, t) ==
    /\ Pending(r, w, t) /\ Len(r) = Len(q) + 1 /\ Len(q) \in Nat
    /\ \A i \in 1..(Len(q) + 1) : t[i] = s[i] + w[e]

LEMMA AppendPending ==
    ASSUME NEW q \in Seq({"join", "leave"}), NEW e \in {"join", "leave"}, NEW r, r = Append(q, e),
           NEW w \in [{"join", "leave"} -> Int], NEW s, Pending(q, w, s)
    PROVE  \E t : Posted(q, e, r, w, s, t)
<1>1. /\ r \in Seq({"join", "leave"}) /\ Len(r) = Len(q) + 1 /\ Len(q) \in Nat
      /\ \A i \in 1..Len(q) : r[i] = q[i]
      /\ r[Len(q) + 1] = e
  BY AppendProperties, LenProperties
<1>2. PICK t : t = [i \in 1..(Len(r) + 1) |-> IF i = Len(r) + 1 THEN 0 ELSE s[i] + w[e]]
  OBVIOUS
<1>3. w[e] \in Int
  OBVIOUS
<1>4. \A i \in 1..(Len(q) + 1) : t[i] = s[i] + w[e] /\ s[i] \in Int
  BY <1>1, <1>2 DEF Pending
<1>5. t[Len(r) + 1] = 0
  BY <1>1, <1>2
<1>6. t \in [1..(Len(r) + 1) -> Int]
  BY <1>1, <1>2, <1>3, <1>4 DEF Pending
<1>7. ASSUME NEW i \in 1..Len(r) PROVE t[i] = t[i + 1] + w[r[i]]
  <2>1. CASE i = Len(r)
    BY <1>1, <1>3, <1>4, <1>5, <2>1 DEF Pending
  <2>2. CASE i # Len(r)
    <3>1. i \in 1..Len(q) /\ i \in 1..(Len(q) + 1) /\ i + 1 \in 1..(Len(q) + 1)
      BY <1>1, <2>2
    <3>2. s[i] = s[i + 1] + w[q[i]] /\ r[i] = q[i] /\ q[i] \in {"join", "leave"}
      BY <1>1, <3>1, LenProperties DEF Pending
    <3>3. w[q[i]] \in Int
      BY <3>2
    <3> QED BY <1>3, <1>4, <3>1, <3>2, <3>3
  <2> QED BY <2>1, <2>2
<1>8. Pending(r, w, t)
  BY <1>5, <1>6, <1>7 DEF Pending
<1> QED BY <1>1, <1>4, <1>8 DEF Posted

\* The clients are sent away.
Gone(q, k, r, w, s, t) ==
    /\ Pending(r, w, t) /\ Len(q) \in Nat
    /\ \A i \in 1..(Len(q) + 1) : t[i] = IF w["leave"] = 0 THEN s[i] ELSE s[i] - k
    /\ \A i \in (Len(q) + 1)..(Len(r) + 1) : t[i] = IF w["leave"] = 0 THEN 0 ELSE i - (Len(r) + 1)

LEMMA LeavesPending ==
    ASSUME NEW q \in Seq({"join", "leave"}), NEW k \in Nat, NEW r \in Seq({"join", "leave"}),
           Len(r) = Len(q) + k, \A i \in 1..Len(r) : r[i] = IF i <= Len(q) THEN q[i] ELSE "leave",
           NEW w \in [{"join", "leave"} -> Int], w["leave"] \in {-1, 0}, NEW s, Pending(q, w, s)
    PROVE  \E t : Gone(q, k, r, w, s, t)
<1>1. Len(q) \in Nat /\ Len(r) \in Nat /\ (\A i \in 1..Len(q) : q[i] \in {"join", "leave"})
  BY LenProperties
<1>2. PICK t : t = [i \in 1..(Len(r) + 1) |->
            IF i <= Len(q) THEN (IF w["leave"] = 0 THEN s[i] ELSE s[i] - k)
            ELSE (IF w["leave"] = 0 THEN 0 ELSE i - (Len(r) + 1))]
  OBVIOUS
<1>3. \A i \in 1..(Len(q) + 1) : s[i] \in Int
  BY DEF Pending
<1>4. \A i \in 1..Len(q) : t[i] = IF w["leave"] = 0 THEN s[i] ELSE s[i] - k
  BY <1>1, <1>2
<1>5. \A i \in (Len(q) + 1)..(Len(r) + 1) : t[i] = IF w["leave"] = 0 THEN 0 ELSE i - (Len(r) + 1)
  BY <1>1, <1>2
<1>6. t[Len(q) + 1] = IF w["leave"] = 0 THEN 0 ELSE 0 - k
  BY <1>1, <1>5
<1>7. \A i \in 1..(Len(q) + 1) : t[i] = IF w["leave"] = 0 THEN s[i] ELSE s[i] - k
  BY <1>1, <1>4, <1>6 DEF Pending
<1>8. t[Len(r) + 1] = 0
  BY <1>1, <1>5
<1>9. t \in [1..(Len(r) + 1) -> Int]
  <2>1. ASSUME NEW i \in 1..(Len(r) + 1) PROVE t[i] \in Int
    <3>1. i \in 1..(Len(q) + 1) \/ i \in (Len(q) + 1)..(Len(r) + 1)
      BY <1>1
    <3>2. CASE i \in 1..(Len(q) + 1)
      BY <1>3, <1>7, <3>2
    <3>3. CASE i \in (Len(q) + 1)..(Len(r) + 1)
      BY <1>1, <1>5, <3>3
    <3> QED BY <3>1, <3>2, <3>3
  <2> QED BY <1>2, <2>1
<1>10. ASSUME NEW i \in 1..Len(r) PROVE t[i] = t[i + 1] + w[r[i]]
  <2>1. CASE i <= Len(q)
    <3>1. i \in 1..Len(q) /\ i + 1 \in 1..(Len(q) + 1) /\ i \in 1..(Len(q) + 1)
      BY <1>1, <2>1
    <3>2. s[i] = s[i + 1] + w[q[i]] /\ r[i] = q[i] /\ q[i] \in {"join", "leave"}
      BY <1>1, <2>1, <3>1 DEF Pending
    <3>3. w[q[i]] \in Int
      BY <3>2
    <3>4. s[i] \in Int /\ s[i + 1] \in Int
      BY <1>3, <3>1
    <3>5. CASE w["leave"] = 0
      <4>1. t[i] = s[i] /\ t[i + 1] = s[i + 1]
        BY <1>7, <3>1, <3>5
      <4> QED BY <3>2, <4>1
    <3>6. CASE w["leave"] # 0
      <4>1. t[i] = s[i] - k /\ t[i + 1] = s[i + 1] - k
        BY <1>7, <3>1, <3>6
      <4>2. PICK d : d = w[q[i]]
        OBVIOUS
      <4>3. d \in Int /\ s[i] = s[i + 1] + d /\ w[r[i]] = d
        BY <3>2, <3>3, <4>2
      <4>4. t[i] = t[i + 1] + d
        BY <3>4, <4>1, <4>3
      <4> QED BY <4>3, <4>4
    <3> QED BY <3>5, <3>6
  <2>2. CASE ~(i <= Len(q))
    <3>1. i \in (Len(q) + 1)..(Len(r) + 1) /\ i + 1 \in (Len(q) + 1)..(Len(r) + 1)
      BY <1>1, <2>2
    <3>2. r[i] = "leave"
      BY <2>2
    <3> QED BY <1>1, <1>5, <3>1, <3>2
  <2> QED BY <2>1, <2>2
<1>11. Pending(r, w, t)
  BY <1>8, <1>9, <1>10 DEF Pending
<1> QED BY <1>1, <1>5, <1>7, <1>11 DEF Gone

----------------------------------------------------------------------------
(* The count, and the clients it should be *)

\* s and u are what the waiting events have still to add to the count and to the arrivals.  No more
\* clients are ever counted, or about to be, than there are, nor than have joined.  While the portal is
\* open, and unless a leave the count could not follow is still to come, the two agree in the end.
Counting(s, u) ==
    /\ Pending(evq, Net, s) /\ Pending(evq, Arrival, u)
    /\ \A i \in 1..(Len(evq) + 1) : s[i] <= stations /\ u[i] >= 0
    /\ clients + s[1] <= stations /\ clients + u[1] <= joins
    /\ ctl = "open" => clients + s[1] = stations \/ \E i \in 1..(Len(evq) + 1) : s[i] = stations

Counted ==
    /\ \E s, u : Counting(s, u)
    /\ ctl \notin {"open", "delete", "httpd_stop", "radio"} => stations = 0

CountInv == PlainTypes /\ Counted

LEMMA InitCounted == ASSUME Init PROVE CountInv
<1>1. PICK s : s = [i \in 1..1 |-> 0]
  OBVIOUS
<1>2. s \in [1..1 -> Int] /\ s[1] = 0
  BY <1>1
<1>3. Len(evq) = 0 /\ Len(evq) + 1 = 1 /\ stations = 0 /\ clients = 0 /\ joins = 0 /\ ctl = "off"
  BY EmptySeq DEF Init
<1>4. Pending(evq, Net, s) /\ Pending(evq, Arrival, s)
  BY <1>2, <1>3 DEF Pending
<1>5. Counting(s, s)
  BY <1>2, <1>3, <1>4 DEF Counting
<1> QED BY <1>3, <1>5, InitTypes DEF CountInv, Counted

LEMMA QuietCounted ==
    ASSUME CountInv, UNCHANGED <<evq, stations, joins>>, clients' = clients \/ clients' = 0,
           ctl' = "open" => (ctl = "open" /\ clients' = clients) \/ stations = 0,
           ctl' \notin {"open", "delete", "httpd_stop", "radio"} => stations = 0
    PROVE  Counted'
<1>1. PICK s, u : Counting(s, u)
  BY DEF CountInv, Counted
<1>2. Len(evq) \in Nat /\ clients \in Nat /\ stations \in Int
  BY LenProperties, NetBounds DEF CountInv, PlainTypes
<1>3. s[1] \in Int /\ u[1] \in Int /\ s[Len(evq) + 1] = 0
  <2>1. 1 \in 1..(Len(evq) + 1)
    BY <1>2
  <2>2. Pending(evq, Net, s) /\ Pending(evq, Arrival, u)
    BY <1>1 DEF Counting
  <2> QED BY <2>1, <2>2 DEF Pending
<1>4. Pending(evq', Net, s) /\ Pending(evq', Arrival, u)
  BY <1>1 DEF Counting
<1>5. 1 \in 1..(Len(evq) + 1) /\ Len(evq) + 1 \in 1..(Len(evq) + 1)
  BY <1>2
<1>6. joins \in Int /\ joins >= 0
  BY NetBounds DEF CountInv, PlainTypes
<1>7. clients' + s[1] <= stations /\ clients' + u[1] <= joins
  BY <1>1, <1>2, <1>3, <1>5, <1>6 DEF Counting
<1>8. ctl' = "open" => clients' + s[1] = stations \/ \E i \in 1..(Len(evq) + 1) : s[i] = stations
  BY <1>1, <1>3, <1>5 DEF Counting
<1>9. Counting(s, u)'
  BY <1>1, <1>4, <1>7, <1>8 DEF Counting
<1> QED BY <1>9 DEF Counted

LEMMA EventCounted == ASSUME CountInv, OnApEvent PROVE Counted'
<1>1. PICK s, u : Counting(s, u)
  BY DEF CountInv, Counted
<1>2. evq \in Seq({"join", "leave"}) /\ evq # <<>> /\ evq' = Tail(evq) /\ clients \in Nat /\ stations \in Nat /\ joins \in Nat
  BY NetBounds DEF CountInv, PlainTypes, OnApEvent
<1>3. Head(evq) \in {"join", "leave"} /\ Len(evq') = Len(evq) - 1 /\ Len(evq) \in Nat /\ Len(evq') \in Nat
  BY <1>2, HeadTailProperties, LenProperties
<1>4. UNCHANGED <<ctl, stations, joins>>
  BY DEF OnApEvent
<1>5. PICK r : r = Tail(evq)
  OBVIOUS
<1>6. PICK t : Handled(evq, r, Net, s, t)
  <2>1. Pending(evq, Net, s)
    BY <1>1 DEF Counting
  <2> QED BY <1>2, <1>5, <2>1, WeightTypes, TailPending
<1>7. PICK v : Handled(evq, r, Arrival, u, v)
  <2>1. Pending(evq, Arrival, u)
    BY <1>1 DEF Counting
  <2> QED BY <1>2, <1>5, <2>1, WeightTypes, TailPending
<1>8. r = evq'
  BY <1>2, <1>5
<1>9. \A i \in 1..(Len(evq') + 1) : t[i] <= stations /\ v[i] >= 0 /\ t[i] \in Int /\ v[i] \in Int
  <2> SUFFICES ASSUME NEW i \in 1..(Len(evq') + 1) PROVE t[i] <= stations /\ v[i] >= 0 /\ t[i] \in Int /\ v[i] \in Int
    OBVIOUS
  <2>1. i + 1 \in 1..(Len(evq) + 1)
    BY <1>3
  <2>2. s[i + 1] \in Int /\ u[i + 1] \in Int /\ s[i + 1] <= stations /\ u[i + 1] >= 0
    BY <1>1, <2>1 DEF Counting, Pending
  <2> QED BY <1>6, <1>7, <1>8, <2>2 DEF Handled
<1>10. 1 \in 1..(Len(evq') + 1) /\ 1 \in 1..(Len(evq) + 1)
  BY <1>3
<1>11. t[1] \in Int /\ v[1] \in Int /\ t[1] <= stations /\ v[1] >= 0
  BY <1>9, <1>10
<1>12. s[1] <= stations /\ clients + s[1] <= stations /\ clients + u[1] <= joins
  BY <1>1, <1>10 DEF Counting
\* The event that is handled was the one after which the clients were as many as there are.
<1>13. ctl = "open" => \/ clients + s[1] = stations \/ s[1] = stations
                       \/ \E i \in 1..(Len(evq') + 1) : t[i] = stations
  <2>1. ASSUME NEW i \in 1..(Len(evq) + 1), s[i] = stations, i # 1
        PROVE  \E j \in 1..(Len(evq') + 1) : t[j] = stations
    <3>1. i - 1 \in 1..(Len(evq') + 1) /\ (i - 1) + 1 = i
      BY <1>3, <2>1
    <3>2. t[i - 1] = s[(i - 1) + 1]
      BY <1>6, <1>8, <3>1 DEF Handled
    <3> QED BY <2>1, <3>1, <3>2
  <2> QED BY <1>1, <2>1 DEF Counting
<1>14. CASE Head(evq) = "join"
  <2>1. s[1] = t[1] + 1 /\ u[1] = v[1] + 1 /\ clients' = clients + 1
    BY <1>6, <1>7, <1>14, WeightValues DEF OnApEvent, Handled
  <2>2. clients' + t[1] <= stations /\ clients' + v[1] <= joins
    BY <1>2, <1>11, <1>12, <2>1
  <2>3. ctl = "open" => clients' + t[1] = stations \/ \E i \in 1..(Len(evq') + 1) : t[i] = stations
    <3> SUFFICES ASSUME ctl = "open", ~\E i \in 1..(Len(evq') + 1) : t[i] = stations
                 PROVE  clients' + t[1] = stations
      OBVIOUS
    <3>1. clients + s[1] = stations \/ s[1] = stations
      BY <1>13
    <3>2. t[1] # stations
      BY <1>10
    <3> QED BY <1>2, <1>11, <2>1, <2>2, <3>1, <3>2
  <2> QED BY <1>4, <1>6, <1>7, <1>8, <1>9, <2>2, <2>3 DEF Handled, Counting, Counted, CountInv
<1>15. CASE Head(evq) = "leave"
  <2>1. s[1] = t[1] - 1 /\ u[1] = v[1] /\ clients' = IF clients > 0 THEN clients - 1 ELSE clients
    BY <1>6, <1>7, <1>11, <1>15, WeightValues DEF OnApEvent, Handled
  <2>2. clients' + t[1] <= stations /\ clients' + v[1] <= joins
    BY <1>2, <1>11, <1>12, <2>1
  \* A count that could not be lowered leaves at most as many clients as there are.
  <2>3. ctl = "open" => clients' + t[1] = stations \/ \E i \in 1..(Len(evq') + 1) : t[i] = stations
    <3> SUFFICES ASSUME ctl = "open", ~\E i \in 1..(Len(evq') + 1) : t[i] = stations
                 PROVE  clients' + t[1] = stations
      OBVIOUS
    <3>1. clients + s[1] = stations \/ s[1] = stations
      BY <1>13
    <3>2. t[1] # stations
      BY <1>10
    <3> QED BY <1>2, <1>11, <2>1, <2>2, <3>1, <3>2
  <2> QED BY <1>4, <1>6, <1>7, <1>8, <1>9, <2>2, <2>3 DEF Handled, Counting, Counted, CountInv
<1> QED BY <1>3, <1>14, <1>15


LEMMA PostCounted ==
    ASSUME CountInv, NEW e \in {"join", "leave"}, evq' = Append(evq, e), UNCHANGED <<ctl, clients>>,
           ctl \in {"open", "httpd_stop"},
           stations' = stations + Net[e], stations' \in Nat, joins' = joins + Arrival[e]
    PROVE  Counted'
<1>1. PICK s, u : Counting(s, u)
  BY DEF CountInv, Counted
<1>2. evq \in Seq({"join", "leave"}) /\ clients \in Nat /\ stations \in Nat /\ joins \in Nat
  BY NetBounds DEF CountInv, PlainTypes
<1>3. PICK r : r = Append(evq, e)
  OBVIOUS
<1>4. PICK t : Posted(evq, e, r, Net, s, t)
  <2>1. Pending(evq, Net, s)
    BY <1>1 DEF Counting
  <2> QED BY <1>2, <1>3, <2>1, WeightTypes, AppendPending
<1>5. PICK v : Posted(evq, e, r, Arrival, u, v)
  <2>1. Pending(evq, Arrival, u)
    BY <1>1 DEF Counting
  <2> QED BY <1>2, <1>3, <2>1, WeightTypes, AppendPending
<1>6. r = evq'
  BY <1>3
<1>7. Len(evq') = Len(evq) + 1 /\ Len(evq) \in Nat
  BY <1>4, <1>6 DEF Posted
<1>8. Pending(evq', Net, t) /\ Pending(evq', Arrival, v)
  BY <1>4, <1>5, <1>6 DEF Posted
<1>9. PICK d, a : d = Net[e] /\ a = Arrival[e]
  OBVIOUS
<1>10. d \in {1, -1} /\ a \in {0, 1}
  BY <1>9, WeightValues
<1>11. t[Len(evq') + 1] = 0 /\ v[Len(evq') + 1] = 0
  BY <1>8 DEF Pending
<1>12. \A i \in 1..(Len(evq) + 1) : /\ t[i] = s[i] + d /\ v[i] = u[i] + a
                                    /\ s[i] \in Int /\ u[i] \in Int /\ s[i] <= stations /\ u[i] >= 0
  <2> SUFFICES ASSUME NEW i \in 1..(Len(evq) + 1)
               PROVE  /\ t[i] = s[i] + d /\ v[i] = u[i] + a
                      /\ s[i] \in Int /\ u[i] \in Int /\ s[i] <= stations /\ u[i] >= 0
    OBVIOUS
  <2>1. s[i] \in Int /\ u[i] \in Int /\ s[i] <= stations /\ u[i] >= 0
    BY <1>1 DEF Counting, Pending
  <2>2. t[i] = s[i] + d /\ v[i] = u[i] + a
    BY <1>4, <1>5, <1>9 DEF Posted
  <2> QED BY <2>1, <2>2
<1>13. \A i \in 1..(Len(evq') + 1) : t[i] <= stations' /\ v[i] >= 0
  <2> SUFFICES ASSUME NEW i \in 1..(Len(evq') + 1) PROVE t[i] <= stations' /\ v[i] >= 0
    OBVIOUS
  <2>1. i \in 1..(Len(evq) + 1) \/ i = Len(evq') + 1
    BY <1>7
  <2>2. CASE i = Len(evq') + 1
    BY <1>11, <2>2
  <2>3. CASE i \in 1..(Len(evq) + 1)
    <3>1. t[i] = s[i] + d /\ v[i] = u[i] + a /\ s[i] \in Int /\ u[i] \in Int /\ s[i] <= stations /\ u[i] >= 0
      BY <1>12, <2>3
    <3>2. stations' = stations + d
      BY <1>9
    <3>3. t[i] <= stations'
      BY <1>2, <1>10, <3>1, <3>2
    <3>4. v[i] >= 0
      BY <1>10, <3>1
    <3> QED BY <3>3, <3>4
  <2> QED BY <2>1, <2>2, <2>3
<1>14. 1 \in 1..(Len(evq) + 1)
  BY <1>7
<1>15. clients' + t[1] <= stations' /\ clients' + v[1] <= joins'
  <2>1. clients + s[1] <= stations /\ clients + u[1] <= joins
    BY <1>1 DEF Counting
  <2>2. t[1] = s[1] + d /\ v[1] = u[1] + a /\ s[1] \in Int /\ u[1] \in Int
    BY <1>12, <1>14
  <2>3. stations' = stations + d /\ joins' = joins + a
    BY <1>9
  <2>4. clients' + t[1] <= stations'
    <3>1. PICK p, n \in Int : p = s[1] /\ n = clients'
      BY <1>2, <2>2
    <3>2. n + p <= stations /\ stations \in Int /\ d \in Int
      BY <1>2, <1>10, <2>1, <3>1
    <3>3. n + (p + d) <= stations + d
      BY <3>2
    <3> QED BY <2>2, <2>3, <3>1, <3>3
  <2>5. clients' + v[1] <= joins'
    BY <1>2, <1>10, <2>1, <2>2, <2>3
  <2> QED BY <2>4, <2>5
<1>16. ASSUME ctl' = "open"
       PROVE  clients' + t[1] = stations' \/ \E i \in 1..(Len(evq') + 1) : t[i] = stations'
  <2>1. clients + s[1] = stations \/ \E i \in 1..(Len(evq) + 1) : s[i] = stations
    BY <1>1, <1>16 DEF Counting
  <2>2. CASE clients + s[1] = stations
    BY <1>2, <1>9, <1>10, <1>12, <1>14, <2>2
  <2>3. ASSUME NEW i \in 1..(Len(evq) + 1), s[i] = stations PROVE i \in 1..(Len(evq') + 1) /\ t[i] = stations'
    BY <1>7, <1>9, <1>12, <2>3
  <2> QED BY <2>1, <2>2, <2>3
<1>17. Counting(t, v)'
  BY <1>8, <1>13, <1>15, <1>16 DEF Counting
<1> QED BY <1>17 DEF Counted

LEMMA SentAwayCounted ==
    ASSUME CountInv, evq' = evq \o Leaves(stations), stations' = 0, UNCHANGED <<clients, joins>>, ctl' # "open"
    PROVE  Counted'
<1>1. PICK s, u : Counting(s, u)
  BY DEF CountInv, Counted
<1>2. evq \in Seq({"join", "leave"}) /\ clients \in Nat /\ stations \in Nat /\ joins \in Nat
  BY NetBounds DEF CountInv, PlainTypes
<1>3. PICK r, k : r = evq' /\ k = stations
  OBVIOUS
<1>4. /\ r \in Seq({"join", "leave"}) /\ k \in Nat /\ Len(r) = Len(evq) + k
      /\ \A i \in 1..Len(r) : r[i] = IF i <= Len(evq) THEN evq[i] ELSE "leave"
  BY <1>2, <1>3, SentAway DEF CountInv, PlainTypes
<1>5. PICK t : Gone(evq, k, r, Net, s, t)
  <2>1. Pending(evq, Net, s) /\ Net["leave"] \in {-1, 0}
    BY <1>1, WeightValues DEF Counting
  <2> QED BY <1>2, <1>4, <2>1, WeightTypes, LeavesPending
<1>6. PICK v : Gone(evq, k, r, Arrival, u, v)
  <2>1. Pending(evq, Arrival, u) /\ Arrival["leave"] \in {-1, 0}
    BY <1>1, WeightValues DEF Counting
  <2> QED BY <1>2, <1>4, <2>1, WeightTypes, LeavesPending
<1>7. Pending(evq', Net, t) /\ Pending(evq', Arrival, v) /\ Len(evq) \in Nat
  BY <1>3, <1>5, <1>6 DEF Gone
<1>8. \A i \in 1..(Len(evq) + 1) : /\ t[i] = s[i] - k /\ v[i] = u[i]
                                   /\ s[i] \in Int /\ u[i] \in Int /\ s[i] <= k /\ u[i] >= 0
  <2> SUFFICES ASSUME NEW i \in 1..(Len(evq) + 1)
               PROVE  /\ t[i] = s[i] - k /\ v[i] = u[i]
                      /\ s[i] \in Int /\ u[i] \in Int /\ s[i] <= k /\ u[i] >= 0
    OBVIOUS
  <2>1. s[i] \in Int /\ u[i] \in Int /\ s[i] <= k /\ u[i] >= 0
    BY <1>1, <1>3 DEF Counting, Pending
  <2>2. t[i] = s[i] - k /\ v[i] = u[i]
    BY <1>5, <1>6, WeightValues DEF Gone
  <2> QED BY <2>1, <2>2
<1>9. \A i \in (Len(evq) + 1)..(Len(r) + 1) : t[i] = i - (Len(r) + 1) /\ v[i] = 0
  BY <1>5, <1>6, WeightValues DEF Gone
<1>10. \A i \in 1..(Len(evq') + 1) : t[i] <= stations' /\ v[i] >= 0
  <2> SUFFICES ASSUME NEW i \in 1..(Len(evq') + 1) PROVE t[i] <= 0 /\ v[i] >= 0
    OBVIOUS
  <2>1. Len(r) \in Nat /\ i \in Nat /\ i <= Len(r) + 1
    BY <1>3, <1>4, LenProperties
  <2>2. CASE i \in 1..(Len(evq) + 1)
    <3>1. t[i] = s[i] - k /\ v[i] = u[i] /\ s[i] \in Int /\ s[i] <= k /\ u[i] >= 0
      BY <1>8, <2>2
    <3> QED BY <1>4, <3>1
  <2>3. CASE i \in (Len(evq) + 1)..(Len(r) + 1)
    BY <1>9, <2>1, <2>3
  <2> QED BY <1>7, <2>1, <2>2, <2>3
<1>11. 1 \in 1..(Len(evq) + 1)
  BY <1>7
<1>12. clients' + t[1] <= stations' /\ clients' + v[1] <= joins'
  <2>1. clients + s[1] <= k /\ clients + u[1] <= joins
    BY <1>1, <1>3 DEF Counting
  <2> QED BY <1>2, <1>4, <1>8, <1>11, <2>1
<1>13. Counting(t, v)'
  BY <1>7, <1>10, <1>12 DEF Counting
<1> QED BY <1>13 DEF Counted

----------------------------------------------------------------------------

LEMMA StepCounted == ASSUME Owners, CountInv, [Next]_vars PROVE CountInv'
<1> USE DEF CountInv
<1>1. CASE Dns
  <2>1. UNCHANGED <<ctl, sessions, stations, evq, clients, joins>>
    BY <1>1 DEF Dns
  <2>2. Counted'
    BY <2>1, QuietCounted DEF Counted
  <2> QED BY <1>1, <2>2, DnsTypes
<1>2. CASE Portal \/ OnApEvent \/ StationJoins \/ StationLeaves \/ HttpAccept \/ HttpClose
  <2>1. PlainTypes'
    BY <1>2, OtherTypes
  <2>2. CASE OpenBegin \/ ScanOver \/ OpenSoftap \/ OpenDns \/ CloseBegin \/ CloseDns \/ CloseHttpd
    <3>1. UNCHANGED <<evq, stations, joins>> /\ (clients' = clients \/ clients' = 0)
      BY <2>2 DEF OpenBegin, ScanOver, OpenSoftap, OpenDns, CloseBegin, CloseDns, CloseHttpd, netVars
    <3>2. /\ ctl' = "open" => (ctl = "open" /\ clients' = clients) \/ stations = 0
          /\ ctl' \notin {"open", "delete", "httpd_stop", "radio"} => stations = 0
      BY <2>2 DEF OpenBegin, ScanOver, OpenSoftap, OpenDns, CloseBegin, CloseDns, CloseHttpd, At, Counted
    <3> QED BY <2>1, <3>1, <3>2, QuietCounted
  <2>3. CASE OpenHttpd
    <3>1. CASE ctl' = "dns"
      <4>1. UNCHANGED <<evq, stations, joins, clients>> /\ ctl = "httpd"
        BY <2>3, <3>1 DEF OpenHttpd, At
      <4>2. stations = 0
        BY <4>1 DEF Counted
      <4> QED BY <2>1, <3>1, <4>1, <4>2, QuietCounted
    <3>2. CASE ctl' # "dns"
      <4>1. evq' = evq \o Leaves(stations) /\ stations' = 0 /\ UNCHANGED <<clients, joins>> /\ ctl' # "open"
        BY <2>3, <3>2 DEF OpenHttpd, At, Leaves
      <4> QED BY <2>1, <4>1, SentAwayCounted
    <3> QED BY <3>1, <3>2
  <2>4. CASE CloseRadio
    <3>1. evq' = evq \o Leaves(stations) /\ stations' = 0 /\ UNCHANGED <<clients, joins>> /\ ctl' # "open"
      BY <2>4 DEF CloseRadio, At, Leaves
    <3> QED BY <2>1, <3>1, SentAwayCounted
  <2>5. CASE OnApEvent
    BY <2>1, <2>5, EventCounted
  <2>6. CASE StationJoins
    <3>1. /\ evq' = Append(evq, "join") /\ UNCHANGED <<ctl, clients>> /\ ctl \in {"open", "httpd_stop"}
          /\ stations' = stations + Net["join"] /\ joins' = joins + Arrival["join"]
      BY <2>6, WeightValues DEF StationJoins, ClientsMayAct
    <3>2. stations' \in Nat
      BY <2>1, NetBounds DEF PlainTypes
    <3>3. PICK e \in {"join", "leave"} : e = "join"
      OBVIOUS
    <3> QED BY <2>1, <3>1, <3>2, <3>3, PostCounted
  <2>7. CASE StationLeaves
    <3>1. /\ evq' = Append(evq, "leave") /\ UNCHANGED <<ctl, clients>> /\ ctl \in {"open", "httpd_stop"}
          /\ stations' = stations + Net["leave"] /\ joins' = joins + Arrival["leave"]
      BY <2>7, WeightValues, NetBounds DEF StationLeaves, ClientsMayAct, PlainTypes
    <3>2. stations' \in Nat
      BY <2>1, NetBounds DEF PlainTypes
    <3>3. PICK e \in {"join", "leave"} : e = "leave"
      OBVIOUS
    <3> QED BY <2>1, <3>1, <3>2, <3>3, PostCounted
  <2>8. CASE HttpAccept \/ HttpClose
    <3>1. UNCHANGED <<ctl, stations, evq, clients, joins>>
      BY <2>8 DEF HttpAccept, HttpClose
    <3> QED BY <2>1, <3>1, QuietCounted DEF Counted
  <2> QED BY <1>2, <2>2, <2>3, <2>4, <2>5, <2>6, <2>7, <2>8 DEF Portal
<1>3. CASE Rest \/ UNCHANGED vars
  <2>1. UNCHANGED <<dnsVars, ctl, netVars>>
    BY <1>3 DEF Rest, vars
  <2>2. PlainTypes'
    BY <2>1 DEF dnsVars, netVars, PlainTypes, PortOwned
  <2>3. Counted'
    BY <2>1, QuietCounted DEF netVars, Counted
  <2> QED BY <2>2, <2>3
<1> QED BY <1>1, <1>2, <1>3 DEF Next

LEMMA AlwaysCounted == Spec => [](Owners /\ CountInv)
<1>1. Init => Owners /\ CountInv
  BY NetInitInv, InitCounted DEF NetInv
<1>2. NetInv /\ CountInv /\ [Next]_vars => CountInv'
  BY StepCounted DEF NetInv
<1>3. NetInv => Owners
  BY DEF NetInv
<1> QED BY <1>1, <1>2, <1>3, AlwaysNetInv, PTL DEF Spec

\* The provisioning session, for any pool and any number of sessions, clients and errors: the portal's
\* record, the driver's and lwIP's keep to their types, port 53 has one owner at most and it is open,
\* and no client is counted who has not joined.
THEOREM NetTypeCorrect == Spec => []TypeOK
<1>1. ASSUME Owners, CountInv PROVE TypeOK
  <2>1. PICK s, u : Counting(s, u)
    BY <1>1 DEF CountInv, Counted
  <2>2. 1 \in 1..(Len(evq) + 1) /\ u[1] \in Int
    <3>1. Len(evq) \in Nat
      BY <1>1, LenProperties DEF CountInv, PlainTypes
    <3>2. Pending(evq, Arrival, u)
      BY <2>1 DEF Counting
    <3> QED BY <3>1, <3>2 DEF Pending
  <2>3. u[1] >= 0 /\ clients + u[1] <= joins
    BY <2>1, <2>2 DEF Counting
  <2>4. clients \in 0..MaxJoins
    BY <1>1, <2>2, <2>3, NetBounds DEF CountInv, PlainTypes
  <2>5. Cardinality(port) <= 1
    <3>1. PICK fd : port \subseteq {fd}
      BY <1>1 DEF CountInv, PlainTypes, PortOwned
    <3>2. IsFiniteSet({fd}) /\ Cardinality({fd}) = 1
      BY FS_Singleton
    <3> QED BY <3>1, <3>2, FS_Subset
  <2>6. DnsTypeOK
    BY <1>1, <2>5 DEF CountInv, PlainTypes, Owners, DnsTypeOK
  <2> QED BY <1>1, <2>4, <2>6 DEF CountInv, PlainTypes, Owners, TypeOK
<1> QED BY <1>1, AlwaysCounted, PTL

\* on_ap_event and provisioning_stop, for any number of clients that join and leave in any order: when no
\* event waits, the count on the LCD is the clients' number while the portal is open, and zero when it is
\* closed, although it is zeroed early and never goes below zero.
THEOREM ClientsAlwaysCounted == Spec => []ClientsCounted
<1>1. ASSUME Owners, CountInv PROVE ClientsCounted
  <2> SUFFICES ASSUME evq = <<>>
               PROVE  (ctl = "open" => clients = stations) /\ (ctl = "off" => clients = 0)
    BY DEF ClientsCounted
  <2>1. PICK s, u : Counting(s, u)
    BY <1>1 DEF CountInv, Counted
  <2>2. Len(evq) = 0 /\ Len(evq) + 1 = 1
    BY EmptySeq
  <2>3. s[1] = 0
    BY <2>1, <2>2 DEF Counting, Pending
  <2>4. clients \in Nat /\ stations \in Nat
    BY <1>1, NetBounds DEF CountInv, PlainTypes
  <2>5. clients <= stations
    BY <2>1, <2>3, <2>4 DEF Counting
  <2>6. CASE ctl = "open"
    <3>1. clients + s[1] = stations \/ s[1] = stations
      BY <2>1, <2>2, <2>6 DEF Counting
    <3> QED BY <2>3, <2>4, <2>5, <2>6, <3>1
  <2>7. CASE ctl = "off"
    BY <1>1, <2>4, <2>5, <2>7 DEF CountInv, Counted
  <2> QED BY <2>6, <2>7
<1> QED BY <1>1, AlwaysCounted, PTL
================================================================================
