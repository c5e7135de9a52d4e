------------------------------- MODULE PortalNet -------------------------------
(***************************************************************************)
(* What one portal session after another does to the network: the clients  *)
(* of the SoftAP and their count on the LCD (on_ap_event, s_clients), the  *)
(* HTTP server's sockets, and the DNS server.  One task at a time opens or *)
(* closes the portal (Firmware has the tasks overlap); the event loop, the *)
(* DNS task and the clients interleave with it.                            *)
(***************************************************************************)
EXTENDS DnsServer, Sequences

CONSTANTS
    MaxSessions,    \* bound on portal sessions
    MaxClients,     \* max_connection of the SoftAP
    MaxJoins,       \* bound on clients that join, over all sessions
    HttpFixed,      \* sockets the HTTP server holds from its start
    HttpMax         \* max_open_sockets

ASSUME NetAssumption == {MaxSessions, MaxClients, MaxJoins, HttpFixed, HttpMax} \subseteq Nat

VARIABLES
    ctl,        \* where provisioning_start or provisioning_stop is
    sessions,   \* portals opened so far
    fixed,      \* sockets the HTTP server holds from its start (esp_http_server, external)
    conns,      \* descriptors in its session table: it learns of nobody else's close()
    stray,      \* history: a close() of the DNS task has hit one of them
    stations,   \* clients associated to the SoftAP (driver)
    evq,        \* their events, on the default event loop
    clients,    \* s_clients
    joins,
    crashed     \* undefined behaviour brought the device down

netVars == <<sessions, fixed, conns, stray, stations, evq, clients, joins, crashed>>
vars == <<dnsVars, ctl, netVars>>

Init ==
    /\ DnsInit
    /\ ctl = "off" /\ sessions = 0
    /\ fixed = {} /\ conns = {} /\ stray = FALSE
    /\ stations = 0 /\ evq = <<>> /\ clients = 0 /\ joins = 0 /\ crashed = FALSE

At(label, next) == ~crashed /\ ctl = label /\ ctl' = next

----------------------------------------------------------------------------
(* provisioning_start *)

OpenBegin ==
    /\ At("off", "scan")
    /\ sessions < MaxSessions /\ sessions' = sessions + 1
    /\ clients' = 0
    /\ UNCHANGED <<dnsVars, fixed, conns, stray, stations, evq, joins, crashed>>

ScanOver == At("scan", "softap") /\ UNCHANGED <<dnsVars, netVars>>

OpenSoftap == At("softap", "httpd") /\ UNCHANGED <<dnsVars, netVars>>

\* Without the sockets it needs, the server does not start and the SoftAP is taken down.
OpenHttpd ==
    /\ IF Cardinality(Free) >= HttpFixed
       THEN /\ At("httpd", "dns")
            /\ \E fds \in SUBSET Free :
                 /\ Cardinality(fds) = HttpFixed
                 /\ \A fd \in fds, other \in Free \ fds : fd < other
                 /\ fixed' = fds /\ open' = open \cup fds
            /\ UNCHANGED <<stations, evq>>
       ELSE /\ At("httpd", "off")
            /\ stations' = 0 /\ evq' = evq \o [i \in 1..stations |-> "leave"]
            /\ UNCHANGED <<fixed, open>>
    /\ UNCHANGED <<udp, port, handle, started, task, sock, errors, sessions, conns, stray, clients, joins, crashed>>

OpenDns == At("dns", "open") /\ StartDns /\ UNCHANGED netVars

----------------------------------------------------------------------------
(* provisioning_stop *)

CloseBegin ==
    /\ At("open", "delete")
    /\ clients' = 0
    /\ TellDns
    /\ UNCHANGED <<sessions, fixed, conns, stray, stations, evq, joins, crashed>>

\* Deleting a task that has deleted itself works on freed memory: it goes well or it does not.
CloseDns ==
    /\ At("delete", "httpd_stop")
    /\ DeleteDns
    /\ IF task = "gone" THEN crashed' \in BOOLEAN ELSE UNCHANGED crashed
    /\ UNCHANGED <<sessions, fixed, conns, stray, stations, evq, clients, joins>>

CloseHttpd ==
    /\ At("httpd_stop", "radio")
    /\ Closed(fixed \cup conns) /\ fixed' = {} /\ conns' = {}
    /\ UNCHANGED <<handle, started, task, sock, errors, sessions, stray, stations, evq, clients, joins, crashed>>

CloseRadio ==
    /\ At("radio", "off")
    /\ stations' = 0 /\ evq' = evq \o [i \in 1..stations |-> "leave"]
    /\ UNCHANGED <<dnsVars, sessions, fixed, conns, stray, clients, joins, crashed>>

Portal ==
    \/ OpenBegin \/ ScanOver \/ OpenSoftap \/ OpenHttpd \/ OpenDns
    \/ CloseBegin \/ CloseDns \/ CloseHttpd \/ CloseRadio

----------------------------------------------------------------------------
(* on_ap_event, in the event-loop task *)

\* Seeded fault: a client that leaves is counted as one that joins.
ApEventCountsUp ==
    /\ ~crashed /\ evq # <<>> /\ evq' = Tail(evq)
    /\ clients' = clients + 1
    /\ UNCHANGED <<dnsVars, ctl, sessions, fixed, conns, stray, stations, joins, crashed>>

\* Seeded fault: the count is lowered whatever it is.
ApEventUnguarded ==
    /\ ~crashed /\ evq # <<>> /\ evq' = Tail(evq)
    /\ clients' = IF Head(evq) = "join" THEN clients + 1 ELSE clients - 1
    /\ UNCHANGED <<dnsVars, ctl, sessions, fixed, conns, stray, stations, joins, crashed>>

OnApEvent ==
    /\ ~crashed /\ evq # <<>> /\ evq' = Tail(evq)
    /\ clients' = IF Head(evq) = "join" THEN clients + 1
                  ELSE IF clients > 0 THEN clients - 1 ELSE clients
    /\ UNCHANGED <<dnsVars, ctl, sessions, fixed, conns, stray, stations, joins, crashed>>

----------------------------------------------------------------------------
(* Clients.  They are slower than the portal's task between two of its blocking
   calls (the scan, httpd_stop, the time it is open). *)

ClientsMayAct == ~crashed /\ ctl \in {"open", "httpd_stop"}

StationJoins ==
    /\ ClientsMayAct
    /\ joins < MaxJoins /\ joins' = joins + 1
    /\ stations < MaxClients /\ stations' = stations + 1
    /\ evq' = Append(evq, "join")
    /\ UNCHANGED <<dnsVars, ctl, sessions, fixed, conns, stray, clients, crashed>>

StationLeaves ==
    /\ ClientsMayAct
    /\ stations > 0 /\ stations' = stations - 1
    /\ evq' = Append(evq, "leave")
    /\ UNCHANGED <<dnsVars, ctl, sessions, fixed, conns, stray, clients, joins, crashed>>

\* A connection takes a descriptor, if one is left; one whose number is in the table already is refused.
HttpAccept ==
    /\ ClientsMayAct /\ stations > 0
    /\ Cardinality(conns) < HttpMax
    /\ \E fd \in Fds \ conns : Allocated(fd) /\ conns' = conns \cup {fd}
    /\ UNCHANGED <<udp, port, handle, started, task, sock, errors, ctl, sessions, fixed, stray, stations, evq, clients, joins, crashed>>

\* A connection ends: the server closes the number it has in the table.
HttpClose ==
    /\ ClientsMayAct
    /\ \E fd \in conns : Closed({fd}) /\ conns' = conns \ {fd}
    /\ UNCHANGED <<handle, started, task, sock, errors, ctl, sessions, fixed, stray, stations, evq, clients, joins, crashed>>

\* The DNS task; its close() after a failed recvfrom may find the descriptor in the HTTP server's hands.
Dns ==
    /\ ~crashed
    /\ DnsTask
    /\ (task = "recv" /\ task' = "reply") => ClientsMayAct /\ stations > 0
    /\ stray' = (stray \/ (task = "close" /\ sock \in conns))
    /\ UNCHANGED <<ctl, sessions, fixed, conns, stations, evq, clients, joins, crashed>>

\* The bounds end here, or the device is down.
Rest == (crashed \/ (ctl = "off" /\ sessions = MaxSessions)) /\ UNCHANGED vars

Next ==
    \/ Portal
    \/ OnApEvent
    \/ StationJoins \/ StationLeaves \/ HttpAccept \/ HttpClose
    \/ Dns
    \/ Rest

Spec == Init /\ [][Next]_vars

\* The DNS task is scheduled, and recvfrom returns when its descriptor is closed; that requests come in,
\* or calls fail, is nobody's promise.
FairSpec == Spec /\ WF_vars(Dns /\ (task # "recv" \/ sock \notin open))

----------------------------------------------------------------------------
(* Properties *)

TypeOK ==
    /\ DnsTypeOK
    /\ ctl \in {"off", "scan", "softap", "httpd", "dns", "open", "delete", "httpd_stop", "radio"}
    /\ sessions \in 0..MaxSessions
    /\ fixed \subseteq open \ (udp \cup conns) /\ conns \subseteq Fds /\ stray \in BOOLEAN
    /\ stations \in 0..MaxClients /\ clients \in 0..MaxJoins /\ joins \in 0..MaxJoins
    /\ crashed \in BOOLEAN

Listening == task = "recv" /\ sock \in port

\* Sockets nobody will close: neither the HTTP server's nor the DNS task's.
Lost == open \ (fixed \cup conns \cup {sock})

\* However recvfrom and sendto fail, and whatever descriptors the HTTP server takes in between, the first
\* portal's DNS task never waits on a socket without the port, unless its second close() after a failed
\* recvfrom has hit a connection of the HTTP server, which then closes the number in its turn.
FirstSessionListens == sessions <= 1 /\ ~stray /\ task = "recv" => sock \in port

\* A portal costs the pool at most one socket, when its DNS task is deleted inside recvfrom, and no
\* failure of its calls and no traffic costs another.
Deletions == IF ctl \in {"httpd_stop", "radio", "off"} THEN sessions ELSE sessions - 1
OneSocketPerSession == Cardinality(Lost) <= Deletions

\* Once their events are handled, the LCD's count is the number of clients while the portal is open, and
\* zero after it, although it is zeroed before they are sent away and their events come later.
ClientsCounted == evq = <<>> => (ctl = "open" => clients = stations) /\ (ctl = "off" => clients = 0)

\* After every request, failed replies included, the task listens again, unless it is told to stop, the
\* pool is exhausted, a socket lost by an earlier session has the port, or the HTTP server holds the
\* task's descriptor for its own.
ListensAgain ==
    task = "reply" ~> Listening \/ ~started \/ Free = {} \/ Lost # {} \/ sock \in conns \/ crashed

\* While the portal is open, a DNS task that waits for queries has the port (SETUP.md: DNS wildcard
\* redirect; deleting the last profile re-enters this mode).
PortalResolves == ctl = "open" /\ task = "recv" => sock \in port
================================================================================
