------------------------------- MODULE DnsServer -------------------------------
(***************************************************************************)
(* The captive portal's DNS server (dns_server.c): the task that answers   *)
(* every name with the SoftAP's address, and the sockets it takes from     *)
(* lwIP's pool.  start_dns_server and stop_dns_server run in the task that *)
(* opens or closes the portal (PortalNet).                                 *)
(*                                                                         *)
(* Of a request only this counts: parse_dns_request has a reply to it, or  *)
(* it has none.                                                            *)
(***************************************************************************)
EXTENDS Integers, FiniteSets

CONSTANTS
    Fds,        \* lwIP's pool of socket descriptors (CONFIG_LWIP_MAX_SOCKETS)
    NoFd,       \* no descriptor
    MaxErrors   \* bound on failing recvfrom and sendto

ASSUME DnsAssumption ==
    /\ Fds \subseteq Nat /\ IsFiniteSet(Fds) /\ NoFd \notin Fds
    /\ MaxErrors \in Nat

VARIABLES
    open,       \* descriptors in use, by whomever (lwIP)
    udp,        \* those of the sockets this task made: UDP, where the HTTP server's are TCP (lwIP)
    port,       \* those bound to port 53 (lwIP)
    handle,     \* s_dns is a handle
    started,    \* handle->started
    task,       \* where dns_server_task is
    sock,       \* its local sock
    errors      \* calls that have failed

dnsVars == <<open, udp, port, handle, started, task, sock, errors>>

\* "none": no task; "gone": it has deleted itself, and the handle still names it.
Labels == {"none", "socket", "bind", "recv", "reply", "close", "gone"}

----------------------------------------------------------------------------
(* lwIP's sockets (external): the lowest free descriptor is handed out, a
   port has one owner, and close() takes the number, whoever has it by now. *)

Closed(fds) == open' = open \ fds /\ udp' = udp \ fds /\ port' = port \ fds

Free == Fds \ open

Allocated(fd) ==
    /\ fd \in Free /\ \A other \in Free : fd <= other
    /\ open' = open \cup {fd}

Bound(fd) == port' = IF fd \in udp /\ port = {} THEN {fd} ELSE port

----------------------------------------------------------------------------
(* dns_server_task *)

DnsInit ==
    /\ open = {} /\ udp = {} /\ port = {}
    /\ handle = FALSE /\ started = FALSE
    /\ task = "none" /\ sock = NoFd
    /\ errors = 0

Go(label) == task' = label /\ UNCHANGED <<handle, started>>

\* The inner loop's condition, where a pass through it ends.
NextPass == IF started THEN "recv" ELSE "close"

\* A socket, or the end of the task: no descriptor is free, or it has been told to stop.
DnsSocket ==
    /\ task = "socket"
    /\ IF started /\ Free # {}
       THEN Go("bind") /\ \E fd \in Fds : Allocated(fd) /\ udp' = udp \cup {fd} /\ sock' = fd
       ELSE Go("gone") /\ UNCHANGED <<open, udp, sock>>
    /\ UNCHANGED <<port, errors>>

\* A bind that fails is logged.
DnsBind ==
    /\ task = "bind"
    /\ Bound(sock)
    /\ Go(NextPass)
    /\ UNCHANGED <<open, udp, sock, errors>>

\* Requests come in through the port, unless the descriptor is the HTTP server's by now: then what a
\* browser sends is taken for one.
DnsRecv ==
    /\ task = "recv" /\ sock \in port \cup (open \ udp)
    /\ Go("reply")
    /\ UNCHANGED <<open, udp, port, sock, errors>>

\* A call on the socket fails, of itself or because the socket has been closed by somebody else.
Fails ==
    IF sock \in udp THEN errors < MaxErrors /\ errors' = errors + 1 ELSE UNCHANGED errors

\* recvfrom fails: the socket is closed here, and once more behind the loop.
DnsRecvFails ==
    /\ task = "recv"
    /\ Fails
    /\ Closed({sock})
    /\ Go("close")
    /\ UNCHANGED sock

\* Seeded fault: a reply that cannot be sent ends the task.
ReplyFailureEnds ==
    /\ task = "reply"
    /\ \/ Go(NextPass) /\ UNCHANGED <<open, udp, port, errors>>
       \/ Fails /\ Closed({sock}) /\ Go("gone")
    /\ UNCHANGED sock

\* The request has no reply or the reply is sent; or it cannot be sent, and a new socket is taken.
DnsReply ==
    /\ task = "reply"
    /\ \/ Go(NextPass) /\ UNCHANGED errors
       \/ Fails /\ Go("close")
    /\ UNCHANGED <<open, udp, port, sock>>

\* Seeded fault: the socket is shut down and not closed.
ShutdownOnly ==
    /\ task = "close"
    /\ sock' = NoFd
    /\ Go("socket")
    /\ UNCHANGED <<open, udp, port, errors>>

\* shutdown and close of the descriptor, whoever has it by now.
DnsClose ==
    /\ task = "close"
    /\ Closed({sock})
    /\ sock' = NoFd
    /\ Go("socket")
    /\ UNCHANGED errors

DnsTask == DnsSocket \/ DnsBind \/ DnsRecv \/ DnsRecvFails \/ DnsReply \/ DnsClose

----------------------------------------------------------------------------
(* start_dns_server, and stop_dns_server in its two halves *)

StartDns ==
    /\ handle' = TRUE /\ started' = TRUE
    /\ task' = "socket" /\ sock' = NoFd
    /\ UNCHANGED <<open, udp, port, errors>>

TellDns == started' = FALSE /\ UNCHANGED <<open, udp, port, handle, task, sock, errors>>

\* The task ends wherever it is; its socket, if it has one, stays open.
DeleteDns ==
    /\ handle' = FALSE
    /\ task' = "none" /\ sock' = NoFd
    /\ UNCHANGED <<open, udp, port, started, errors>>

DnsTypeOK ==
    /\ open \subseteq Fds /\ udp \subseteq open /\ port \subseteq udp /\ Cardinality(port) <= 1
    /\ handle \in BOOLEAN /\ started \in BOOLEAN
    /\ task \in Labels /\ sock \in Fds \cup {NoFd}
    /\ errors \in 0..MaxErrors
================================================================================
