---------------------------- MODULE ServiceProbe -----------------------------
(***************************************************************************)
(* One call of Identify (pkg/fingerprint/fingerprint.go): a TLS handshake, *)
(* then one contact that speaks the protocol the port number suggests.     *)
(*                                                                         *)
(* A peer is what the host answers with at a port: talk (it "speaks",      *)
(* "closes" the connection, or accepts it and stays "silent"), tls ("none",*)
(* or the state of its TLS: "old" is TLS 1.0 or 1.1, the others are TLS    *)
(* 1.2 or later), and, where it speaks, its banner, product and version,   *)
(* {} where the banner does not tell one.                                  *)
(* To speak is to answer what the protocol of the port asks.               *)
(***************************************************************************)
EXTENDS Naturals, Sequences

TlsPorts == {443, 8443, 993, 995, 636}
HttpPorts == {80, 443, 6081, 8080, 8443}

Protocol(port) == CASE port = 21 -> "ftp"
                    [] port = 22 -> "ssh"
                    [] port \in {25, 587} -> "smtp"
                    [] port \in HttpPorts -> "http"
                    [] port \in {3306, 33060} -> "mysql"
                    [] port = 6379 -> "redis"
                    [] OTHER -> "generic"

\* Fault: no raw read has a deadline.
OnlyHttpHasDeadline(protocol) == protocol = "http"

\* probeHTTP and probeGenericBanner set a deadline for what they read. The others
\* bound the connection alone.
HasDeadline(protocol) == protocol \in {"http", "generic"}

\* The names deriveDefaultServiceName gives the ports no probe has named.
DefaultName(port) ==
  CASE port = 23 -> "telnet" [] port = 53 -> "dns" [] port = 110 -> "pop3"
    [] port = 111 -> "rpcbind" [] port = 135 -> "msrpc" [] port \in {139, 445} -> "smb"
    [] port = 143 -> "imap" [] port = 3389 -> "rdp" [] port = 5432 -> "postgres"
    [] port = 11211 -> "memcached" [] OTHER -> "unknown"

\* A client of Go 1.22 or later shakes hands with TLS 1.2 and above only.
Handshakes(peer) == peer.talk = "speaks" /\ peer.tls \notin {"none", "old"}

-----------------------------------------------------------------------------
(* The service before anything is asked of the peer, and after its TLS.     *)

\* The process PID and name that the reachability evaluator adds are shown and
\* not read, and left out; so are CPE, hash and extra information.
NewService(port, tunnel, tls) ==
  [port |-> port, name |-> "", product |-> "", version |-> {}, banner |-> "",
   tunnel |-> tunnel, tls |-> tls]

\* isTLS || probeTLS: on a port of the list the handshake is not tried, and
\* the service gets no TLSInfo.
TestTLS(port, peer) ==
  IF port \in TlsPorts THEN NewService(port, TRUE, "")
  ELSE IF Handshakes(peer) THEN NewService(port, TRUE, peer.tls)
  ELSE NewService(port, FALSE, "")

NameOf(svc) == LET protocol == Protocol(svc.port)
               IN  CASE protocol = "http" -> IF svc.tunnel THEN "https" ELSE "http"
                     [] protocol = "generic" -> DefaultName(svc.port)
                     [] OTHER -> protocol

Interrogated(svc, product, version, banner) ==
  [port |-> svc.port, name |-> NameOf(svc), product |-> product, version |-> version,
   banner |-> banner, tunnel |-> svc.tunnel, tls |-> svc.tls]

\* What a probe files before it connects: the name always, and for three
\* protocols the product too.
PresetProduct(port) == LET protocol == Protocol(port)
                       IN  CASE protocol = "ssh" -> "openssh"
                             [] protocol \in {"mysql", "redis"} -> protocol
                             [] OTHER -> ""
Unanswered(svc, banner) == Interrogated(svc, PresetProduct(svc.port), {}, banner)

\* The products whose version each probe can tell from what it reads.
Versioned(protocol) == CASE protocol = "ssh" -> {"openssh"}
                         [] protocol = "ftp" -> {"proftpd"}
                         [] protocol = "http" -> {"nginx", "apache httpd"}
                         [] protocol = "mysql" -> {"mysql", "mariadb"}
                         [] OTHER -> {}

\* ProFTPD and Apache are named by the expression that reads their version, and
\* without one remain unnamed; nginx and Postfix are known by the word alone.
Names(protocol, peer) ==
  CASE protocol = "ftp"  -> peer.product = "proftpd" /\ peer.version # {}
    [] protocol = "http" -> \/ peer.product = "nginx"
                            \/ peer.product = "apache httpd" /\ peer.version # {}
    [] protocol = "smtp" -> peer.product = "postfix"
    [] OTHER -> FALSE

Answered(svc, peer) ==
  LET protocol == Protocol(svc.port)
  IN  Interrogated(svc,
        IF Names(protocol, peer) THEN peer.product ELSE PresetProduct(svc.port),
        IF peer.product \in Versioned(protocol) THEN peer.version ELSE {},
        peer.banner)

-----------------------------------------------------------------------------
(* The contact.                                                             *)

\* An HTTP request is answered when both sides agree on TLS; a server may also
\* answer a plain request on its TLS port (with status 400 and its name).
\* The raw reads never shake hands.
MayAnswer(svc, peer) ==
  /\ peer.talk = "speaks"
  /\ IF Protocol(svc.port) = "http"
     THEN IF svc.tunnel THEN Handshakes(peer) ELSE TRUE
     ELSE peer.tls = "none"

MustAnswer(svc, peer) ==
  MayAnswer(svc, peer) /\ (Protocol(svc.port) = "http" => svc.tunnel = (peer.tls # "none"))

\* A peer that waits for the other side to speak first: one behind TLS waits
\* for a handshake. probeRedis speaks first: a TLS peer rejects its PING, with
\* an alert that is taken for a banner or without a word.
Waits(svc, peer) ==
  \/ peer.talk = "silent"
  \/ /\ peer.talk = "speaks" /\ peer.tls # "none"
     /\ Protocol(svc.port) \notin {"http", "redis"}

\* The read that never returns.
Blocks(svc, peer) == Waits(svc, peer) /\ ~HasDeadline(Protocol(svc.port))

\* The service as the contact may leave it.
Interrogations(svc, peer) ==
  (IF MayAnswer(svc, peer) THEN {Answered(svc, peer)} ELSE {})
    \cup (IF /\ peer.talk = "speaks" /\ peer.tls # "none"
             /\ Protocol(svc.port) = "redis"
          THEN {Unanswered(svc, "alert")} ELSE {})
    \cup (IF MustAnswer(svc, peer) \/ Blocks(svc, peer) THEN {} ELSE {Unanswered(svc, "")})
==============================================================================
