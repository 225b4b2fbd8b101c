-------------------------- MODULE MCHostAssessment ---------------------------
(* HostAssessment with plugins of content/plugins, and others that use what  *)
(* those do not, on hosts with an SSH server, a web server, a database and   *)
(* rpcbind.                                                                  *)
EXTENDS HostAssessment

Plugin(id, names, ports, cond, matchers) ==
  [id |-> id, safety |-> "active-safe", services |-> names, ports |-> ports, os |-> {},
   credentials |-> FALSE, cond |-> cond, matchers |-> matchers]
Banner(pattern) == [type |-> "banner", negative |-> FALSE, pattern |-> pattern]
FixedIn(v) == [type |-> "version", negative |-> FALSE, fixedIn |-> {v}]
Tls(pattern) == [type |-> "tls", negative |-> FALSE, pattern |-> pattern]
Package(name, v) == [type |-> "package", negative |-> FALSE, var |-> name, fixedIn |-> {v}]

\* Banners.
SshBanners == {"OpenSSH_9.6p1", "OpenSSH_10.0", "OpenSSH_for_Windows_9.5"}
NginxBanners == {"nginx/1.24"}

OpenSSH == Plugin("openssh-regresshion", {"ssh", "openssh"}, {22}, "and",
                  {Banner(SshBanners), FixedIn(<<9, 8>>)})
NginxVersion == Plugin("nginx-version-exposure", {"http", "https", "nginx"},
                       {80, 443, 8080, 8443}, "and", {Banner(NginxBanners)})
TlsWeak == Plugin("tls-deprecated-or-weak-ciphers", {"https", "tls", "ssl"}, {443, 8443}, "or",
                  {Tls("weak_ciphers"), Tls("expired")})
MySQLExposed == Plugin("mysql-external-network-exposure", {"mysql"}, {3306, 33060}, "and",
                       {Banner({"MySQL"})})
RpcExposed == Plugin("rpcbind-network-exposure", {"rpcbind", "sunrpc"}, {111}, "and",
                     {Banner(SshBanners \cup NginxBanners \cup {"MySQL", "portmap", "alert", ""})})

\* Not among those shipped: a TLS check at any port, an intrusive check, one of
\* a class there is not, package checks for a distribution, a package that should
\* be installed, and a check for a product by its name.
SelfSigned == Plugin("tls-self-signed", {}, {}, "or", {Tls("self_signed")})
NginxReset == [Plugin("nginx-reset", {"nginx"}, {}, "and", {FixedIn(<<1, 25>>)})
                 EXCEPT !.safety = "intrusive"]
NginxExploit == [NginxReset EXCEPT !.id = "nginx-exploit", !.safety = "exploit"]
SshPackage == [Plugin("openssh-server", {}, {22}, "and", {Package("openssh-server", <<9, 8>>)})
                 EXCEPT !.os = {"ubuntu", "linuxmint"}, !.credentials = TRUE]
NginxPackage == [Plugin("nginx", {}, {443}, "and", {Package("nginx", <<1, 25>>)})
                   EXCEPT !.os = {"ubuntu"}]
ApacheInUse == Plugin("apache", {"apache httpd"}, {}, "and", {Banner({"Apache", "Apache/2.4"})})
NoAudit == [Plugin("audit-missing", {}, {22}, "and",
                   {[Package("auditd", <<99>>) EXCEPT !.negative = TRUE]})
              EXCEPT !.safety = "passive"]

File(p) == [kind |-> "plugin", plugin |-> p]
\* An older text of a plugin comes first; its ID is the later one's. The walk does
\* not get past the file that does not parse.
MCPluginFiles == <<File([NginxVersion EXCEPT !.ports = {80}]), [kind |-> "other", plugin |-> OpenSSH],
                   File(OpenSSH), File(NginxVersion), File(TlsWeak), File(MySQLExposed),
                   File(RpcExposed), File(SelfSigned), File(NginxReset), File(NginxExploit),
                   File(SshPackage), File(NginxPackage), File(ApacheInUse), File(NoAudit),
                   [kind |-> "bad", plugin |-> NoAudit],
                   File([OpenSSH EXCEPT !.id = "openssh-passive", !.safety = "passive"])>>

Peer(tls, banner, product, version) ==
  [talk |-> "speaks", tls |-> tls, banner |-> banner, product |-> product, version |-> version]
Silent == [Closed EXCEPT !.talk = "silent"]

\* What is read as the version of the one for Windows is "for".
SshPeers == {Peer("none", "OpenSSH_9.6p1", "openssh", {<<9, 6, 1>>}),
             Peer("none", "OpenSSH_10.0", "openssh", {<<10, 0>>}),
             Peer("none", "OpenSSH_for_Windows_9.5", "openssh", {<< >>}), Silent}
Nginx(tls) == Peer(tls, "nginx/1.24", "nginx", {<<1, 24>>})
\* nginx and Apache configured to name no version, and Apache as it is.
NoTokens == Peer("none", "nginx", "nginx", {})
ApacheProd == Peer("good", "Apache", "apache httpd", {})
Apache(tls) == Peer(tls, "Apache/2.4", "apache httpd", {<<2, 4>>})
Rpcbind == Peer("none", "portmap", "", {})
MySQL == Peer("none", "MySQL", "mysql", {<<8, 0, 36>>})
Redis == Peer("good", "PONG", "redis", {})

Socket(bind, port) == [proto |-> "tcp", bind |-> bind, port |-> port, attributed |-> TRUE]

\* Ubuntu with two sockets at the port of the web server, loopback first, and
\* a package with an epoch; a derivative with an account that is not shown every process.
Ubuntu == [os |-> "ubuntu", packages |-> [n \in {"openssh-server", "nginx"} |->
                                            IF n = "nginx" THEN [epoch |-> 0, rel |-> <<1, 24>>]
                                            ELSE [epoch |-> 1, rel |-> <<9, 9>>]],
           sockets |-> <<Socket("127.0.0.1", 443), Socket("0.0.0.0", 443), Socket("0.0.0.0", 22)>>]
Mint == [os |-> "linuxmint", packages |-> [n \in {"openssh-server", "auditd"} |->
                                             [epoch |-> 0, rel |-> <<9, 6, 1>>]],
         sockets |-> <<Socket("[::ffff:127.0.0.1]", 3306), Socket("127.0.0.1", 22),
                       [Socket("0.0.0.0", 443) EXCEPT !.attributed = FALSE]>>]

\* The rest of the host: 443 is a port of the TLS list and 8080 is not; 3306
\* and 6379 have a probe without a deadline, 111 one with.
Services(web, proxy, rpc, port, db) == [p \in {111, 443, 8080, port} |->
  CASE p = 443 -> web [] p = 8080 -> proxy [] p = 111 -> rpc [] OTHER -> db]
ServicesUsed == {Services(Nginx("none"), Nginx("self_signed"), Rpcbind, 3306, MySQL),
                 Services(Apache("old"), Silent, Silent, 3306, Silent),
                 Services(Apache("expired"), Nginx("old"), Silent, 3306, MySQL),
                 Services(ApacheProd, NoTokens, Silent, 6379, Redis)}

MCHosts == {[os |-> system.os, packages |-> system.packages, sockets |-> system.sockets,
             peers |-> [port \in DOMAIN rest \cup {22} |-> IF port = 22 THEN ssh ELSE rest[port]]] :
              system \in {Ubuntu, Mint}, ssh \in SshPeers, rest \in ServicesUsed}

\* A range and a port; all ports, with an SSH user; a range no port number ends.
Asked(from, to) == [from |-> from, to |-> to]
MCRequests ==
  {[ports |-> {Asked(1, 443), Asked(8080, 8080)}, ceiling |-> "intrusive", ssh |-> FALSE],
   [ports |-> {Asked(1, 65535)}, ceiling |-> "active-safe", ssh |-> TRUE],
   [ports |-> {Asked(111, 111), Asked(443, 99999)}, ceiling |-> "passive", ssh |-> FALSE]}
==============================================================================
