------------------------------ MODULE Discovery ----------------------------
(***************************************************************************)
(* What the discovery reads in the output of its tools.  A port scan leaves *)
(* tokens, each a port in one of the formats extract_ports() knows.  Nmap   *)
(* leaves one row for each port and, below it, a block with the output of   *)
(* its scripts and the fingerprints it could not place; a fingerprint names *)
(* its port, and need not be about the row above it.  What a report says of *)
(* names are sets of at most one name.  Definitions named Fault... are      *)
(* plausible bugs that nothing uses.                                        *)
(***************************************************************************)
EXTENDS Naturals

CONSTANTS Parts      \* for each name with a dot, its host and its domain

(* A token is [form, transport, port, state], a row [port, transport,       *)
(* service, sure, details, http, prints]: the words of its details that     *)
(* matter, whether the block shows HTTP, the ports of its fingerprints.     *)
(* sure: nmap did not put a question mark after the service.                *)
ExtractPorts(out) ==
  {<<IF t.form \in {"list", "rustscan"} THEN "tcp" ELSE t.transport, t.port>> :
     t \in {u \in out : u.port \in 1..65535 /\ (u.form = "greppable" => u.state = "open")}}

-----------------------------------------------------------------------------
Spoken ==
  [http |-> {"http", "http-alt", "httpd", "http-json", "microsoft-httpapi"},
   https |-> {"https", "ssl/http", "ssl|http"},
   smb |-> {"microsoft-ds", "netbios-ssn", "smb"}, ftp |-> {"ftp"}, ssh |-> {"ssh", "sftp"},
   ldap |-> {"ldap", "ldaps", "ssl/ldap"}, dns |-> {"domain"},
   kerberos |-> {"kerberos-sec", "kerberos", "kpasswd5"}, mqtt |-> {"mqtt"}]

(* Services the program names and has no module for: like the services it   *)
(* does not name, they get no worker.  The common ones of its two tables.   *)
KnownUnimplemented ==
  {"ms-wbt-server", "rdp", "ms-sql-s", "mysql", "postgresql", "nfs", "rpcbind", "snmp", "redis",
   "docker", "ncacn_http", "mc-nmf", "wsman", "smtp", "pop3", "imap", "telnet", "vnc", "msrpc",
   "rtsp", "ipp", "http-proxy", "upnp", "x11"}

Products == {"docker", "kubernetes", "jenkins", "gitlab", "tomcat", "jetty", "webdav"}
Remoting == {"microsoft-httpapi", "wsman", "winrm"}

FaultScriptHttp(row) == row.http

(* HTTP in the block counts unless all its fingerprints are of other ports. *)
ScriptHttp(row) == row.http /\ (row.prints = {} \/ <<row.transport, row.port>> \in row.prints)

Renamed(row) == row.service \in {"rtsp", "unknown", "tcpwrapped"} /\ ScriptHttp(row)
Service(row) == IF Renamed(row) THEN "http" ELSE row.service

(* A product, or a port of WinRM with its product, comes before the name.   *)
ByProduct(row) ==
  \/ row.details \cap Products # {}
  \/ row.port \in {5985, 5986} /\ row.details \cap Remoting # {}

Module(row) ==
  IF ByProduct(row) THEN "unimplemented"
  ELSE IF \E m \in DOMAIN Spoken : Service(row) \in Spoken[m]
  THEN CHOOSE m \in DOMAIN Spoken : Service(row) \in Spoken[m]
  ELSE IF Service(row) \in KnownUnimplemented THEN "unimplemented" ELSE "unknown"

(* What run_services() sees of a row; of rows it sees alike it takes one.   *)
(* A question mark stays in the name it compares.                           *)
Classify(row) ==
  [module |-> Module(row), port |-> row.port,
   transport |-> IF row.sure /\ Service(row) \in {"ldaps", "ssl/ldap"} THEN "tcp_tls" ELSE row.transport]

-----------------------------------------------------------------------------
(* The first FQDN decides, or else the name nmap reports the host under; a  *)
(* NetBIOS name counts only when there is neither.                          *)
Identity(said) ==
  LET dotted == said.title \cap DOMAIN Parts
      fqdn == IF said.fqdn # {} THEN said.fqdn ELSE dotted
      host == IF fqdn # {} THEN {IF n \in DOMAIN Parts THEN Parts[n][1] ELSE n : n \in fqdn}
              ELSE IF said.title # {} THEN said.title ELSE said.netbios
      domain == IF said.domain # {} THEN said.domain ELSE {Parts[n][2] : n \in fqdn \cap DOMAIN Parts}
  IN host \cup fqdn \cup domain

=============================================================================
