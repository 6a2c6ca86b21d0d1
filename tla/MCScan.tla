------------------------------- MODULE MCScan ------------------------------
(* Hosts with the services that the choice of modules tells apart, and what *)
(* nmap may print of them; a port scan that finds all the ports, that of    *)
(* a file server alone, or none, among tokens that are no open ports.       *)
EXTENDS Scan

CONSTANTS lab, corp, labcorp, dc, fs

NameParts == [n \in {labcorp} |-> <<lab, corp>>]

Row(p, name) == [transport |-> "tcp", port |-> p, service |-> name, sure |-> TRUE, details |-> {},
                 http |-> FALSE, prints |-> {}]
Guess(p, name) == [Row(p, name) EXCEPT !.sure = FALSE]
Of(p, name, words) == [Row(p, name) EXCEPT !.details = words]
Shows(p, name, ports) == [Row(p, name) EXCEPT !.http = TRUE, !.prints = {<<"tcp", q>> : q \in ports}]

Ldaps == {Row(389, "ldap"), Row(636, "ldaps"), Row(3268, "ldap"), Row(3269, "ldap"),
          Guess(10389, "ssl/ldap"), Row(389, "ssl/ldap")}
Directory == {Row(445, "microsoft-ds"), Row(464, "kpasswd5"), Guess(9, "discard")}
Others == {Row(445, "microsoft-ds"), Row(139, "netbios-ssn"), Row(389, "ldap"), Row(53, "domain")}
Web == {Guess(80, "http"), Row(8443, "ssl/http"), Guess(9, "rtsp"), Shows(554, "rtsp", {554, 3389}),
        Shows(3389, "unknown", {554}), Shows(1883, "tcpwrapped", {}),
        Of(8080, "http", {"tomcat"}), Of(5985, "http", {"microsoft-httpapi"}), Row(25, "smtp")}

OnePerPort(rows) == \A r \in rows, s \in rows : r.port = s.port => r = s
OfLdap == {l \cup Directory : l \in {rows \in SUBSET Ldaps : OnePerPort(rows)}}
OfOthers == {rows \in SUBSET Others : Cardinality(rows) < 4}
OfWeb == {rows \in SUBSET Web : Cardinality(rows) < 3} \cup {Web}

Quiet == [title |-> {}, fqdn |-> {}, netbios |-> {}, domain |-> {}]
Named == [Quiet EXCEPT !.title = {labcorp}, !.netbios = {fs}]
Printed == {[rows |-> r, said |-> Quiet] : r \in OfLdap}
             \cup {[rows |-> r, said |-> Named] : r \in OfOthers}
             \cup {[rows |-> r, said |-> [Quiet EXCEPT !.netbios = {lab}]] : r \in OfWeb}

Token(f, p) == [form |-> f, transport |-> "tcp", port |-> p, state |-> "open"]
Ports == {r.port : r \in Ldaps \cup Directory \cup Others \cup Web}
Noise == {Token("list", 0), Token("open", 65536), [Token("greppable", 23) EXCEPT !.state = "closed"]}
Scanned == {Noise, {Token("nmap", 445), Token("rustscan", 139)} \cup Noise,
            {Token("list", p) : p \in Ports} \cup Noise}

Found == [smb |-> {lab, fs}, ldap |-> {lab, dc}, dns |-> {dc}, http |-> {dc}, https |-> {},
          kerberos |-> {}, unknown |-> {}, unimplemented |-> {}]
=============================================================================
