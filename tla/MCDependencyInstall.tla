------------------------ MODULE MCDependencyInstall ------------------------
(* The tools some services declare (src/scr/modules/*/dependencies.py).     *)
EXTENDS DependencyInstall

Services == {"ldap", "ftp", "smb", "scan"}
Tools == {"ldapsearch", "curl", "wget", "smbclient", "smbmap", "nxc", "rustscan"}

Requires == [s \in Services |-> CASE s = "ldap" -> {"ldapsearch"} [] s = "smb" -> {"smbclient"}
                                  [] s = "scan" -> {"rustscan"} [] OTHER -> {}]
Options == [s \in Services |-> IF s = "smb" THEN {"smbmap", "nxc"} ELSE {}]
Primaries == [s \in Services |-> IF s = "ftp" THEN {"curl"} ELSE {}]
Spares == [s \in Services |-> IF s = "ftp" THEN {"wget"} ELSE {}]
Downloads == {"rustscan"}
Offered == Tools \ {"nxc", "rustscan"}
=============================================================================
