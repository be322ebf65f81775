------------------------------- MODULE MCInputs -------------------------------
(* Instances of the three modules about what the program reads: list       *)
(* files, the configuration file, and the paths of requests.  They share   *)
(* no state; a behaviour feeds one of them, the subject, and the others    *)
(* keep their initial states.                                              *)
EXTENDS IpAcl, ConfigFile, RequestPath

CONSTANT Subjects                         \* which of the three are checked

VARIABLE subject

input_vars == <<subject, acl_vars, config_vars, request_vars>>

InputInit ==
    /\ subject \in Subjects
    /\ AclInit
    /\ ConfigInit
    /\ RequestInit

InputNext ==
    \/ /\ subject = "lists"
       /\ AclNext
       /\ UNCHANGED <<subject, config_vars, request_vars>>
    \/ /\ subject = "config"
       /\ ConfigNext
       /\ UNCHANGED <<subject, acl_vars, request_vars>>
    \/ /\ subject = "requests"
       /\ RequestNext
       /\ UNCHANGED <<subject, acl_vars, config_vars>>

InputSpec == InputInit /\ [][InputNext]_input_vars
-----------------------------------------------------------------------------
(* A byte of ones before an IPv4 address.                                  *)
MCV4Prefix == <<3>>

(* A field of every kind, and a key that two sections share.               *)
Setting(section_, key, as, default) ==
    [section |-> section_, key |-> key, as |-> as, default |-> default]

MCSettings == {Setting("network", "chain", "chain", "NOT_SET"),
               Setting("tiers", "large_threshold", "size", 1),
               Setting("tiers", "huge_threshold", "size", 3),
               Setting("rpc.mainnet", "enabled", "int", 0),
               Setting("tls", "enabled", "int", 0),
               Setting("tls", "cert_file", "text", ""),
               Setting("ratelimit", "rps", "double", 2)}

Header(name, closed) == [kind |-> "section", name |-> name, closed |-> closed]
Sets(key, value) == [kind |-> "set", key |-> key, value |-> value]

(* -1 is read as SIZE_MAX; 8 is out of range.                              *)
MCConfigLine ==
    {Header(s, TRUE) : s \in {"network", "tiers", "rpc.mainnet", "tls",
                                "ratelimit"}}
    \cup {Header("tls", FALSE), [kind |-> "skipped"]}
    \cup {Sets("chain", v) : v \in {"mainnet", "mixed", "bogus"}}
    \cup {Sets("large_threshold", v) : v \in {3, 5, -1, 8}}
    \cup {Sets("enabled", v) : v \in {1, 8}}
    \cup {Sets("rps", v) : v \in {4, -1}}
    \cup {Sets("cert_file", "a.pem")}

Path(slash, word, len, hex, token_ok) ==
    [slash |-> slash, word |-> word, len |-> len, hex |-> hex,
     token_ok |-> token_ok]

(* Paths on both sides of every length the code compares with.             *)
MCPaths == {Path(TRUE, "none", 0, 0, FALSE),
            Path(TRUE, "ready", 5, 0, FALSE),
            Path(TRUE, "metrics", 7, 0, FALSE),
            Path(TRUE, "acme", 37, 0, TRUE),
            Path(TRUE, "acme", 40, 0, FALSE),
            Path(TRUE, "acme", 70, 0, TRUE),
            Path(TRUE, "tx", 67, 64, FALSE),
            Path(TRUE, "tx", 67, 62, FALSE),
            Path(TRUE, "none", 64, 64, FALSE),
            Path(TRUE, "none", 64, 63, FALSE),
            Path(TRUE, "none", 164, 164, FALSE),
            Path(TRUE, "none", 200, 100, FALSE),
            Path(FALSE, "none", 200, 200, FALSE)}
=============================================================================
