-------------------------- MODULE MCLibpqParameters --------------------------
(* Inputs of LibpqParameters: URLs with up to three parameters, password    *)
(* files of up to two lines and services with up to three parameters.     *)
EXTENDS LibpqParameters

Pairs ==
    {[key |-> "host", value |-> v] : v \in {"db", "a,b", "/run", ""}}
    \cup {[key |-> "hostaddr", value |-> v] : v \in {"alt", "a,b"}}
    \cup {[key |-> "port", value |-> v] : v \in {"6432", "0"}}
    \cup {[key |-> "sslmode", value |-> v] : v \in {"require", "verify-full", "x"}}
    \cup {[key |-> "dbname", value |-> v] : v \in {"app", "%zz"}}
    \cup {[key |-> "user", value |-> "bob"], [key |-> "password", value |-> "pw"], [key |-> "x", value |-> "y"]}

MCUrls ==
    [user : {"", "eve"}, password : {Unset}, form : {"plain"}, host : {"", "h"},
     port : {Unset, "7"}, path : {"d"}, query : UNION {[1..k -> Pairs] : k \in 0..3}]
    \cup [user : {"eve", "%zz"}, password : {Unset, ""}, form : {"plain", "bracketed", "unclosed"},
          host : {"", "h", "a,b", "::1"}, port : {Unset, "", "0", "7"}, path : {"", "d"}, query : {<<>>}]

Lines ==
    [host : {"*", "db"}, port : {"*", "5432"}, database : {"*", "app"}, user : {"*", "bob"},
     password : {"one", "two"}]
    \cup {[host |-> "/run", port |-> "0", database |-> "app", user |-> "bob", password |-> ""],
          [host |-> "db", port |-> "0", database |-> "app", user |-> "bob", password |-> "one"],
          [host |-> "db", port |-> "5432", database |-> "app", user |-> "bob", password |-> ""]}

Services ==
    UNION {[keys -> {"db", "5432", "bob", "require", "0", ""}] :
              keys \in {{}, {"host"}, {"host", "hostaddr"}, {"hostaddr", "port"}, {"host", "user"},
                        {"sslmode"}, {"user", "dbname"}, {"user", "password", "x"}}}

MCFiles ==
    [pgpass : UNION {[1..k -> Lines] : k \in 0..2}, service : {[user |-> "bob"]}]
    \cup [pgpass : {<<[host |-> "*", port |-> "*", database |-> "*", user |-> "bob", password |-> "one"]>>},
          service : Services]
==============================================================================
