--------------------------- MODULE LibpqParameters ---------------------------
(***************************************************************************)
(* How the three descriptions of a connection that libpq knows become      *)
(* connection fields: a connection URL (authority, path and a query that   *)
(* is read parameter by parameter), a section of the service file, and the *)
(* password file, line by line.  A text is a member of a small set; what   *)
(* the parsers look at in it are the predicates below.  Which error a bad  *)
(* URL gives is left out: it is accepted or not.                           *)
(***************************************************************************)
EXTENDS Naturals, Sequences, TLC

CONSTANTS
    Urls,        \* [user, password, form, host, port, path, query]
    Files,       \* [pgpass: sequence of lines, service: a section's parameters]
    DefaultUser  \* os_user()

Unset == "(unset)"
Wildcard == "*"

SeveralHosts == {"a,b"}
UnixSockets == {"/run"}
BadPorts == {"", "0"}
Undecodable == {"%zz"}
Modes == {"disable", "require", "verify-full"}

\* Unset is no text that a URL or a file may hold.
ASSUME ParserAssumption ==
    /\ \A u \in Urls :
          /\ DOMAIN u = {"user", "password", "form", "host", "port", "path", "query"}
          /\ u.query \in Seq([key : STRING, value : STRING \ {Unset}])
          /\ u.host # Unset
    /\ \A f \in Files :
          /\ DOMAIN f = {"pgpass", "service"}
          /\ f.pgpass \in Seq([host : STRING, port : STRING, database : STRING,
                               user : STRING, password : STRING])
          /\ \A key \in DOMAIN f.service : f.service[key] # Unset

VARIABLES
    source,     \* the URL or the files
    task,      \* "url", "pgpass", "service" or "done"
    read,         \* parameters or lines read
    fields,    \* the URL's connection so far; the service's connection
    accepted,
    entries     \* connections of the password file so far

parserVars == <<source, task, read, fields, accepted, entries>>

-----------------------------------------------------------------------------
ssl_from_mode(mode) == [ssl |-> mode # "disable", downgraded |-> mode = "verify-full"]

OrElse(value, other) == IF value \in {Unset, ""} THEN other ELSE value

Target(c) == [host |-> c.host, port |-> c.port, database |-> c.database, user |-> c.user]

Matches(line, target) == \A key \in DOMAIN target : line[key] \in {Wildcard, target[key]}

\* The first line that matches, as libpq looks it up.
pgpass_password(lines, target) ==
    LET matching == {k \in DOMAIN lines : Matches(lines[k], target)} IN
    IF matching = {} THEN Unset
    ELSE lines[CHOOSE k \in matching : \A j \in matching : k <= j].password

\* Where rsplit_once(':') cuts a host that has colons of its own and no brackets.
CutAtLastColon == [host \in {"::1"} |-> [host |-> ":", port |-> "1"]]

\* split_host_port takes what stands behind the last colon for the port.
split_host_port(u) ==
    IF u.form = "plain" /\ u.port = Unset /\ u.host \in DOMAIN CutAtLastColon THEN CutAtLastColon[u.host]
    ELSE [host |-> u.host, port |-> IF u.port = "" THEN Unset ELSE u.port]

\* Brackets hold an IPv6 address and may be followed by a port.
HostPortAccepted(u) ==
    /\ u.host \notin SeveralHosts
    /\ u.form # "unclosed"
    /\ u.form = "bracketed" => u.host = "::1" /\ u.port \notin BadPorts
    /\ u.form = "plain" => u.port \notin BadPorts \ {""}

Empty == [host |-> "", port |-> Unset, database |-> "", user |-> "", password |-> Unset,
          ssl |-> FALSE, downgraded |-> FALSE, ignored |-> {}]

Authority(u) ==
    [Empty EXCEPT !.user = u.user, !.password = u.password, !.host = split_host_port(u).host,
                  !.port = split_host_port(u).port, !.database = u.path]

ParserInit ==
    /\ read = 0 /\ entries = <<>>
    /\ \/ /\ source \in Urls /\ task = "url"
          /\ fields = Authority(source)
          /\ accepted = (HostPortAccepted(source)
                         /\ Undecodable \cap {source.user, source.password, source.host, source.path} = {})
       \/ /\ source \in Files /\ task = "pgpass"
          /\ fields = Empty /\ accepted = TRUE

-----------------------------------------------------------------------------
\* Mutant: hostaddr always replaces the host.
HostaddrWins(f, key, value) ==
    CASE key \in {"host", "hostaddr"} -> [f EXCEPT !.host = value]
      [] key = "port"     -> [f EXCEPT !.port = value]
      [] key = "dbname"   -> [f EXCEPT !.database = value]
      [] key = "user"     -> [f EXCEPT !.user = value]
      [] key = "password" -> [f EXCEPT !.password = value]
      [] key = "sslmode"  -> [f EXCEPT !.ssl = ssl_from_mode(value).ssl,
                                       !.downgraded = ssl_from_mode(value).downgraded]
      [] OTHER            -> [f EXCEPT !.ignored = @ \cup {key}]

\* What one parameter of the query changes.
With(f, key, value) ==
    CASE key = "host"     -> [f EXCEPT !.host = value]
      [] key = "hostaddr" -> [f EXCEPT !.host = IF @ = "" THEN value ELSE @]
      [] key = "port"     -> [f EXCEPT !.port = value]
      [] key = "dbname"   -> [f EXCEPT !.database = value]
      [] key = "user"     -> [f EXCEPT !.user = value]
      [] key = "password" -> [f EXCEPT !.password = value]
      [] key = "sslmode"  -> [f EXCEPT !.ssl = ssl_from_mode(value).ssl,
                                       !.downgraded = ssl_from_mode(value).downgraded]
      [] OTHER            -> [f EXCEPT !.ignored = @ \cup {key}]

Bad(key, value) ==
    \/ value \in Undecodable
    \/ key \in {"host", "hostaddr"} /\ value \in SeveralHosts
    \/ key = "port" /\ value \in BadPorts
    \/ key = "sslmode" /\ value \notin Modes

ReadParameter ==
    /\ task = "url" /\ accepted /\ read < Len(source.query)
    /\ LET pair == source.query[read + 1] IN
       IF Bad(pair.key, pair.value) THEN accepted' = FALSE /\ UNCHANGED fields
       ELSE fields' = With(fields, pair.key, pair.value) /\ UNCHANGED accepted
    /\ read' = read + 1
    /\ UNCHANGED <<source, task, entries>>

\* Sockets are refused; host, database and port get their defaults.
FinishUrl ==
    /\ task = "url" /\ (~accepted \/ read = Len(source.query))
    /\ accepted' = (accepted /\ fields.host \notin UnixSockets)
    /\ fields' = [fields EXCEPT !.host = OrElse(@, "localhost"), !.port = OrElse(@, "5432"),
                                !.database = OrElse(@, fields.user), !.password = OrElse(@, Unset)]
    /\ task' = "done"
    /\ UNCHANGED <<source, read, entries>>

\* The target a line of the password file names, if it names one.
Named(line) ==
    [host |-> line.host, user |-> line.user,
     port |-> IF line.port = Wildcard THEN "5432" ELSE line.port,
     database |-> IF line.database = Wildcard THEN "postgres" ELSE line.database]

Listable(line) ==
    /\ line.host \notin {Wildcard, ""} \cup UnixSockets
    /\ line.user # Wildcard
    /\ line.port \notin BadPorts

Listed(line) ==
    LET target == Named(line) IN
    [host |-> target.host, port |-> target.port, database |-> target.database,
     user |-> target.user, password |-> OrElse(line.password, Unset)]

\* Mutant: repeated targets are all listed.
ReadEveryLine ==
    /\ task = "pgpass" /\ read < Len(source.pgpass)
    /\ read' = read + 1
    /\ LET line == source.pgpass[read'] IN
       entries' = IF Listable(line) THEN Append(entries, Listed(line)) ELSE entries
    /\ UNCHANGED <<source, task, fields, accepted>>

\* pgpass_connections: lines that name no one target are skipped, and so is a
\* target that was seen.
ReadLine ==
    /\ task = "pgpass" /\ read < Len(source.pgpass)
    /\ read' = read + 1
    /\ LET line == source.pgpass[read'] IN
       entries' = IF Listable(line) /\ \A k \in DOMAIN entries : Target(entries[k]) # Named(line)
                 THEN Append(entries, Listed(line)) ELSE entries
    /\ UNCHANGED <<source, task, fields, accepted>>

FinishLines ==
    /\ task = "pgpass" /\ read = Len(source.pgpass)
    /\ task' = "service"
    /\ UNCHANGED <<source, read, fields, accepted, entries>>

Parameter(key) == IF key \in DOMAIN source.service THEN OrElse(source.service[key], Unset) ELSE Unset

ServiceHost == OrElse(Parameter("host"), OrElse(Parameter("hostaddr"), "localhost"))

\* service_connections: an empty value counts as missing, a missing password
\* is looked up in the password file.
ReadService ==
    /\ task = "service"
    /\ LET user == OrElse(Parameter("user"), DefaultUser)
           mode == OrElse(Parameter("sslmode"), "disable")
           target == [host |-> ServiceHost,
                      port |-> OrElse(Parameter("port"), "5432"), user |-> user,
                      database |-> OrElse(Parameter("dbname"), user)]
           password == OrElse(Parameter("password"), pgpass_password(source.pgpass, target))
       IN  /\ accepted' = (/\ target.host \notin SeveralHosts \cup UnixSockets
                           /\ target.port \notin BadPorts
                           /\ user # Unset /\ mode \in Modes)
           /\ fields' = [password |-> OrElse(password, Unset),
                         ignored |-> DOMAIN source.service \ {"host", "hostaddr", "port", "user",
                                                             "dbname", "sslmode", "password"}]
                        @@ target @@ ssl_from_mode(mode)
    /\ task' = "done"
    /\ UNCHANGED <<source, read, entries>>

ParserNext == ReadParameter \/ FinishUrl \/ ReadLine \/ FinishLines \/ ReadService

ParserSpec == ParserInit /\ [][ParserNext]_parserVars

-----------------------------------------------------------------------------
IsUrl == "query" \in DOMAIN source

\* What the query says of a key, when it says it once and not emptily.
Says(key) ==
    LET at == {k \in DOMAIN source.query : source.query[k].key = key} IN
    IF at = {} THEN Unset ELSE source.query[CHOOSE k \in at : TRUE].value

Plain == \A j, k \in DOMAIN source.query :
            source.query[j].value # "" /\ (source.query[j].key = source.query[k].key => j = k)

\* The loop over the parameters gives the connection the URL means whatever
\* their order: a host parameter, else the authority's host, else hostaddr.
UrlMeansWhatItSays ==
    LET authority == split_host_port(source) IN
    IsUrl /\ task = "done" /\ accepted /\ Plain =>
        /\ fields.host = OrElse(Says("host"), OrElse(authority.host, OrElse(Says("hostaddr"), "localhost")))
        /\ fields.port = OrElse(Says("port"), OrElse(authority.port, "5432"))
        /\ fields.user = OrElse(Says("user"), source.user)
        /\ fields.database = OrElse(Says("dbname"), OrElse(source.path, fields.user))
        /\ fields.downgraded => fields.ssl

HasWildcard(line) == Wildcard \in {line.host, line.port, line.database, line.user}

\* "Repeated targets keep only the first line, which is the one libpq would use":
\* every target that a line names is listed, once, and from the line libpq finds
\* first for it, but for lines with a wildcard before that one, which libpq uses
\* and the list passes over.
ListedLineIsLibpqs ==
    LET lines == source.pgpass IN
    /\ task = "service" => \A i \in DOMAIN lines : Listable(lines[i]) =>
          \E k \in DOMAIN entries : Target(entries[k]) = Named(lines[i])
    /\ \A j, k \in DOMAIN entries : Target(entries[j]) = Target(entries[k]) => j = k
    /\ \A k \in DOMAIN entries : \E i \in DOMAIN lines :
          /\ entries[k] = Listed(lines[i])
          /\ \A m \in 1..(i - 1) : Matches(lines[m], Target(entries[k])) => HasWildcard(lines[m])
=============================================================================
