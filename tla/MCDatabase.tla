----------------------------- MODULE MCDatabase -----------------------------
(* A bosh-scan of one deployment given twice and of another one, and a     *)
(* direct-scan, both on the same file.  The reports share regexes, suites  *)
(* and ciphers with each other and within themselves; each report of       *)
(* Reports.tla has something to show of one of them, and the direct-scan   *)
(* has no violation.                                                       *)
EXTENDS Reports, TLC

tls == [error |-> "", cert |-> "cert1",
        suites |-> <<[suite |-> "VersionTLS11", ciphers |-> <<>>],
                     [suite |-> "VersionTLS12", ciphers |-> <<"rsa", "ecdhe">>]>>]
broken == [error |-> "refused", cert |-> "", suites |-> <<>>]

web == [name |-> "nginx", env |-> "HOME=/",
        ports |-> <<[number |-> "80", tls |-> NoTLS], [number |-> "443", tls |-> tls]>>]
db == [name |-> "mysqld", env |-> "",
       ports |-> <<[number |-> "3306", tls |-> broken], [number |-> "443", tls |-> tls]>>]
\* Of the same name as db, and with an older suite.
spare == [name |-> "mysqld", env |-> "",
          ports |-> <<[number |-> "443", tls |-> [tls EXCEPT !.suites =
                         <<[suite |-> "VersionTLS11", ciphers |-> <<"ecdhe">>]>>]]>>]

local == [name |-> "rpcd", env |-> "", ports |-> <<[number |-> "2822", tls |-> NoTLS]>>]

conf == [path |-> "/var/vcap/data/jobs/conf", matches |-> <<[path |-> "conf", content |-> "secret"],
                                             [path |-> "secret", content |-> "conf"]>>]
key == [path |-> "/root/key", matches |-> <<[path |-> NoPath, content |-> "secret"]>>]
plain == [path |-> "/bin/sh", matches |-> <<>>]

HostWith(n, services, files, keys) ==
    [host |-> n, services |-> services, files |-> files, keys |-> keys]

cf == [deployment |-> "cf", releases |-> <<"cf-1">>,
       hosts |-> <<HostWith("router", <<web>>, <<conf>>, <<>>)>>]
cfAgain == [deployment |-> "cf", releases |-> <<>>,
            hosts |-> <<HostWith("router", <<>>, <<plain, conf>>, <<"rsa AAAA">>)>>]
mysql == [deployment |-> "mysql", releases |-> <<"cf-1">>,
          hosts |-> <<HostWith("db", <<db>>, <<>>, <<"rsa AAAA">>), HostWith("spare", <<spare>>, <<key>>, <<>>)>>]
direct == [deployment |-> "direct-scan", releases |-> <<>>,
           hosts |-> <<HostWith("10.0.0.9", <<local>>, <<key>>, <<"rsa BBBB">>)>>]

\* A release whose version looks like a number.
uaa == [deployment |-> "uaa", releases |-> <<"60.10">>, hosts |-> <<>>]

Columns(a, n, s) == [address |-> a, number |-> n, state |-> s]
MCPortColumns ==
    "80" :> Columns("0.0.0.0", 80, "LISTEN") @@ "443" :> Columns("10.0.0.5", 443, "LISTEN") @@
    "3306" :> Columns("10.0.0.6", 3306, "ESTABLISHED") @@ "2822" :> Columns("127.0.0.1", 2822, "LISTEN")
MCHostName == [h \in {"router", "db", "spare", "10.0.0.9"} |-> IF h \in {"db", "spare"} THEN "mysql" ELSE h]
MCUserColumn == "nginx" :> "root" @@ "mysqld" :> "vcap" @@ "rpcd" :> "root"

MCAsNumber == "60.10" :> "60.1"
MCBatch == [c \in Command |-> IF c = "bosh-scan" THEN {cf, cfAgain, mysql} ELSE {direct}]
MCOne == [c \in Command |-> {mysql}]
MCReleases == [c \in Command |-> {cf, uaa}]
=============================================================================
