------------------------------ MODULE MCConfig ------------------------------
(* Right and wrong arguments of every kind of option, options that are      *)
(* given twice, and each URL alone.  Hosts and paths have few characters;   *)
(* the ports are at both ends of the range, one above it, with leading      *)
(* zeros, with more digits than the port buffer holds, one that is 80 in an *)
(* unsigned int of 27 bits, and some that are no number.  One bracket or    *)
(* both stand in a host, at its ends or in it, or in a port.  Of the        *)
(* numbers, one is 80, one is 0 and one is -1 in an unsigned int.           *)
EXTENDS CommandLine

MCChars == STRING

Opt(o, a) == [opt |-> o, arg |-> a]
Url(s, p) == [scheme |-> s, host |-> <<"h">>, v6 |-> FALSE, port |-> p, path |-> None, slash |-> TRUE]
NotANumber == <<"8", "x">>
Wraps == <<"1", "3", "4", "2", "1", "7", "8", "0", "8">>
WrapsToZero == <<"1", "3", "4", "2", "1", "7", "7", "2", "8">>
Largest == <<"1", "3", "4", "2", "1", "7", "7", "2", "7">>
MCOptions ==
    {Opt("webpa-url", Url(s, p)) : s \in {"https", "other"}, p \in {None, <<"0">>}}
    \cup {Opt("acquire-jwt", n) : n \in {WrapsToZero, <<"1">>}}
    \cup {Opt("webpa-ping-timeout", n) : n \in {NotANumber, Wraps}}
    \cup {Opt("webpa-backoff-max", n) : n \in {<<"9">>, Largest}}
    \cup {Opt("boot-time", <<"3">>), Opt("boot-time", <<"1", "2", "x">>),
          Opt("boot-time-retry-wait", Wraps)}
    \cup {Opt("jwt-algo", a) : a \in {<<"RS256">>, <<"RS384", "RS512">>, <<"RS256", "none">>,
                                      <<"HS256">>}}
    \cup {Opt("jwt-public-key-file", f) : f \in {"missing", "empty", "pem"}}
    \cup {Opt("hw-mac", n) : n \in {11, 12}}
    \cup {Opt("force-ipv4", None), Opt("partner-id", "acme"), Opt("nosuch", None)}

MCHosts == {<<"h">>, <<"h", ".", "c">>, <<"1", ".", "2">>,
            <<"[", ":", "1">>, <<":", "1", "]">>,   \* these two lack a bracket
            <<"a", "[", ":", "1", "]">>}
MCV6Hosts == {<<":", ":", "1">>, <<"a", ":", ":">>, <<":", "]", "1">>}
MCPorts == {<<"1">>, <<"8", "0", "8", "0">>, <<"6", "5", "5", "3", "5">>, <<"6", "5", "5", "3", "6">>,
            <<"0">>, <<"0", "0", "8", "0">>, <<>>, NotANumber,
            <<"9", "9", "9", "9", "9", "9", "9">>, Wraps,
            <<"0", "1", "2", "3", "4", "5", "6", "7">>, <<"0", "0", "0", "0", "0", "0", "8", "0">>,
            <<"0", "0", "0", "0", "8", "0", "8", "x">>,
            <<"8", "]">>, <<"[", "8", "]">>}
MCPaths == {<<"a">>, <<"a", "/", "b">>, <<"a", "?", "b">>, <<"a", ":", "1">>,
            <<"a", "[", "b", "]">>, <<"a", "]">>}
Urls(hosts, v6) ==
    [scheme : {"https", "http", "other"}, host : hosts, v6 : {v6},
     port : MCPorts \cup {None}, path : MCPaths \cup {None}, slash : BOOLEAN]
MCAlone == {Opt("webpa-url", u) : u \in Urls(MCHosts, FALSE) \cup Urls(MCV6Hosts, TRUE)}
-----------------------------------------------------------------------------
(* What the code does not keep: no run checks these, TLC refutes each.      *)

\* A number that is none is refused, whichever option it is given for.
BadNumberRefused ==
    cpc = "running" =>
        \A n \in Cfg!Numbers \cup Cfg!Unchecked : \A text \in Cfg!Args(n) : Cfg!IsNumber(text)

\* A number is the one that was written.
NumbersAsWritten ==
    cpc = "running" =>
        \A n \in Cfg!Numbers : Cfg!Args(n) # {} => cfg[n] = Cfg!Written(Cfg!LastArg(n))

\* ServerAsWritten of every URL, also those that are Misread.
ReadsAllAsWritten == cserver # None => cserver = Cfg!Meaning(Cfg!LastArg("webpa-url"))
=============================================================================
