------------------------------- MODULE Config -------------------------------
(***************************************************************************)
(* The start of parodus: main sets the defaults, parseCommandLine reads    *)
(* the options one after the other and checks them together, and the first *)
(* createNopollConnection reads the URL.  Whatever is refused on the way   *)
(* aborts the process.                                                     *)
(*                                                                         *)
(* An option is its long name and its argument: the text of a number, the  *)
(* parts of a URL, a list of algorithms, a key file or a MAC by what the   *)
(* code tells apart about it, any other text as it is.                     *)
(***************************************************************************)
EXTENDS WebpaUrl

CONSTANTS
    Options,      \* the options that may be given: [opt, arg]
    MaxOptions,   \* how many are given at most
    Alone         \* options each of which may be the only one of a command line

Numbers == {"webpa-ping-timeout", "webpa-backoff-max", "acquire-jwt"}
Unchecked == {"boot-time", "boot-time-retry-wait"}
Checked == {"webpa-url", "hw-mac", "jwt-algo", "jwt-public-key-file", "force-ipv4", "force-ipv6"}
Texts == {"hw-model", "hw-serial-number", "hw-manufacturer", "hw-last-reboot-reason", "fw-name",
          "webpa-interface-used", "parodus-local-url", "partner-id", "seshat-url", "dns-txt-url",
          "ssl-cert-path", "client-cert-path", "token-server-url", "crud-config-file",
          "connection-health-file", "close-reason-file", "mtls-client-key-path",
          "mtls-client-cert-path"}
Known == Numbers \cup Unchecked \cup Checked \cup Texts

rsa_algorithms == {"RS256", "RS384", "RS512"}
other_algorithms == {"HS256", "HS384", "HS512", "ES256", "ES384", "ES512", "PS256", "none"}

\* A URL that webpa_url[124] holds, with eight characters for the scheme and its "://":
\* a longer one would be cut.
FitsField(u) == 8 + Len(Text(u)) < 124

\* The arguments that a command line can hold: numbers are texts, URLs are written from
\* their parts, a list of algorithms has a name, and only an option without argument has
\* NULL for it.  No text is longer than its field.
OptionsTyped ==
    /\ \A set \in SUBSET rsa_algorithms : set # NULL
    /\ \A o \in Options \cup Alone :
          /\ o.opt \in Numbers \cup Unchecked => o.arg \in Seq(Chars)
          /\ o.opt = "webpa-url" => o.arg # NULL /\ WellWritten(o.arg) /\ FitsField(o.arg)
          /\ o.opt = "jwt-algo" => Range(o.arg) # {}
          /\ o.opt = "jwt-public-key-file" => o.arg # NULL

VARIABLES
    pc,     \* "options", "connect", "running" or "aborted"
    cfg,    \* the configuration, by option
    server, \* the default server, once its URL is read
    given   \* history: the options read so far

vars == <<pc, cfg, server, given>>

\* setDefaultValuesToCfg after the memset, and the first lines of parseCommandLine.
\* The flags are those of force-ipv4 and force-ipv6.
Init ==
    /\ pc = "options" /\ server = NULL /\ given = <<>>
    /\ cfg = [o \in Known |->
                CASE o \in Numbers \cup Unchecked -> 0
                  [] o \in {"force-ipv4", "force-ipv6"} -> FALSE
                  [] o = "jwt-algo" -> {}
                  [] o = "parodus-local-url" -> "PARODUS_UPSTREAM"
                  [] o = "dns-txt-url" -> "DNS_TXT_URL"
                  [] OTHER -> NULL]

Offered ==
    CASE given = <<>> -> Options \cup Alone
      [] Len(given) \in 1..MaxOptions - 1 /\ Head(given) \in Options -> Options
      [] OTHER -> {}

Read(o) ==
    /\ pc = "options"
    /\ given' = Append(given, o) /\ UNCHANGED server

Stores(o, value) == cfg' = [cfg EXCEPT ![o.opt] = value] /\ UNCHANGED pc
Abort == pc' = "aborted" /\ UNCHANGED cfg
-----------------------------------------------------------------------------
(* The options                                                              *)

NumberOption(o) ==
    /\ o.opt \in Numbers /\ Read(o)
    /\ IF parse_num_arg(o.arg) = NoNumber THEN Abort ELSE Stores(o, parse_num_arg(o.arg))

\* boot-time and boot-time-retry-wait are stored as they are parsed.
UncheckedOption(o) ==
    /\ o.opt \in Unchecked /\ Read(o)
    /\ Stores(o, parse_num_arg(o.arg))

\* Only the scheme is looked at.
UrlOption(o) ==
    /\ o.opt = "webpa-url" /\ Read(o)
    /\ IF server_is_http(o.arg.scheme) < 0 THEN Abort ELSE Stores(o, o.arg)

\* Twelve characters beside the colons.
MacOption(o) ==
    /\ o.opt = "hw-mac" /\ Read(o)
    /\ IF o.arg # 12 THEN Abort ELSE Stores(o, o.arg)

\* The algorithms of a list, which has at least one name, if all of them are RSA ones (ALLOW_NON_RSA_ALG is false).
get_algo_mask(names) == IF Range(names) \subseteq rsa_algorithms THEN Range(names) ELSE NULL

AlgoOption(o) ==
    /\ o.opt = "jwt-algo" /\ Read(o)
    /\ IF get_algo_mask(o.arg) = NULL THEN Abort ELSE Stores(o, get_algo_mask(o.arg))

\* A file that cannot be opened or read aborts; of an empty one nothing is stored.
\* Options hold one key: a second, shorter one would leave the end of the first.
read_key_from_file(o) ==
    /\ o.opt = "jwt-public-key-file" /\ Read(o)
    /\ CASE o.arg = "missing" -> Abort
         [] o.arg = "empty" -> UNCHANGED <<pc, cfg>>
         [] OTHER -> Stores(o, o.arg)

ForceOption(o) ==
    /\ o.opt \in {"force-ipv4", "force-ipv6"} /\ Read(o)
    /\ Stores(o, TRUE)

TextOption(o) ==
    /\ o.opt \in Texts /\ Read(o)
    /\ Stores(o, o.arg)

\* getopt_long has printed a message.
UnknownOption(o) ==
    /\ o.opt \notin Known /\ Read(o)
    /\ UNCHANGED <<pc, cfg>>

\* Mutant of FinalCheck: a key counts as given if its option is.
FinalCheckKeyOption ==
    /\ pc = "options"
    /\ pc' = IF \/ cfg["webpa-url"] = NULL
                \/ cfg["acquire-jwt"] # 0 /\ cfg["jwt-algo"] = {}
                \/ /\ cfg["acquire-jwt"] # 0 /\ cfg["jwt-algo"] \cap rsa_algorithms # {}
                   /\ ~ \E k \in 1..Len(given) : given[k].opt = "jwt-public-key-file"
             THEN "aborted" ELSE "connect"
    /\ UNCHANGED <<cfg, server, given>>

\* The end of the options: a URL is needed, and for a JWT algorithms and a key.
FinalCheck ==
    /\ pc = "options"
    /\ pc' = IF \/ cfg["webpa-url"] = NULL
                \/ cfg["acquire-jwt"] # 0 /\ cfg["jwt-algo"] = {}
                \/ /\ cfg["acquire-jwt"] # 0 /\ cfg["jwt-algo"] \cap rsa_algorithms # {}
                   /\ cfg["jwt-public-key-file"] = NULL
             THEN "aborted" ELSE "connect"
    /\ UNCHANGED <<cfg, server, given>>

\* find_servers of the first createNopollConnection: INVALID_DEFAULT is fatal.
FirstConnect ==
    /\ pc = "connect"
    /\ server' = parse_webpa_url(cfg["webpa-url"].scheme, Text(cfg["webpa-url"]))
    /\ pc' = IF server' = Refused THEN "aborted" ELSE "running"
    /\ UNCHANGED <<cfg, given>>

ParseOption(o) ==
    \/ NumberOption(o) \/ UncheckedOption(o) \/ UrlOption(o) \/ MacOption(o) \/ AlgoOption(o)
    \/ read_key_from_file(o) \/ ForceOption(o) \/ TextOption(o) \/ UnknownOption(o)

Next == (\E o \in Offered : ParseOption(o)) \/ FinalCheck \/ FirstConnect

Spec == Init /\ [][Next]_vars
-----------------------------------------------------------------------------
(* What a command line means, whatever the order of its options.            *)

Args(name) == {given[k].arg : k \in {j \in 1..Len(given) : given[j].opt = name}}
LastArg(name) ==
    LET places == {j \in 1..Len(given) : given[j].opt = name}
    IN given[CHOOSE k \in places : \A j \in places : j <= k].arg

\* What an unsigned int holds of a number.
Kept(text) == Written(text) % 2 ^ UIntBits

\* No option is wrong by itself; the largest unsigned int is taken for no number.  The
\* code does not look at the boot times: one that is no number counts as right here too.
EachRight ==
    /\ \A n \in Numbers : \A text \in Args(n) : IsNumber(text) /\ Kept(text) # NoNumber
    /\ \A u \in Args("webpa-url") : u.scheme \in {"https", "http"}
    /\ Args("hw-mac") \subseteq {12}
    /\ \A list \in Args("jwt-algo") : Range(list) \subseteq rsa_algorithms
    /\ "missing" \notin Args("jwt-public-key-file")

\* A JWT is wanted by the last acquire-jwt; it needs an algorithm and a key that is not
\* empty.
JwtUsable ==
    Args("acquire-jwt") # {} /\ Kept(LastArg("acquire-jwt")) # 0 =>
        Args("jwt-algo") # {} /\ Args("jwt-public-key-file") \ {"empty"} # {}

OptionsUsable == EachRight /\ JwtUsable /\ Args("webpa-url") # {}

\* Parodus starts with exactly the command lines that can be used: a URL that names a
\* server, no wrong argument before or after, and, if a JWT is to be acquired, what it
\* takes to check one, so that no lookup ever runs with a weak algorithm or without a
\* key.  The ports that are no number from 1 to 65535 and the hosts with one bracket
\* get past the options and stop it at the first connection.  Two exceptions: a boot time
\* that is no number stops nothing, and of a URL that may be Misread either can happen.
StartsIffUsable ==
    /\ pc = "running" =>
          /\ OptionsUsable
          /\ Misread(LastArg("webpa-url")) \/ Meaning(LastArg("webpa-url")) # Refused
    /\ pc = "aborted" =>
          ~ /\ OptionsUsable
            /\ ~Misread(LastArg("webpa-url")) /\ Meaning(LastArg("webpa-url")) # Refused

\* The last value of an option counts whatever was read before and between: of a
\* number what is left of it in an unsigned int, of the algorithms only those of the
\* last list, and of a boot time that is no number the -1 of parse_num_arg.
LastOneCounts ==
    pc = "running" =>
        /\ \A n \in Texts \cup {"webpa-url"} : Args(n) # {} => cfg[n] = LastArg(n)
        /\ \A n \in Numbers : Args(n) # {} => cfg[n] = Kept(LastArg(n))
        /\ \A n \in Unchecked : Args(n) # {} =>
              cfg[n] = IF IsNumber(LastArg(n)) THEN Kept(LastArg(n)) ELSE NoNumber
        /\ Args("jwt-algo") # {} => cfg["jwt-algo"] = Range(LastArg("jwt-algo"))

\* The server contacted is the one the last URL names: whatever its path, its brackets
\* and how its port is written, the address and port are its parts, and a URL with one
\* bracket missing or whose port is no number from 1 to 65535, also one too large for
\* an unsigned int, gives none.
ServerAsWritten ==
    server # NULL =>
        Misread(LastArg("webpa-url")) \/ server = Meaning(LastArg("webpa-url"))

\* Parodus runs with what the command line says.
ReadsAsWritten == LastOneCounts /\ ServerAsWritten
=============================================================================
