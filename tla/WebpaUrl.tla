------------------------------ MODULE WebpaUrl ------------------------------
(***************************************************************************)
(* How the URL of a server is read: parse_webpa_url, for the URL of the    *)
(* configuration (Config), of a redirect and of a JWT.  A text is a        *)
(* sequence of characters.  A URL is its parts,                            *)
(* [scheme, host, v6, port, path, slash]: the texts of the host, of the    *)
(* port after its ":" and of the path after its "/", the last two perhaps  *)
(* NULL, whether the host is an IPv6 address in brackets, and whether      *)
(* there is a "/" at the very end.  Meaning says what the parts name, and  *)
(* parse_webpa_url what the code makes of the text they are written as.    *)
(***************************************************************************)
EXTENDS Integers, Sequences, SequencesExt

CONSTANTS
    UIntBits,        \* width of an unsigned int
    Chars,           \* the characters of a text
    NULL

Digits == <<"0", "1", "2", "3", "4", "5", "6", "7", "8", "9">>
Value(c) == (CHOOSE k \in 1..10 : Digits[k] = c) - 1

\* What CommandLine assumes of the constants: seven digits fit, and the digits and the
\* separators are characters.
WideEnough == 2 ^ UIntBits \in Nat /\ 2 ^ UIntBits > 10000000
CharsSuffice == {"/", ":", "[", "]"} \cup Range(Digits) \subseteq Chars

\* What follows the scheme and its "://" in a URL of these parts.
Text(u) ==
    (IF u.v6 THEN <<"[">> \o u.host \o <<"]">> ELSE u.host)
    \o (IF u.port = NULL THEN <<>> ELSE <<":">> \o u.port)
    \o (IF u.path = NULL THEN <<>> ELSE <<"/">> \o u.path)
    \o (IF u.slash THEN <<"/">> ELSE <<>>)
-----------------------------------------------------------------------------
\* Mutant of parStrncpy: there is room for all of it.
parStrncpyAll(text, size) == text

parStrncpy(text, size) == SubSeq(text, 1, IF Len(text) < size THEN Len(text) ELSE size - 1)

\* strchr: the place of the first c, 0 if there is none.
strchr(text, c) ==
    LET at == {k \in 1..Len(text) : text[k] = c} IN
    IF at = {} THEN 0 ELSE CHOOSE k \in at : \A j \in at : k <= j

\* The text before and after place k.
Before(text, k) == SubSeq(text, 1, k - 1)
After(text, k) == SubSeq(text, k + 1, Len(text))
UpTo(text, c) == IF strchr(text, c) = 0 THEN text ELSE Before(text, strchr(text, c))

Refused == [insecure |-> -1, addr |-> <<>>, port |-> 0]

\* parse_num_arg: -1, as an unsigned int, for no number; the sum wraps around.
NoNumber == 2 ^ UIntBits - 1
parse_num_arg(text) ==
    LET sum[k \in 0..Len(text)] ==
            IF k = 0 THEN 0 ELSE (sum[k - 1] * 10 + Value(text[k])) % 2 ^ UIntBits
    IN IF text = <<>> \/ \E k \in 1..Len(text) : text[k] \notin Range(Digits) THEN NoNumber
       ELSE sum[Len(text)]

PORT_BUFLEN == 8
MaxPort == 65535
DefaultPort(insecure) == IF insecure = 1 THEN <<"8", "0">> ELSE <<"4", "4", "3">>

\* The port from the text behind its ":" to the next "/".
PortText(text) == parStrncpy(UpTo(text, "/"), PORT_BUFLEN)

DropSlash(text) == IF text # <<>> /\ Last(text) = "/" THEN Front(text) ELSE text

\* The address is between the brackets; the "[" is taken for the first character.
InBrackets(insecure, text) ==
    LET inner == Tail(text)
        close == strchr(inner, "]")
        rest == After(inner, close)
        colon == strchr(rest, ":")
    IN IF close = 0 THEN Refused
       ELSE [insecure |-> insecure, addr |-> Before(inner, close),
             port |-> IF colon = 0 THEN DefaultPort(insecure) ELSE PortText(After(rest, colon))]

\* The address ends at the first ":", or else at the first "/".
NoBrackets(insecure, text) ==
    LET colon == strchr(text, ":") IN
    IF colon = 0
    THEN [insecure |-> insecure, addr |-> UpTo(text, "/"), port |-> DefaultPort(insecure)]
    ELSE [insecure |-> insecure, addr |-> Before(text, colon), port |-> PortText(After(text, colon))]

server_is_http(scheme) ==
    CASE scheme = "https" -> 0 [] scheme = "http" -> 1 [] OTHER -> -1

parse_webpa_url__(scheme, full) ==
    LET insecure == server_is_http(scheme)
        text == DropSlash(full)
    IN
    CASE insecure < 0 -> Refused
      [] insecure >= 0 /\ strchr(text, "[") # 0 -> InBrackets(insecure, text)
      [] insecure >= 0 /\ strchr(text, "[") = 0 /\ strchr(text, "]") # 0 -> Refused
      [] OTHER -> NoBrackets(insecure, text)

\* A port from 1 to MaxPort, else the URL is refused.
parse_webpa_url(scheme, full) ==
    LET parsed == parse_webpa_url__(scheme, full)
        port == parse_num_arg(parsed.port)
    IN IF parsed.insecure < 0 \/ port = NoNumber \/ port = 0 \/ port > MaxPort THEN Refused
       ELSE [parsed EXCEPT !.port = port]
-----------------------------------------------------------------------------
(* What the parts mean, with numbers of any size.                           *)

IsNumber(text) == text # <<>> /\ Range(text) \subseteq Range(Digits)

\* The number a text is, whatever its size.
Written(text) ==
    LET sum[k \in 0..Len(text)] == IF k = 0 THEN 0 ELSE sum[k - 1] * 10 + Value(text[k])
    IN sum[Len(text)]

\* The server and port a URL names, its host having no bracket of its own: 443 for
\* https and 80 for http if it has no port.
Meaning(u) ==
    LET insecure == server_is_http(u.scheme)
        port == IF u.port = NULL THEN DefaultPort(insecure) ELSE u.port
    IN IF \/ insecure < 0 \/ {"[", "]"} \cap Range(u.host) # {}
          \/ ~IsNumber(port) \/ Written(port) \notin 1..MaxPort
       THEN Refused
       ELSE [insecure |-> insecure, addr |-> u.host, port |-> Written(port)]

\* The parts are those of the text: the separators come between them and nowhere else.
\* In a host that is no IPv6 address they may stand beside a bracket, which no host has.
WellWritten(u) ==
    /\ u.host \in Seq(Chars)
    /\ u.port # NULL => u.port \in Seq(Chars) /\ "/" \notin Range(u.port)
    /\ u.path # NULL => u.path \in Seq(Chars)
    /\ u.v6 \/ {"[", "]"} \cap Range(u.host) # {} \/ {":", "/"} \cap Range(u.host) = {}

\* A ":" in the path of a URL without port: the code takes it for the port's.
ColonInPath(u) == u.port = NULL /\ u.path # NULL /\ ":" \in Range(u.path)

\* A bracket in the path of a URL whose host has none: it is taken for the host's.
BracketInPath(u) == ~u.v6 /\ u.path # NULL /\ {"[", "]"} \cap Range(u.path) # {}

\* A port with leading zeros that is longer than the buffer: what does not fit is not
\* looked at.
CutPort(u) == u.port # NULL /\ Len(u.port) >= PORT_BUFLEN /\ u.port[1] = "0" /\ u.port[2] = "0"

\* Brackets that are not those of an IPv6 address: one inside it, or a "[" and a "]" about
\* or behind a name.  They are taken for its brackets, and the "[" for the first character.
StrayBrackets(u) ==
    LET named == Range(u.host) \cup (IF u.port = NULL THEN {} ELSE Range(u.port)) IN
    IF u.v6 THEN {"[", "]"} \cap Range(u.host) # {} ELSE {"[", "]"} \subseteq named

\* The URLs that may not be read as they are written.
Misread(u) == ColonInPath(u) \/ BracketInPath(u) \/ CutPort(u) \/ StrayBrackets(u)
=============================================================================
