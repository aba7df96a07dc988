----------------------------- MODULE CommandLine -----------------------------
(***************************************************************************)
(* The command line (Config) under names of its own, beside which those of *)
(* the lookup (JwtLookup) can stand: what parodus reads before it          *)
(* connects.                                                               *)
(***************************************************************************)
EXTENDS Integers, Sequences

CONSTANTS
    Options, MaxOptions, Alone, UIntBits, Chars,
    None             \* NULL

VARIABLES cpc, cfg, cserver, given

Cfg == INSTANCE Config WITH pc <- cpc, server <- cserver, NULL <- None

ASSUME CommandLineAssumption ==
    /\ MaxOptions \in Nat /\ UIntBits \in Nat
    /\ Cfg!WideEnough /\ Cfg!CharsSuffice /\ Cfg!OptionsTyped

ConfigSpec == Cfg!Spec
-----------------------------------------------------------------------------
\* parseCommandLine and the first find_servers: parodus starts with exactly the command
\* lines that can be used; it does not with one that cannot, nor stops at one that can.
StartsIffUsable == Cfg!StartsIffUsable

\* parseCommandLine and parse_webpa_url: the last value of each option counts, and the
\* server is the one that the last URL names.
ReadsAsWritten == Cfg!ReadsAsWritten
=============================================================================
