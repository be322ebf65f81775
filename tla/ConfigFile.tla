----------------------------- MODULE ConfigFile -----------------------------
(***************************************************************************)
(* The configuration file: how config_load reads it line by line, what it  *)
(* refuses and repairs at the end (config.c), and which configuration the  *)
(* master then runs with, from master_init on and over reloads by SIGHUP   *)
(* (master.c).                                                             *)
(*                                                                         *)
(* A setting is a field of the Config with the section and key that set    *)
(* it, how its value is read, and its default.  A line is what trim and    *)
(* strchr make of it.  The lines are chosen as they are read, so a file    *)
(* that is edited between two loads, or during one, is covered.            *)
(***************************************************************************)
EXTENDS Integers, Sequences, FiniteSetsExt

CONSTANTS Settings,                       \* fields of the Config
          ConfigLine,                     \* the lines a file may have
          SIZE_MAX, INT_MAX,              \* largest size_t and int
          CHAIN_NOT_SET,
          NoConfig,                       \* NULL
          MaxConfigLines,                 \* bound on the lines of all loads
          MaxLoads                        \* bound on loads

(* "size" fields are read by parse_size_t, "int" fields by parse_int,      *)
(* "double" fields by parse_double, the "chain" by                         *)
(* network_chain_from_string, and "text" is copied.                        *)
ASSUME ConfigFileAssumption ==
    /\ \A f \in Settings : f.as \in {"size", "int", "double", "chain", "text"}
    /\ \A f, g \in Settings : (f.section = g.section /\ f.key = g.key) => f = g
    /\ \A f \in Settings : f.as = "size" => f.default \in 0..SIZE_MAX
    /\ \A f \in Settings : f.as = "chain" => f.default = CHAIN_NOT_SET
    /\ \A f \in Settings : f.key \in {"large_threshold", "huge_threshold"} => f.as = "size"
    /\ \A f, g \in Settings :
          (f.key = "large_threshold" /\ g.key = "huge_threshold") => f.default < g.default
    /\ \E f, g, h \in Settings :
          f.as = "chain" /\ g.key = "large_threshold" /\ h.key = "huge_threshold"
    /\ CHAIN_NOT_SET # "mixed"
    /\ SIZE_MAX \in Nat \ {0}
    /\ INT_MAX \in Nat
    /\ MaxConfigLines \in Nat
    /\ MaxLoads \in Nat

VARIABLES
    config,              \* master->config
    c,                   \* the Config being filled by config_load
    section,             \* the section the next line is in
    master,              \* what the master is doing
    opened,              \* history: the configuration in force is from a file
    read,                \* history: the lines of this load
    config_lines, loads  \* counters for the bounds

config_vars == <<config, c, section, master, opened, read, config_lines, loads>>

config_default == [f \in Settings |-> f.default]

Field(s, k) == {f \in Settings : f.section = s /\ f.key = k}
Chain == CHOOSE f \in Settings : f.as = "chain"
Large == CHOOSE f \in Settings : f.key = "large_threshold"
Huge == CHOOSE f \in Settings : f.key = "huge_threshold"
RpcEnabled == {f \in Settings : f.key = "enabled" /\ f.section # "tls"}

ConfigInit ==
    /\ config = NoConfig
    /\ c = NoConfig
    /\ section = ""
    /\ master = "starting"
    /\ opened = FALSE
    /\ read = <<>>
    /\ config_lines = 0
    /\ loads = 0
-----------------------------------------------------------------------------
(* What one line does.                                                     *)

(* The number a value is, or the default if it is out of range or not a    *)
(* number at all.  strtoull takes a minus sign: the value is negated, as   *)
(* unsigned numbers are.                                                   *)
parse_size_t(value, default) ==
    IF value \in (-SIZE_MAX)..SIZE_MAX THEN value % (SIZE_MAX + 1) ELSE default

parse_int(value, default) == IF value \in 0..INT_MAX THEN value ELSE default

parse_double(value, default) == IF value \in Nat THEN value ELSE default

network_chain_from_string(value) ==
    IF value \in {"mainnet", "testnet", "signet", "regtest", "mixed"}
    THEN value ELSE CHAIN_NOT_SET

(* Faulty variant: a number that cannot be read leaves the field alone.    *)
FaultyAssign(f, old, value) ==
    CASE f.as = "size" -> parse_size_t(value, old)
      [] f.as = "int" -> parse_int(value, old)
      [] f.as = "double" -> parse_double(value, old)
      [] f.as = "chain" -> IF network_chain_from_string(value) = CHAIN_NOT_SET
                           THEN old ELSE network_chain_from_string(value)
      [] f.as = "text" -> value

assign(f, old, value) ==
    CASE f.as = "size" -> parse_size_t(value, f.default)
      [] f.as = "int" -> parse_int(value, f.default)
      [] f.as = "double" -> parse_double(value, f.default)
      [] f.as = "chain" -> IF network_chain_from_string(value) = CHAIN_NOT_SET
                           THEN old ELSE network_chain_from_string(value)
      [] f.as = "text" -> value
-----------------------------------------------------------------------------
(* config_load, called by master_init or master_reload.                    *)

(* No memory for a Config: NULL.                                           *)
load_no_memory ==
    /\ master \in {"starting", "running"}
    /\ loads < MaxLoads
    /\ loads' = loads + 1
    /\ master' = IF master = "starting" THEN "exited" ELSE "running"
    /\ UNCHANGED <<config, c, section, opened, read, config_lines>>

(* The file cannot be opened: the defaults, with no chain.                 *)
load_no_file ==
    /\ master \in {"starting", "running"}
    /\ loads < MaxLoads
    /\ loads' = loads + 1
    /\ config' = config_default
    /\ opened' = FALSE
    /\ master' = "running"
    /\ UNCHANGED <<c, section, read, config_lines>>

load_opens ==
    /\ master \in {"starting", "running"}
    /\ loads < MaxLoads
    /\ loads' = loads + 1
    /\ c' = config_default
    /\ section' = ""
    /\ read' = <<>>
    /\ master' = IF master = "starting" THEN "first_load" ELSE "reload"
    /\ UNCHANGED <<config, opened, config_lines>>

fgets_line(line) ==
    /\ master \in {"first_load", "reload"}
    /\ config_lines < MaxConfigLines
    /\ config_lines' = config_lines + 1
    /\ read' = Append(read, line)
    /\ UNCHANGED <<config, master, opened, loads>>

(* A header is taken if it is closed; a line that is empty, a comment, or  *)
(* has no "=" is passed over.                                              *)
read_header(line) ==
    /\ fgets_line(line)
    /\ line.kind = "section"
    /\ section' = IF line.closed THEN line.name ELSE section
    /\ UNCHANGED c

read_setting(line) ==
    /\ fgets_line(line)
    /\ line.kind = "set"
    /\ c' = [f \in Settings |-> IF f \in Field(section, line.key)
                                THEN assign(f, c[f], line.value) ELSE c[f]]
    /\ UNCHANGED section

read_skipped(line) ==
    /\ fgets_line(line)
    /\ line.kind = "skipped"
    /\ UNCHANGED <<c, section>>

(* After the last line.                                                    *)
chain_missing == c[Chain] = CHAIN_NOT_SET

rpc_missing == c[Chain] = "mixed" /\ \A f \in RpcEnabled : c[f] = 0

(* Faulty variant: thresholds that are equal are left alone.               *)
FaultyTierOrder(cfg) ==
    IF cfg[Large] > cfg[Huge]
    THEN [cfg EXCEPT ![Huge] = (2 * cfg[Large]) % (SIZE_MAX + 1)] ELSE cfg

tier_order(cfg) ==
    IF cfg[Large] >= cfg[Huge]
    THEN [cfg EXCEPT ![Huge] = (2 * cfg[Large]) % (SIZE_MAX + 1)] ELSE cfg

(* NULL: main exits, or the reload "keeps old configuration".              *)
load_refused ==
    /\ master \in {"first_load", "reload"}
    /\ chain_missing \/ rpc_missing
    /\ master' = IF master = "first_load" THEN "exited" ELSE "running"
    /\ c' = NoConfig
    /\ section' = ""
    /\ read' = <<>>
    /\ UNCHANGED <<config, opened, config_lines, loads>>

load_done ==
    /\ master \in {"first_load", "reload"}
    /\ ~chain_missing
    /\ ~rpc_missing
    /\ config' = tier_order(c)
    /\ opened' = TRUE
    /\ master' = "running"
    /\ c' = NoConfig
    /\ section' = ""
    /\ read' = <<>>
    /\ UNCHANGED <<config_lines, loads>>

ConfigNext ==
    \/ load_no_memory
    \/ load_no_file
    \/ load_opens
    \/ \E line \in ConfigLine : \/ read_header(line)
                                \/ read_setting(line)
                                \/ read_skipped(line)
    \/ load_refused
    \/ load_done

ConfigSpec == ConfigInit /\ [][ConfigNext]_config_vars
-----------------------------------------------------------------------------
(* What a file means, read as a whole.                                     *)

Headers(i) == {j \in 1..(i - 1) : read[j].kind = "section" /\ read[j].closed}
SectionAt(i) == IF Headers(i) = {} THEN "" ELSE read[Max(Headers(i))].name

(* The lines that say something about a field.                             *)
About(f) ==
    {i \in 1..Len(read) :
        /\ read[i].kind = "set"
        /\ read[i].key = f.key
        /\ SectionAt(i) = f.section
        /\ f.as = "chain" => network_chain_from_string(read[i].value) # CHAIN_NOT_SET}

Meaning(f) ==
    IF About(f) = {} THEN f.default
    ELSE LET value == read[Max(About(f))].value
         IN  CASE f.as = "size" -> parse_size_t(value, f.default)
               [] f.as = "int" -> parse_int(value, f.default)
               [] f.as = "double" -> parse_double(value, f.default)
               [] OTHER -> value
-----------------------------------------------------------------------------
(* Properties.                                                             *)

(* What config_load has after any number of lines is what those lines mean *)
(* as a whole: for every field the last line in its section decides, also  *)
(* if sections recur or share keys; a number that cannot be read puts the  *)
(* default back, even over an earlier good value, and a chain that cannot  *)
(* be read does not touch an earlier good one.                             *)
LoadedAsWritten ==
    c # NoConfig => \A f \in Settings : c[f] = Meaning(f)

(* The configuration in force, whatever files were loaded and refused on   *)
(* the way to it: one that comes from a file names a chain, and in mixed   *)
(* mode a server for some chain; and the large tier starts below the huge  *)
(* one, unless it starts at 0 or doubling it overflows a size_t.           *)
UsableInForce ==
    config # NoConfig =>
        /\ opened => config[Chain] # CHAIN_NOT_SET
        /\ config[Chain] = "mixed" => \E f \in RpcEnabled : config[f] # 0
        /\ \/ config[Large] < config[Huge]
           \/ config[Large] = 0
           \/ 2 * config[Large] > SIZE_MAX
=============================================================================
