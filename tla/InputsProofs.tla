---------------------------- MODULE InputsProofs ----------------------------
(***************************************************************************)
(* Proofs about what the program reads: the file of ConfigFile and the     *)
(* requests of RequestPath.  Their inductive invariants are ConfigInv and  *)
(* RequestInv.                                                             *)
(***************************************************************************)
EXTENDS ConfigFile, RequestPath, FiniteSetTheorems, WellFoundedInduction, TLAPS

(* Induction over the natural numbers, in a form without a parameter: a    *)
(* set of numbers that is not empty has a least one.                       *)
LEMMA LeastNumber ==
    ASSUME NEW T \in SUBSET Nat, T # {}
    PROVE  \E x \in T : \A y \in T : x <= y
<1>. DEFINE R == {ss \in Nat \X Nat : ss[1] < ss[2]}
<1>1. IsWellFoundedOn(R, Nat)
  BY NatLessThanWellFounded DEF OpToRel
<1>2. \A x, y \in Nat : y < x => <<y, x>> \in R
  OBVIOUS
<1>. HIDE DEF R
<1>3. PICK x \in T : \A y \in T : ~(<<y, x>> \in R)
  BY <1>1, WFMin, ZenonT(30)
<1>4. \A y \in T : ~(y < x)
  BY <1>2, <1>3, ZenonT(30)
<1>5. QED
  BY <1>4

(* The largest number of a set of line numbers.                            *)
LEMMA MaxIs ==
    ASSUME NEW S \in SUBSET Nat, NEW x \in S, \A y \in S : x >= y
    PROVE  Max(S) = x
<1>1. \A z \in S : (\A y \in S : z >= y) => z = x
  OBVIOUS
<1>2. QED
  BY <1>1 DEF Max

LEMMA MaxExists ==
    ASSUME NEW n \in Nat, NEW S \in SUBSET (1..n), S # {}
    PROVE  Max(S) \in S /\ \A y \in S : Max(S) >= y
<1>. DEFINE T == {m \in Nat : \A y \in S : y <= m}
<1>1. n \in T
  OBVIOUS
<1>2. PICK x \in T : \A y \in T : x <= y
  <2>. HIDE DEF T
  <2>1. T \in SUBSET Nat /\ T # {}
    BY <1>1 DEF T
  <2>2. QED
    BY <2>1, LeastNumber
<1>3. x \in S
  <2>1. SUFFICES ASSUME x \notin S PROVE FALSE
    OBVIOUS
  <2>2. x # 0
    <3>1. PICK y \in S : TRUE
      OBVIOUS
    <3>2. QED
      BY <3>1
  <2>3. x - 1 \in T
    BY <2>1, <2>2
  <2>4. QED
    BY <1>2, <2>3
<1>4. QED
  BY <1>3 DEF Max

-----------------------------------------------------------------------------
(* While a file is read.                                                   *)
Loading == master \in {"first_load", "reload"}

(* What config_load has is what the lines read so far mean, and it knows   *)
(* the section they end in; when no file is read it has nothing.           *)
LoadInv ==
    /\ ~Loading => c = NoConfig
    /\ Loading => /\ read \in Seq(ConfigLine)
                  /\ c \in [Settings -> {c[f] : f \in Settings}]
                  /\ section = SectionAt(Len(read) + 1)
                  /\ \A f \in Settings : c[f] = Meaning(f)

(* The sets of lines before a given one, and about a field, are finite.    *)
LEMMA LinesBefore ==
    ASSUME read \in Seq(ConfigLine), NEW i \in 1..(Len(read) + 1)
    PROVE  /\ Headers(i) \subseteq 1..Len(read)
           /\ Headers(i) # {} => Max(Headers(i)) \in Headers(i)
<1>1. Len(read) \in Nat
  OBVIOUS
<1>2. Headers(i) \subseteq 1..Len(read)
  BY <1>1 DEF Headers
<1>3. QED
  BY <1>1, <1>2, MaxExists, ZenonT(30)

LEMMA LinesAbout ==
    ASSUME read \in Seq(ConfigLine), NEW f
    PROVE  /\ About(f) \subseteq 1..Len(read)
           /\ About(f) # {} => Max(About(f)) \in About(f)
<1>1. Len(read) \in Nat /\ About(f) \subseteq 1..Len(read)
  BY DEF About
<1>2. QED
  BY <1>1, MaxExists, ZenonT(30)

(* One more line leaves the sections of the others alone.                  *)
LEMMA SectionKept ==
    ASSUME read \in Seq(ConfigLine), NEW line \in ConfigLine, read' = Append(read, line),
           NEW i \in 1..(Len(read) + 1)
    PROVE  SectionAt(i)' = SectionAt(i)
<1>1. \A j \in 1..Len(read) : read'[j] = read[j]
  OBVIOUS
<1>2. Headers(i) \subseteq 1..Len(read) /\ (Headers(i) # {} => Max(Headers(i)) \in Headers(i))
  BY LinesBefore
<1>3. Headers(i)' = Headers(i)
  BY <1>1 DEF Headers
<1>4. QED
  BY <1>1, <1>2, <1>3, ZenonT(30) DEF SectionAt

(* The section after one more line: a closed header starts its own.        *)
LEMMA SectionNext ==
    ASSUME read \in Seq(ConfigLine), NEW line \in ConfigLine, read' = Append(read, line),
           NEW n \in Nat, n = Len(read)
    PROVE  SectionAt(n + 2)' = IF line.kind = "section" /\ line.closed THEN line.name
                               ELSE SectionAt(n + 1)
<1>1. /\ read'[n + 1] = line /\ n + 1 \in 1..(Len(read) + 1)
      /\ \A j \in 1..n : read'[j] = read[j]
  OBVIOUS
<1>2. Headers(n + 1) \subseteq 1..n
      /\ (Headers(n + 1) # {} => Max(Headers(n + 1)) \in Headers(n + 1))
  BY <1>1, LinesBefore
<1>3. CASE line.kind = "section" /\ line.closed
  <2>1. Headers(n + 2)' \in SUBSET Nat /\ n + 1 \in Headers(n + 2)'
        /\ \A y \in Headers(n + 2)' : n + 1 >= y
    BY <1>1, <1>3 DEF Headers
  <2>2. Max(Headers(n + 2)') = n + 1
    BY <2>1, MaxIs, ZenonT(30)
  <2>3. QED
    BY <1>1, <1>3, <2>1, <2>2, ZenonT(30) DEF SectionAt
<1>4. CASE ~(line.kind = "section" /\ line.closed)
  <2>1. Headers(n + 2)' = Headers(n + 1)
    BY <1>1, <1>4 DEF Headers
  <2>2. QED
    BY <1>1, <1>2, <1>4, <2>1, ZenonT(30) DEF SectionAt
<1>5. QED
  BY <1>3, <1>4

(* What a line says about a field.                                         *)
Sets(line, where, f) ==
    /\ line.kind = "set" /\ line.key = f.key /\ where = f.section
    /\ f.as = "chain" => network_chain_from_string(line.value) # CHAIN_NOT_SET

Readable(value) == network_chain_from_string(value) # CHAIN_NOT_SET

(* What a field means after one more line: the line decides if it sets the *)
(* field.                                                                  *)
LEMMA AboutNext ==
    ASSUME read \in Seq(ConfigLine), NEW line \in ConfigLine, read' = Append(read, line),
           NEW f \in Settings
    PROVE  Meaning(f)' = IF ~Sets(line, SectionAt(Len(read) + 1), f) THEN Meaning(f)
                         ELSE CASE f.as = "size" -> parse_size_t(line.value, f.default)
                                [] f.as = "int" -> parse_int(line.value, f.default)
                                [] f.as = "double" -> parse_double(line.value, f.default)
                                [] OTHER -> line.value
<1>. DEFINE n == Len(read)
<1>1. /\ n \in Nat /\ Len(read') = n + 1 /\ read'[n + 1] = line
      /\ \A j \in 1..n : read'[j] = read[j]
      /\ 1..(n + 1) = 1..n \cup {n + 1} /\ n + 1 \notin 1..n
  OBVIOUS
<1>2. About(f) \subseteq 1..n /\ (About(f) # {} => Max(About(f)) \in About(f))
  BY LinesAbout
<1>3. \A i \in 1..(n + 1) : SectionAt(i)' = SectionAt(i)
  BY SectionKept
<1>. DEFINE About1 == {i \in 1..(n + 1) : /\ read'[i].kind = "set"
                                          /\ read'[i].key = f.key
                                          /\ SectionAt(i) = f.section
                                          /\ f.as = "chain" => Readable(read'[i].value)}
<1>4. About(f)' = About1
  BY <1>1, <1>3, ZenonT(30) DEF About, Readable
<1>5. CASE Sets(line, SectionAt(n + 1), f)
  <2>1. About(f)' \in SUBSET Nat /\ n + 1 \in About(f)' /\ \A y \in About(f)' : n + 1 >= y
    BY <1>1, <1>4, <1>5 DEF Sets, Readable
  <2>2. Max(About(f)') = n + 1
    BY <2>1, MaxIs, ZenonT(30)
  <2>3. QED
    BY <1>1, <1>5, <2>1, <2>2 DEF Meaning
<1>6. CASE ~Sets(line, SectionAt(n + 1), f)
  <2>1. About(f)' = About(f)
    BY <1>1, <1>4, <1>6, ZenonT(30) DEF Sets, About, Readable
  <2>2. About(f) # {} => read'[Max(About(f))] = read[Max(About(f))]
    BY <1>1, <1>2
  <2>3. QED
    BY <1>6, <2>1, <2>2 DEF Meaning
<1>7. QED
  BY <1>5, <1>6

(* The settings the code names.                                            *)
LEMMA Named ==
    /\ Chain \in Settings /\ Chain.as = "chain"
    /\ Large \in Settings /\ Large.key = "large_threshold" /\ Large.as = "size"
    /\ Huge \in Settings /\ Huge.key = "huge_threshold" /\ Huge.as = "size"
    /\ Huge # Chain /\ Huge # Large
    /\ \A f \in RpcEnabled : f \in Settings /\ f # Huge
<1>1. \E f, g, h \in Settings :
         f.as = "chain" /\ g.key = "large_threshold" /\ h.key = "huge_threshold"
  BY ConfigFileAssumption
<1>2. /\ Chain \in Settings /\ Chain.as = "chain"
      /\ Large \in Settings /\ Large.key = "large_threshold"
      /\ Huge \in Settings /\ Huge.key = "huge_threshold"
  BY <1>1, ZenonT(30) DEF Chain, Large, Huge
<1>3. Large.as = "size" /\ Huge.as = "size"
  BY <1>2, ConfigFileAssumption
<1>4. \A f \in RpcEnabled : f \in Settings /\ f.key = "enabled"
  BY DEF RpcEnabled
<1>. HIDE DEF RpcEnabled, Chain, Large, Huge
<1>5. QED
  BY <1>2, <1>3, <1>4

(* What parse_size_t returns fits a size_t.                                *)
LEMMA ParseInRange ==
    ASSUME NEW value, NEW default \in 0..SIZE_MAX
    PROVE  parse_size_t(value, default) \in 0..SIZE_MAX
<1>1. SIZE_MAX \in Nat
  BY ConfigFileAssumption
<1>2. CASE value \in (-SIZE_MAX)..SIZE_MAX
  <2>1. value % (SIZE_MAX + 1) \in 0..SIZE_MAX
    BY <1>1, <1>2
  <2>2. QED
    BY <1>2, <2>1 DEF parse_size_t
<1>3. CASE value \notin (-SIZE_MAX)..SIZE_MAX
  BY <1>3 DEF parse_size_t
<1>4. QED
  BY <1>2, <1>3

LEMMA SizeInRange ==
    ASSUME NEW f \in Settings, f.as = "size"
    PROVE  Meaning(f) \in 0..SIZE_MAX
<1>1. f.default \in 0..SIZE_MAX
  BY ConfigFileAssumption
<1>2. CASE About(f) = {}
  BY <1>1, <1>2 DEF Meaning
<1>3. CASE About(f) # {}
  <2>. DEFINE value == read[Max(About(f))].value
  <2>1. Meaning(f) = parse_size_t(value, f.default)
    BY <1>3 DEF Meaning
  <2>2. QED
    BY <1>1, <2>1, ParseInRange
<1>4. QED
  BY <1>2, <1>3

(* An empty file means the defaults.                                       *)
LEMMA NothingRead ==
    ASSUME read' = <<>>
    PROVE  /\ SectionAt(Len(read) + 1)' = ""
           /\ \A f \in Settings : Meaning(f)' = f.default
<1>1. 1..Len(read') = {} /\ 1..(Len(read') + 1 - 1) = {}
  <2>1. Len(read') = 0 /\ 1..0 = {}
    OBVIOUS
  <2>2. QED
    BY <2>1
<1>2. Headers(Len(read) + 1)' = {}
  BY <1>1 DEF Headers
<1>3. \A f \in Settings : About(f)' = {}
  BY <1>1, ZenonT(30) DEF About
<1>4. QED
  BY <1>2, <1>3, ZenonT(30) DEF SectionAt, Meaning

(* What the master may be doing.                                           *)
Masters == {"starting", "first_load", "reload", "running", "exited"}

(* The inductive invariant.                                                *)
ConfigInv == master \in Masters /\ LoadInv /\ UsableInForce

(* Before the first load.                                                  *)
LEMMA ConfigInitInv == ConfigInit => ConfigInv
BY DEF ConfigInit, ConfigInv, LoadInv, Loading, Masters, UsableInForce

(* A line read, whatever its kind.                                         *)
LEMMA LineKeeps ==
    ASSUME ConfigInv, NEW line \in ConfigLine,
           read_header(line) \/ read_setting(line) \/ read_skipped(line)
    PROVE  LoadInv'
<1>1. /\ Loading /\ master' = master /\ read' = Append(read, line)
      /\ read \in Seq(ConfigLine) /\ c \in [Settings -> {c[f] : f \in Settings}]
      /\ section = SectionAt(Len(read) + 1) /\ \A f \in Settings : c[f] = Meaning(f)
  BY ZenonT(30) DEF ConfigInv, LoadInv, Loading, read_header, read_setting, read_skipped,
                    fgets_line
<1>2. Loading' /\ read' \in Seq(ConfigLine) /\ Len(read') = Len(read) + 1 /\ Len(read) \in Nat
  BY <1>1 DEF Loading
<1>3. section' = SectionAt(Len(read) + 1)'
  <2>1. SectionAt(Len(read) + 1)' = IF line.kind = "section" /\ line.closed THEN line.name
                                    ELSE SectionAt(Len(read) + 1)
    <3>1. PICK n \in Nat : n = Len(read)
      BY <1>2
    <3>2. SectionAt(n + 2)' = IF line.kind = "section" /\ line.closed THEN line.name
                              ELSE SectionAt(n + 1)
      BY <1>1, <3>1, SectionNext
    <3>3. Len(read') + 1 = n + 2
      BY <1>2, <3>1
    <3>4. SectionAt(Len(read) + 1)' = SectionAt(n + 2)'
      BY <3>3, ZenonT(30) DEF SectionAt, Headers
    <3>5. QED
      BY <3>1, <3>2, <3>4
  <2>2. QED
    BY <1>1, <2>1 DEF read_header, read_setting, read_skipped
<1>4. \A f \in Settings : c'[f] = Meaning(f)'
  <2>. SUFFICES ASSUME NEW f \in Settings PROVE c'[f] = Meaning(f)'
    OBVIOUS
  <2>1. Meaning(f)' = IF ~Sets(line, section, f) THEN Meaning(f)
                      ELSE CASE f.as = "size" -> parse_size_t(line.value, f.default)
                             [] f.as = "int" -> parse_int(line.value, f.default)
                             [] f.as = "double" -> parse_double(line.value, f.default)
                             [] OTHER -> line.value
    BY <1>1, AboutNext
  <2>2. CASE line.kind # "set"
    BY <1>1, <2>1, <2>2 DEF Sets, read_header, read_setting, read_skipped
  <2>3. CASE line.kind = "set"
    <3>1. c'[f] = IF f.section = section /\ f.key = line.key
                  THEN assign(f, c[f], line.value) ELSE c[f]
      BY <2>3 DEF read_header, read_setting, read_skipped, Field
    <3>2. f.as \in {"size", "int", "double", "chain", "text"}
      BY ConfigFileAssumption
    <3>3. CASE ~(f.section = section /\ f.key = line.key)
      BY <1>1, <2>1, <3>1, <3>3 DEF Sets
    <3>4. CASE f.section = section /\ f.key = line.key
      <4>1. CASE f.as = "chain"
        <5>1. assign(f, c[f], line.value) =
                 IF network_chain_from_string(line.value) = CHAIN_NOT_SET
                 THEN c[f] ELSE network_chain_from_string(line.value)
          BY <4>1 DEF assign
        <5>2. Sets(line, section, f) <=> network_chain_from_string(line.value) # CHAIN_NOT_SET
          BY <2>3, <3>4, <4>1 DEF Sets
        <5>3. network_chain_from_string(line.value) \in {line.value, CHAIN_NOT_SET}
          BY DEF network_chain_from_string
        <5>4. QED
          BY <1>1, <2>1, <3>1, <3>4, <4>1, <5>1, <5>2, <5>3
      <4>2. CASE f.as # "chain"
        <5>1. Sets(line, section, f)
          BY <2>3, <3>4, <4>2 DEF Sets
        <5>2. QED
          BY <2>1, <3>1, <3>2, <3>4, <4>2, <5>1 DEF assign
      <4>3. QED
        BY <4>1, <4>2
    <3>5. QED
      BY <3>3, <3>4
  <2>4. QED
    BY <2>2, <2>3
<1>5. c' \in [Settings -> {c'[f] : f \in Settings}]
  BY <1>1 DEF read_header, read_setting, read_skipped
<1>6. QED
  BY <1>2, <1>3, <1>4, <1>5 DEF LoadInv

(* The end of a file that is taken.                                        *)
LEMMA DoneUsable ==
    ASSUME ConfigInv, load_done
    PROVE  UsableInForce'
<1>1. /\ c \in [Settings -> {c[f] : f \in Settings}] /\ \A f \in Settings : c[f] = Meaning(f)
      /\ c[Chain] # CHAIN_NOT_SET
      /\ c[Chain] = "mixed" => \E f \in RpcEnabled : c[f] # 0
      /\ config' = tier_order(c)
  BY ZenonT(30) DEF ConfigInv, LoadInv, Loading, load_done, chain_missing, rpc_missing
<1>2. c[Large] \in 0..SIZE_MAX /\ c[Huge] \in 0..SIZE_MAX /\ SIZE_MAX \in Nat
  BY <1>1, Named, SizeInRange, ConfigFileAssumption
<1>3. /\ config'[Chain] = c[Chain] /\ config'[Large] = c[Large]
      /\ \A f \in RpcEnabled : config'[f] = c[f]
  BY <1>1, Named DEF tier_order
<1>4. \/ config'[Large] < config'[Huge] \/ config'[Large] = 0
      \/ 2 * config'[Large] > SIZE_MAX
  <2>1. CASE c[Large] >= c[Huge]
    <3>1. config'[Huge] = (2 * c[Large]) % (SIZE_MAX + 1)
      BY <1>1, <2>1, Named DEF tier_order
    <3>2. 2 * c[Large] <= SIZE_MAX => (2 * c[Large]) % (SIZE_MAX + 1) = 2 * c[Large]
      BY <1>2
    <3>3. QED
      BY <1>2, <1>3, <3>1, <3>2
  <2>2. CASE ~(c[Large] >= c[Huge])
    BY <1>1, <1>2, <2>2 DEF tier_order
  <2>3. QED
    BY <2>1, <2>2
<1>5. QED
  BY <1>1, <1>3, <1>4, ZenonT(30) DEF UsableInForce, Chain, Large, Huge, RpcEnabled

(* The steps of config_load and of the master.                             *)
LEMMA ConfigStep ==
    ASSUME ConfigInv, [ConfigNext]_config_vars
    PROVE  ConfigInv'
<1>1. CASE UNCHANGED config_vars
  <2>1. /\ config' = config /\ c' = c /\ section' = section /\ master' = master
        /\ opened' = opened /\ read' = read
    BY <1>1 DEF config_vars
  <2>2. \A f : Meaning(f)' = Meaning(f)
    BY <2>1 DEF Meaning, About, SectionAt, Headers
  <2>3. SectionAt(Len(read) + 1)' = SectionAt(Len(read) + 1)
    BY <2>1 DEF SectionAt, Headers
  <2>4. LoadInv'
    BY <2>1, <2>2, <2>3, ZenonT(30) DEF ConfigInv, LoadInv, Loading
  <2>5. QED
    BY <2>1, <2>4, ZenonT(30) DEF ConfigInv, UsableInForce
<1>2. CASE load_no_memory
  BY <1>2 DEF load_no_memory, ConfigInv, LoadInv, Loading, Masters, UsableInForce
<1>3. CASE load_no_file
  <2>1. /\ master' = "running" /\ c' = c /\ c = NoConfig
        /\ config' = config_default /\ opened' = FALSE
    BY <1>3 DEF load_no_file, ConfigInv, LoadInv, Loading
  <2>2. /\ config'[Chain] = CHAIN_NOT_SET /\ CHAIN_NOT_SET # "mixed"
        /\ config'[Large] < config'[Huge]
    <3>1. /\ config'[Chain] = Chain.default /\ config'[Large] = Large.default
          /\ config'[Huge] = Huge.default
      BY <2>1, Named DEF config_default
    <3>2. QED
      BY <3>1, Named, ConfigFileAssumption, ZenonT(30)
  <2>3. QED
    BY <2>1, <2>2, ZenonT(30)
       DEF ConfigInv, LoadInv, Loading, Masters, UsableInForce, Chain, Large, Huge
<1>4. CASE load_opens
  <2>1. /\ master' \in {"first_load", "reload"} /\ c' = config_default /\ section' = ""
        /\ read' = <<>> /\ config' = config /\ opened' = opened
    BY <1>4 DEF load_opens
  <2>2. SectionAt(Len(read) + 1)' = "" /\ \A f \in Settings : Meaning(f)' = f.default
    BY <2>1, NothingRead
  <2>3. \A f \in Settings : c'[f] = f.default
    BY <2>1, ZenonT(30) DEF config_default
  <2>4. c' \in [Settings -> {c'[f] : f \in Settings}]
    BY <2>1 DEF config_default
  <2>5. read' \in Seq(ConfigLine)
    <3>1. <<>> \in Seq(ConfigLine)
      OBVIOUS
    <3>2. QED
      BY <2>1, <3>1, ZenonT(30)
  <2>6. LoadInv'
    BY <2>1, <2>2, <2>3, <2>4, <2>5, ZenonT(30) DEF LoadInv, Loading
  <2>7. master' \in Masters /\ UsableInForce'
    BY <2>1, ZenonT(30) DEF ConfigInv, Masters, UsableInForce
  <2>8. QED
    BY <2>6, <2>7 DEF ConfigInv
<1>5. CASE \E line \in ConfigLine :
              read_header(line) \/ read_setting(line) \/ read_skipped(line)
  <2>1. PICK line \in ConfigLine : read_header(line) \/ read_setting(line) \/ read_skipped(line)
    BY <1>5
  <2>2. LoadInv'
    BY <2>1, LineKeeps
  <2>3. config' = config /\ opened' = opened /\ master' = master
    BY <2>1 DEF read_header, read_setting, read_skipped, fgets_line
  <2>4. QED
    BY <2>2, <2>3, ZenonT(30) DEF ConfigInv, UsableInForce
<1>6. CASE load_refused
  BY <1>6 DEF load_refused, ConfigInv, LoadInv, Loading, Masters, UsableInForce
<1>7. CASE load_done
  <2>1. master' = "running" /\ c' = NoConfig
    BY <1>7 DEF load_done
  <2>2. UsableInForce'
    BY <1>7, DoneUsable
  <2>3. QED
    BY <2>1, <2>2 DEF ConfigInv, LoadInv, Loading, Masters
<1>8. QED
  BY <1>1, <1>2, <1>3, <1>4, <1>5, <1>6, <1>7, ZenonT(30) DEF ConfigNext

(* Over any number of loads, refused and taken, and of lines.              *)
THEOREM ConfigInvariant == ConfigSpec => []ConfigInv
<1>1. ConfigInv /\ [ConfigNext]_config_vars => ConfigInv'
  BY ConfigStep
<1>2. QED
  BY ConfigInitInv, <1>1, PTL DEF ConfigSpec

(* Reading line by line gives every field what the file says as a whole:   *)
(* the last line for it in its section, for any settings, any file and any *)
(* order of sections.                                                      *)
THEOREM LoadedAsWrittenAlways == ConfigSpec => []LoadedAsWritten
<1>1. ConfigInv => LoadedAsWritten
  BY ZenonT(30) DEF ConfigInv, LoadInv, LoadedAsWritten
<1>2. QED
  BY ConfigInvariant, <1>1, PTL

(* The configuration in force names a chain if it comes from a file, has a *)
(* server in mixed mode, and orders its tiers unless the doubling of       *)
(* config_load cannot.                                                     *)
THEOREM UsableInForceAlways == ConfigSpec => []UsableInForce
<1>1. ConfigInv => UsableInForce
  BY DEF ConfigInv
<1>2. QED
  BY ConfigInvariant, <1>1, PTL

-----------------------------------------------------------------------------
(* Requests.                                                               *)

(* The counters; and those of one family add up to the responses counted.  *)
Metrics == [latency_bucket_inf : Nat, endpoints : Nat, errors_parse : Nat,
            status : [{"2xx", "4xx", "5xx"} -> Nat],
            method : [{"get", "post", "other"} -> Nat]]

Families(m) ==
    /\ m.status["2xx"] + m.status["4xx"] + m.status["5xx"] = m.latency_bucket_inf
    /\ m.method["get"] + m.method["post"] + m.method["other"] = m.latency_bucket_inf

(* What is true of a connection in each of its states, and of where its    *)
(* response came from.                                                     *)
ConnOK(x) ==
    /\ x \in Conn
    /\ x.state \in {"IDLE", "READING_HEADERS"} =>
          x.response_status = 0 /\ x.via = "none" /\ x.method = "none"
    /\ x.state \in {"WRITING_RESPONSE", "CLOSING"} => x.response_status # 0 /\ x.via # "none"
    /\ x.via = "validation" => Malformed(x.path) /\ x.method = "none"
    /\ x.via = "route" => ~Malformed(x.path) /\ x.method = x.asked
    /\ x.via = "limits" => x.method \in {x.asked, "none"}

IsChallenge(p) == route_request(p) = "ACME_CHALLENGE"

(* The same of a stream.                                                   *)
StreamOK(x) ==
    /\ x \in Stream
    /\ x.state # "HALF_CLOSED_REMOTE" => x.response_status = 0 /\ x.sent = 0
    /\ x.state = "HALF_CLOSED_REMOTE" => x.response_status # 0
    /\ x.state # "IDLE" => (x.state = "REFUSED" <=> Malformed(x.path))
    /\ x.sent # 0 => \/ x.response_status = x.sent
                     \/ IsChallenge(x.path) /\ x.sent = 200

(* Responses still on their way.                                           *)
Waiting1 == {k \in Conns : h1[k].response_status # 0}
Waiting2 == {s \in Streams : h2[s].response_status # 0}

(* Responses made that are neither counted nor lost.                       *)
Owed == answered - metrics.latency_bucket_inf - dropped

(* They are what is owed.                                                  *)
Balance ==
    /\ IsFiniteSet(Waiting1)
    /\ IsFiniteSet(Waiting2)
    /\ Owed = Cardinality(Waiting1) + Cardinality(Waiting2)

(* The other variables.                                                    *)
Others ==
    /\ draining \in BOOLEAN
    /\ challenge \in {"absent", "empty", "present"}
    /\ begun \in 0..MaxRequests
    /\ answered \in Nat
    /\ dropped \in Nat

(* The inductive invariant.                                                *)
RequestInv ==
    /\ h1 \in [Conns -> Conn] /\ \A k \in Conns : ConnOK(h1[k])
    /\ h2 \in [Streams -> Stream] /\ \A s \in Streams : StreamOK(h2[s])
    /\ metrics \in Metrics /\ Families(metrics)
    /\ Others
    /\ Balance

-----------------------------------------------------------------------------
(* Paths, NoPath included.                                                 *)
LEMMA PathFacts ==
    ASSUME NEW p \in Paths \cup {NoPath}
    PROVE  /\ p \in [slash : BOOLEAN, word : Words \cup {"acme", "tx", "none"},
                     len : Nat, hex : Nat, token_ok : BOOLEAN]
           /\ p.hex <= p.len
           /\ p.word = "tx" => p.hex + TxPrefix <= p.len
           /\ p.word \in Words => p.len <= 7
<1>1. CASE p \in Paths
  BY <1>1, RequestPathAssumption
<1>2. CASE p = NoPath
  <2>1. p.hex = 0 /\ p.len = 0 /\ p.word = "none"
    BY <1>2 DEF NoPath
  <2>2. p \in [slash : BOOLEAN, word : Words \cup {"acme", "tx", "none"},
               len : Nat, hex : Nat, token_ok : BOOLEAN]
    BY <1>2 DEF NoPath
  <2>3. "none" \notin Words
    BY DEF Words
  <2>4. QED
    BY <2>1, <2>2, <2>3
<1>3. QED
  BY <1>1, <1>2

(* The early check, on any piece of a path, refuses malformed paths only;  *)
(* on the whole path it refuses all of them, as validate_hex_path does.    *)
LEMMA EarlyCheck ==
    ASSUME NEW p \in Paths \cup {NoPath}, NEW n \in Nat, n <= p.len
    PROVE  /\ ~validate_path_early(p, n) => Malformed(p)
           /\ validate_path_early(p, p.len) <=> ~Malformed(p)
           /\ validate_hex_path(p) <=> ~Malformed(p)
<1>1. /\ p.hex \in Nat /\ p.len \in Nat /\ p.hex <= p.len
      /\ p.word = "tx" => p.hex + 3 <= p.len
  BY PathFacts DEF TxPrefix
<1>2. QED
  BY <1>1 DEF validate_path_early, validate_hex_path, Malformed, TxPrefix

(* The router has no page for a malformed path, but may have a challenge.  *)
LEMMA MalformedRoute ==
    ASSUME NEW p \in Paths \cup {NoPath}, Malformed(p)
    PROVE  route_request(p) \in {"ERROR", "ACME_CHALLENGE"}
<1>1. /\ p.hex \in Nat /\ p.len \in Nat /\ p.hex <= p.len
      /\ p.word \in Words => p.len <= 7
      /\ p.word \in Words \cup {"acme", "tx", "none"}
  BY PathFacts
<1>2. /\ p.len >= 64 /\ p.word \notin Words
      /\ p.word = "tx" => p.hex # p.len - 3
      /\ p.word # "tx" => p.hex # p.len
  BY <1>1 DEF Malformed, TxPrefix
<1>3. CASE ~p.slash
  BY <1>3 DEF route_request
<1>4. CASE p.slash /\ p.word = "acme"
  BY <1>1, <1>2, <1>4 DEF route_request, AcmePrefix, Words
<1>5. CASE p.slash /\ p.word = "tx"
  BY <1>1, <1>2, <1>5 DEF route_request, TxPrefix, Words
<1>6. CASE p.slash /\ p.word = "none"
  BY <1>1, <1>2, <1>6 DEF route_request, is_all_hex, Words
<1>7. QED
  BY <1>1, <1>2, <1>3, <1>4, <1>5, <1>6

(* A response counted is counted once in every family.                     *)
LEMMA CountKeeps ==
    ASSUME NEW m \in Metrics, Families(m), NEW status \in Statuses,
           NEW method \in Methods \cup {"none"}
    PROVE  /\ count(m, status, method) \in Metrics
           /\ Families(count(m, status, method))
           /\ count(m, status, method).latency_bucket_inf = m.latency_bucket_inf + 1
<1>1. status_class(status) \in {"2xx", "4xx", "5xx"}
  BY DEF status_class, Statuses
<1>2. method_class(method) \in {"get", "post", "other"}
  BY DEF method_class, Methods
<1>3. PICK a \in {"2xx", "4xx", "5xx"}, b \in {"get", "post", "other"} :
         a = status_class(status) /\ b = method_class(method)
  BY <1>1, <1>2
<1>. DEFINE r == count(m, status, method)
<1>4. r = [m EXCEPT !.latency_bucket_inf = m.latency_bucket_inf + 1,
                    !.status = [m.status EXCEPT ![a] = m.status[a] + 1],
                    !.method = [m.method EXCEPT ![b] = m.method[b] + 1]]
  BY <1>3 DEF count, Metrics
<1>. HIDE DEF r
<1>5. m = [latency_bucket_inf |-> m.latency_bucket_inf, endpoints |-> m.endpoints,
           errors_parse |-> m.errors_parse, status |-> m.status, method |-> m.method]
  BY DEF Metrics
<1>6. r = [latency_bucket_inf |-> m.latency_bucket_inf + 1, endpoints |-> m.endpoints,
           errors_parse |-> m.errors_parse,
           status |-> [m.status EXCEPT ![a] = m.status[a] + 1],
           method |-> [m.method EXCEPT ![b] = m.method[b] + 1]]
  BY <1>4, <1>5
<1>. HIDE DEF r
<1>7. /\ r.latency_bucket_inf = m.latency_bucket_inf + 1
      /\ r.status = [m.status EXCEPT ![a] = m.status[a] + 1]
      /\ r.method = [m.method EXCEPT ![b] = m.method[b] + 1]
      /\ r.endpoints = m.endpoints /\ r.errors_parse = m.errors_parse
  BY <1>6 DEF Metrics
<1>8. /\ m.status \in [{"2xx", "4xx", "5xx"} -> Nat] /\ m.latency_bucket_inf \in Nat
      /\ m.method \in [{"get", "post", "other"} -> Nat]
  BY DEF Metrics
<1>. r \in Metrics
  <2>1. /\ r.status \in [{"2xx", "4xx", "5xx"} -> Nat]
        /\ r.method \in [{"get", "post", "other"} -> Nat]
    BY <1>7, <1>8
  <2>2. m.endpoints \in Nat /\ m.errors_parse \in Nat
    BY DEF Metrics
  <2>3. QED
    BY <1>6, <2>1, <2>2, <1>7, <1>8 DEF Metrics
<1>9. r.status["2xx"] + r.status["4xx"] + r.status["5xx"] = r.latency_bucket_inf
  <2>1. m.status["2xx"] + m.status["4xx"] + m.status["5xx"] = m.latency_bucket_inf
    BY DEF Families
  <2>2. CASE a = "2xx"
    BY <1>7, <1>8, <2>1, <2>2
  <2>3. CASE a = "4xx"
    BY <1>7, <1>8, <2>1, <2>3
  <2>4. CASE a = "5xx"
    BY <1>7, <1>8, <2>1, <2>4
  <2>5. QED
    BY <2>2, <2>3, <2>4
<1>10. r.method["get"] + r.method["post"] + r.method["other"] = r.latency_bucket_inf
  <2>1. m.method["get"] + m.method["post"] + m.method["other"] = m.latency_bucket_inf
    BY DEF Families
  <2>2. CASE b = "get"
    BY <1>7, <1>8, <2>1, <2>2
  <2>3. CASE b = "post"
    BY <1>7, <1>8, <2>1, <2>3
  <2>4. CASE b = "other"
    BY <1>7, <1>8, <2>1, <2>4
  <2>5. QED
    BY <2>2, <2>3, <2>4
<1>11. QED
  BY <1>7, <1>9, <1>10 DEF Families, r

(* Whether a connection or a stream has a response on its way.             *)
Waits(x) == IF x.response_status # 0 THEN 1 ELSE 0

(* One connection changes.                                                 *)
LEMMA OneConn ==
    ASSUME RequestInv, NEW k \in Conns, NEW v, ConnOK(v), h1' = [h1 EXCEPT ![k] = v]
    PROVE  /\ h1' \in [Conns -> Conn] /\ \A j \in Conns : ConnOK(h1'[j])
           /\ IsFiniteSet(Waiting1')
           /\ Cardinality(Waiting1') = Cardinality(Waiting1) + Waits(v) - Waits(h1[k])
           /\ Cardinality(Waiting1) \in Nat
<1>1. h1 \in [Conns -> Conn] /\ (\A j \in Conns : ConnOK(h1[j])) /\ v \in Conn
  BY DEF RequestInv, ConnOK
<1>2. h1' \in [Conns -> Conn] /\ h1'[k] = v /\ \A j \in Conns \ {k} : h1'[j] = h1[j]
  BY <1>1
<1>3. \A j \in Conns : ConnOK(h1'[j])
  BY <1>1, <1>2, ZenonT(30)
<1>4. IsFiniteSet(Waiting1) /\ Cardinality(Waiting1) \in Nat
  BY FS_CardinalityType DEF RequestInv, Balance
<1>5. CASE Waits(v) = Waits(h1[k])
  <2>1. v.response_status # 0 <=> h1[k].response_status # 0
    BY <1>5 DEF Waits
  <2>2. Waiting1' = Waiting1
    BY <1>2, <2>1, ZenonT(30) DEF Waiting1
  <2>3. QED
    BY <1>2, <1>3, <1>4, <1>5, <2>2 DEF Waits
<1>6. CASE v.response_status # 0 /\ h1[k].response_status = 0
  <2>1. k \notin Waiting1 /\ Waiting1' = Waiting1 \cup {k}
    BY <1>2, <1>6, ZenonT(30) DEF Waiting1
  <2>2. IsFiniteSet(Waiting1') /\ Cardinality(Waiting1') = Cardinality(Waiting1) + 1
    BY <1>4, <2>1, FS_AddElement
  <2>3. QED
    BY <1>2, <1>3, <1>4, <1>6, <2>2 DEF Waits
<1>7. CASE v.response_status = 0 /\ h1[k].response_status # 0
  <2>1. k \in Waiting1 /\ Waiting1' = Waiting1 \ {k}
    BY <1>2, <1>7, ZenonT(30) DEF Waiting1
  <2>2. IsFiniteSet(Waiting1') /\ Cardinality(Waiting1') = Cardinality(Waiting1) - 1
    BY <1>4, <2>1, FS_RemoveElement
  <2>3. QED
    BY <1>2, <1>3, <1>4, <1>7, <2>2 DEF Waits
<1>8. QED
  BY <1>5, <1>6, <1>7 DEF Waits

(* One stream changes.                                                     *)
LEMMA OneStream ==
    ASSUME RequestInv, NEW s \in Streams, NEW v, StreamOK(v), h2' = [h2 EXCEPT ![s] = v]
    PROVE  /\ h2' \in [Streams -> Stream] /\ \A j \in Streams : StreamOK(h2'[j])
           /\ IsFiniteSet(Waiting2')
           /\ Cardinality(Waiting2') = Cardinality(Waiting2) + Waits(v) - Waits(h2[s])
           /\ Cardinality(Waiting2) \in Nat
<1>1. h2 \in [Streams -> Stream] /\ (\A j \in Streams : StreamOK(h2[j])) /\ v \in Stream
  BY DEF RequestInv, StreamOK
<1>2. h2' \in [Streams -> Stream] /\ h2'[s] = v /\ \A j \in Streams \ {s} : h2'[j] = h2[j]
  BY <1>1
<1>3. \A j \in Streams : StreamOK(h2'[j])
  BY <1>1, <1>2, ZenonT(30)
<1>4. IsFiniteSet(Waiting2) /\ Cardinality(Waiting2) \in Nat
  BY FS_CardinalityType DEF RequestInv, Balance
<1>5. CASE Waits(v) = Waits(h2[s])
  <2>1. v.response_status # 0 <=> h2[s].response_status # 0
    BY <1>5 DEF Waits
  <2>2. Waiting2' = Waiting2
    BY <1>2, <2>1, ZenonT(30) DEF Waiting2
  <2>3. QED
    BY <1>2, <1>3, <1>4, <1>5, <2>2 DEF Waits
<1>6. CASE v.response_status # 0 /\ h2[s].response_status = 0
  <2>1. s \notin Waiting2 /\ Waiting2' = Waiting2 \cup {s}
    BY <1>2, <1>6, ZenonT(30) DEF Waiting2
  <2>2. IsFiniteSet(Waiting2') /\ Cardinality(Waiting2') = Cardinality(Waiting2) + 1
    BY <1>4, <2>1, FS_AddElement
  <2>3. QED
    BY <1>2, <1>3, <1>4, <1>6, <2>2 DEF Waits
<1>7. CASE v.response_status = 0 /\ h2[s].response_status # 0
  <2>1. s \in Waiting2 /\ Waiting2' = Waiting2 \ {s}
    BY <1>2, <1>7, ZenonT(30) DEF Waiting2
  <2>2. IsFiniteSet(Waiting2') /\ Cardinality(Waiting2') = Cardinality(Waiting2) - 1
    BY <1>4, <2>1, FS_RemoveElement
  <2>3. QED
    BY <1>2, <1>3, <1>4, <1>7, <2>2 DEF Waits
<1>8. QED
  BY <1>5, <1>6, <1>7 DEF Waits

Counted(m) == m \in Metrics /\ Families(m)

(* A parse error counted.                                                  *)
Noted(m) == [m EXCEPT !.errors_parse = m.errors_parse + 1]

(* The other counters change no family.                                    *)
LEMMA OtherCounters ==
    ASSUME NEW m, Counted(m), NEW route, NEW r,
           r = Noted(m) \/ r = update_endpoint_counter(m, route)
    PROVE  Counted(r) /\ r.latency_bucket_inf = m.latency_bucket_inf
<1>1. m = [latency_bucket_inf |-> m.latency_bucket_inf, endpoints |-> m.endpoints,
           errors_parse |-> m.errors_parse, status |-> m.status, method |-> m.method]
  BY DEF Metrics, Counted
<1>2. /\ m.latency_bucket_inf \in Nat /\ m.endpoints \in Nat /\ m.errors_parse \in Nat
      /\ m.status \in [{"2xx", "4xx", "5xx"} -> Nat]
      /\ m.method \in [{"get", "post", "other"} -> Nat]
  BY DEF Metrics, Counted
<1>3. PICK x \in Nat, y \in Nat :
         r = [latency_bucket_inf |-> m.latency_bucket_inf, endpoints |-> x,
              errors_parse |-> y, status |-> m.status, method |-> m.method]
  <2>1. CASE r = Noted(m)
    <3>1. r = [latency_bucket_inf |-> m.latency_bucket_inf, endpoints |-> m.endpoints,
               errors_parse |-> m.errors_parse + 1, status |-> m.status, method |-> m.method]
      BY <1>1, <2>1 DEF Noted
    <3>2. m.errors_parse + 1 \in Nat
      BY <1>2
    <3>3. QED
      BY <1>2, <3>1, <3>2, ZenonT(30)
  <2>2. CASE r = update_endpoint_counter(m, route) /\ route # "ERROR"
    <3>1. r = [latency_bucket_inf |-> m.latency_bucket_inf, endpoints |-> m.endpoints + 1,
               errors_parse |-> m.errors_parse, status |-> m.status, method |-> m.method]
      BY <1>1, <2>2 DEF update_endpoint_counter
    <3>2. m.endpoints + 1 \in Nat
      BY <1>2
    <3>3. QED
      BY <1>2, <3>1, <3>2, ZenonT(30)
  <2>3. CASE r = update_endpoint_counter(m, route) /\ route = "ERROR"
    BY <1>1, <1>2, <2>3, ZenonT(30) DEF update_endpoint_counter
  <2>4. QED
    BY <2>1, <2>2, <2>3
<1>4. r \in Metrics
  BY <1>2, <1>3 DEF Metrics
<1>5. /\ r.status = m.status /\ r.method = m.method
      /\ r.latency_bucket_inf = m.latency_bucket_inf
  BY <1>3
<1>6. QED
  BY <1>4, <1>5, ZenonT(30) DEF Counted, Families

(* A step that changes one connection keeps the invariant if the           *)
(* connection stays sound and what is owed changes with it.                *)
LEMMA ConnStep ==
    ASSUME RequestInv, NEW k \in Conns, NEW v, ConnOK(v), h1' = [h1 EXCEPT ![k] = v],
           h2' = h2, Counted(metrics'), Others',
           Owed' = Owed + Waits(v) - Waits(h1[k])
    PROVE  RequestInv'
<1>1. /\ h1' \in [Conns -> Conn] /\ \A j \in Conns : ConnOK(h1'[j])
      /\ IsFiniteSet(Waiting1')
      /\ Cardinality(Waiting1') = Cardinality(Waiting1) + Waits(v) - Waits(h1[k])
      /\ Cardinality(Waiting1) \in Nat
  BY OneConn, ZenonT(30)
<1>2. Waiting2' = Waiting2 /\ IsFiniteSet(Waiting2) /\ Cardinality(Waiting2) \in Nat
  BY FS_CardinalityType, ZenonT(30) DEF Waiting2, RequestInv, Balance
<1>3. h2' \in [Streams -> Stream] /\ \A s \in Streams : StreamOK(h2'[s])
  BY ZenonT(30) DEF RequestInv
<1>4. Owed = Cardinality(Waiting1) + Cardinality(Waiting2)
  BY ZenonT(30) DEF RequestInv, Balance
<1>5. Waits(v) \in Int /\ Waits(h1[k]) \in Int
  BY DEF Waits
<1>6. Owed' = Cardinality(Waiting1') + Cardinality(Waiting2')
  BY <1>1, <1>2, <1>4, <1>5
<1>7. Balance'
  BY <1>1, <1>2, <1>6, ZenonT(30) DEF Balance
<1>8. QED
  BY <1>1, <1>3, <1>7, ZenonT(30) DEF RequestInv, Counted

(* The same for one stream.                                                *)
LEMMA StreamStep ==
    ASSUME RequestInv, NEW s \in Streams, NEW v, StreamOK(v), h2' = [h2 EXCEPT ![s] = v],
           h1' = h1, Counted(metrics'), Others',
           Owed' = Owed + Waits(v) - Waits(h2[s])
    PROVE  RequestInv'
<1>1. /\ h2' \in [Streams -> Stream] /\ \A j \in Streams : StreamOK(h2'[j])
      /\ IsFiniteSet(Waiting2')
      /\ Cardinality(Waiting2') = Cardinality(Waiting2) + Waits(v) - Waits(h2[s])
      /\ Cardinality(Waiting2) \in Nat
  BY OneStream, ZenonT(30)
<1>2. Waiting1' = Waiting1 /\ IsFiniteSet(Waiting1) /\ Cardinality(Waiting1) \in Nat
  BY FS_CardinalityType, ZenonT(30) DEF Waiting1, RequestInv, Balance
<1>3. h1' \in [Conns -> Conn] /\ \A k \in Conns : ConnOK(h1'[k])
  BY ZenonT(30) DEF RequestInv
<1>4. Owed = Cardinality(Waiting1) + Cardinality(Waiting2)
  BY ZenonT(30) DEF RequestInv, Balance
<1>5. Waits(v) \in Int /\ Waits(h2[s]) \in Int
  BY DEF Waits
<1>6. Owed' = Cardinality(Waiting1') + Cardinality(Waiting2')
  BY <1>1, <1>2, <1>4, <1>5
<1>7. Balance'
  BY <1>1, <1>2, <1>6, ZenonT(30) DEF Balance
<1>8. QED
  BY <1>1, <1>3, <1>7, ZenonT(30) DEF RequestInv, Counted

(* process_request and h2_process_stream_request answer alike, and what is *)
(* noted down for a stream differs only for a challenge.                   *)
LEMMA Answers ==
    ASSUME NEW p
    PROVE  /\ process_status(p) \in {200, 404, 503}
           /\ h2_status(p) = process_status(p)
           /\ \/ h2_noted(p) = h2_status(p)
              \/ IsChallenge(p) /\ h2_noted(p) = 404 /\ h2_status(p) = 200
           /\ h2_noted(p) \in {200, 404, 503}
<1>1. CASE route_request(p) = "ready"
  BY <1>1 DEF process_status, h2_status, h2_noted
<1>2. CASE route_request(p) = "ACME_CHALLENGE"
  BY <1>2 DEF process_status, h2_status, h2_noted, IsChallenge
<1>3. CASE route_request(p) = "ERROR"
  BY <1>3 DEF process_status, h2_status, h2_noted
<1>4. CASE route_request(p) \notin {"ready", "ACME_CHALLENGE", "ERROR"}
  BY <1>4 DEF process_status, h2_status, h2_noted
<1>5. QED
  BY <1>1, <1>2, <1>3, <1>4

(* Fresh connections and streams.                                          *)
LEMMA NewOK ==
    ConnOK(NewConn) /\ StreamOK(NewStream) /\ Waits(NewConn) = 0 /\ Waits(NewStream) = 0
<1>1. NewConn \in Conn /\ NewStream \in Stream
  BY DEF NewConn, NewStream, Conn, Stream, Statuses
<1>2. QED
  BY <1>1 DEF NewConn, NewStream, ConnOK, StreamOK, Waits

(* The fields of a connection that is being read.                          *)
LEMMA Reading ==
    ASSUME RequestInv, NEW k \in Conns, h1[k].state \in {"IDLE", "READING_HEADERS"}
    PROVE  /\ h1 \in [Conns -> Conn] /\ h1[k] \in Conn
           /\ h1[k].response_status = 0 /\ h1[k].via = "none" /\ h1[k].method = "none"
           /\ Waits(h1[k]) = 0
<1>1. h1 \in [Conns -> Conn] /\ ConnOK(h1[k])
  BY ZenonT(30) DEF RequestInv
<1>2. QED
  BY <1>1 DEF ConnOK, Waits

(* What the invariant says of the other variables.                         *)
LEMMA InvParts ==
    ASSUME RequestInv
    PROVE  /\ Counted(metrics) /\ metrics \in Metrics /\ metrics.latency_bucket_inf \in Nat
           /\ draining \in BOOLEAN /\ challenge \in {"absent", "empty", "present"}
           /\ begun \in 0..MaxRequests /\ answered \in Nat /\ dropped \in Nat
<1>1. Counted(metrics) /\ metrics \in Metrics /\ Others
  BY ZenonT(30) DEF RequestInv, Counted
<1>2. metrics.latency_bucket_inf \in Nat
  BY <1>1 DEF Metrics
<1>3. QED
  BY <1>1, <1>2, ZenonT(30) DEF Others

(* The actions, one by one.                                                *)
LEMMA SentKeeps ==
    ASSUME RequestInv, NEW k \in Conns, NEW p \in Paths, NEW method \in Methods,
           request_sent(k, p, method)
    PROVE  RequestInv'
<1>1. /\ h1 \in [Conns -> Conn] /\ h1[k] \in Conn
      /\ h1[k].response_status = 0 /\ h1[k].via = "none" /\ h1[k].method = "none"
      /\ Waits(h1[k]) = 0
  BY Reading DEF request_sent
<1>2. PICK v : v = [h1[k] EXCEPT !.state = "READING_HEADERS", !.path = p, !.asked = method]
  OBVIOUS
<1>3. h1' = [h1 EXCEPT ![k] = v]
  BY <1>1, <1>2 DEF request_sent
<1>4. v \in Conn
  BY <1>1, <1>2 DEF Conn
<1>5. /\ v.state = "READING_HEADERS" /\ v.response_status = 0 /\ v.via = "none"
      /\ v.method = "none"
  BY <1>1, <1>2 DEF Conn
<1>6. ConnOK(v) /\ Waits(v) = 0
  BY <1>4, <1>5 DEF ConnOK, Waits
<1>7. /\ h2' = h2 /\ metrics' = metrics /\ draining' = draining /\ challenge' = challenge
      /\ answered' = answered /\ dropped' = dropped /\ begun' = begun + 1 /\ begun < MaxRequests
  BY DEF request_sent
<1>8. Others'
  BY <1>7, InvParts, RequestPathAssumption DEF Others
<1>9. Owed' = Owed + Waits(v) - Waits(h1[k])
  BY <1>1, <1>6, <1>7, InvParts DEF Owed
<1>10. QED
  BY <1>3, <1>6, <1>7, <1>8, <1>9, InvParts, ConnStep, ZenonT(30)

(* A connection that is given its response.                                *)
Responded(x, state, status, via) ==
    [x EXCEPT !.state = state, !.response_status = status, !.via = via]

Responding == {"WRITING_RESPONSE", "CLOSING"}
Answerers == {"validation", "route", "limits"}
ErrorStatuses == {400, 413, 500, 503}

LEMMA RespondedFields ==
    ASSUME NEW x \in Conn, NEW state \in Responding, NEW status \in Statuses,
           NEW via \in Answerers
    PROVE  /\ Responded(x, state, status, via) \in Conn
           /\ Responded(x, state, status, via).state = state
           /\ Responded(x, state, status, via).response_status = status
           /\ Responded(x, state, status, via).via = via
           /\ Responded(x, state, status, via).method = x.method
           /\ Responded(x, state, status, via).asked = x.asked
           /\ Responded(x, state, status, via).path = x.path
<1>1. PICK v : v = Responded(x, state, status, via)
  OBVIOUS
<1>2. /\ v \in Conn /\ v.state = state /\ v.response_status = status /\ v.via = via
      /\ v.method = x.method /\ v.asked = x.asked /\ v.path = x.path
  BY <1>1 DEF Conn, Responded, Responding, Answerers
<1>3. QED
  BY <1>1, <1>2, ZenonT(30)

(* A connection whose headers are parsed.                                  *)
LEMMA Parsed ==
    ASSUME NEW y \in Conn, NEW x, x = parse_request_headers(y)
    PROVE  x \in Conn /\ x.method = y.asked /\ x.asked = y.asked /\ x.path = y.path
<1>1. y.path.len \in Nat
  <2>1. y.path \in Paths \cup {NoPath}
    BY DEF Conn
  <2>2. QED
    BY <2>1, PathFacts
<1>2. x = [y EXCEPT !.method = y.asked, !.seen = y.path.len]
  BY DEF parse_request_headers
<1>3. QED
  BY <1>1, <1>2 DEF Conn

(* A refusal of a request that is being read.                              *)
Refusal(k, x, status, via) ==
    /\ x \in {h1[k], parse_request_headers(h1[k])}
    /\ status \in ErrorStatuses
    /\ via \in {"validation", "limits"}
    /\ via = "validation" => x = h1[k] /\ Malformed(x.path)

LEMMA ErrorKeeps ==
    ASSUME RequestInv, NEW k \in Conns, h1[k].state = "READING_HEADERS",
           NEW x, NEW status, NEW via, Refusal(k, x, status, via),
           connection_send_error(k, x, status, via),
           Counted(metrics'), metrics'.latency_bucket_inf = metrics.latency_bucket_inf
    PROVE  RequestInv'
<1>1. /\ h1 \in [Conns -> Conn] /\ h1[k] \in Conn
      /\ h1[k].response_status = 0 /\ h1[k].via = "none" /\ h1[k].method = "none"
      /\ Waits(h1[k]) = 0
  BY Reading
<1>2. PICK v : v = Responded(x, "CLOSING", status, via)
  OBVIOUS
<1>3. h1' = [h1 EXCEPT ![k] = v]
  BY <1>2, ZenonT(30) DEF connection_send_error, Responded
<1>4. x \in Conn /\ x.method \in {x.asked, "none"} /\ (x = h1[k] => x.method = "none")
  <2>1. CASE x = h1[k]
    BY <1>1, <2>1
  <2>2. CASE x = parse_request_headers(h1[k])
    BY <1>1, <2>2, Parsed
  <2>3. QED
    BY <2>1, <2>2 DEF Refusal
<1>5. /\ status \in Statuses /\ status # 0 /\ via \in {"validation", "limits"}
      /\ via = "validation" => x = h1[k] /\ Malformed(x.path)
  BY DEF Statuses, Refusal, ErrorStatuses
<1>6. /\ v \in Conn /\ v.state = "CLOSING" /\ v.response_status = status /\ v.via = via
      /\ v.method = x.method /\ v.asked = x.asked /\ v.path = x.path
  <2>1. "CLOSING" \in Responding /\ via \in Answerers
    BY <1>5 DEF Responding, Answerers
  <2>2. QED
    BY <1>2, <1>4, <1>5, <2>1, RespondedFields
<1>7. ConnOK(v) /\ Waits(v) = 1
  BY <1>4, <1>5, <1>6 DEF ConnOK, Waits
<1>8. /\ h2' = h2 /\ draining' = draining /\ challenge' = challenge
      /\ answered' = answered + 1 /\ dropped' = dropped /\ begun' = begun
  BY DEF connection_send_error
<1>9. Others'
  BY <1>8, InvParts, SMTT(60) DEF Others
<1>10. Owed' = Owed + Waits(v) - Waits(h1[k])
  BY <1>1, <1>7, <1>8, InvParts DEF Owed
<1>11. QED
  BY <1>3, <1>7, <1>8, <1>9, <1>10, ConnStep, ZenonT(30)

LEMMA PartialKeeps ==
    ASSUME RequestInv, NEW k \in Conns, NEW n, read_partial(k, n)
    PROVE  RequestInv'
<1>1. /\ h1 \in [Conns -> Conn] /\ h1[k] \in Conn
      /\ h1[k].response_status = 0 /\ h1[k].via = "none" /\ h1[k].method = "none"
      /\ Waits(h1[k]) = 0 /\ h1[k].state = "READING_HEADERS"
  BY Reading DEF read_partial
<1>2. /\ h1[k].seen \in Nat /\ h1[k].path \in Paths \cup {NoPath}
      /\ n \in (h1[k].seen + 1)..h1[k].path.len
  BY <1>1 DEF Conn, read_partial
<1>3. n \in Nat /\ n <= h1[k].path.len
  <2>1. h1[k].path.len \in Nat
    BY <1>2, PathFacts
  <2>2. QED
    BY <1>2, <2>1
<1>4. CASE validate_path_early(h1[k].path, n)
  <2>1. PICK v : v = [h1[k] EXCEPT !.seen = n]
    OBVIOUS
  <2>2. /\ h1' = [h1 EXCEPT ![k] = v] /\ h2' = h2 /\ metrics' = metrics
        /\ draining' = draining /\ challenge' = challenge /\ begun' = begun
        /\ answered' = answered /\ dropped' = dropped
    BY <1>4, <2>1 DEF read_partial
  <2>3. /\ v \in Conn /\ v.state = h1[k].state /\ v.response_status = 0 /\ v.via = "none"
        /\ v.method = "none"
    BY <1>1, <1>3, <2>1 DEF Conn
  <2>4. ConnOK(v) /\ Waits(v) = 0
    BY <1>1, <2>3 DEF ConnOK, Waits
  <2>5. Others'
    BY <2>2, InvParts, ZenonT(30) DEF Others
  <2>6. Owed' = Owed + Waits(v) - Waits(h1[k])
    BY <1>1, <2>2, <2>4, InvParts DEF Owed
  <2>7. QED
    BY <2>2, <2>4, <2>5, <2>6, InvParts, ConnStep, ZenonT(30)
<1>5. CASE ~validate_path_early(h1[k].path, n)
  <2>1. Malformed(h1[k].path)
    BY <1>2, <1>3, <1>5, EarlyCheck
  <2>2. /\ metrics' = Noted(metrics)
        /\ connection_send_error(k, h1[k], 400, "validation")
    BY <1>5 DEF read_partial, Noted
  <2>3. Counted(metrics') /\ metrics'.latency_bucket_inf = metrics.latency_bucket_inf
    BY <2>2, InvParts, OtherCounters, ZenonT(30)
  <2>4. Refusal(k, h1[k], 400, "validation")
    BY <2>1 DEF Refusal, ErrorStatuses
  <2>5. QED
    BY <1>1, <2>1, <2>2, <2>3, <2>4, ErrorKeeps, ZenonT(30)
<1>6. QED
  BY <1>4, <1>5

LEMMA RefusedKeeps ==
    ASSUME RequestInv, NEW k \in Conns, NEW status \in ErrorStatuses,
           NEW parsed \in BOOLEAN, read_refused(k, status, parsed)
    PROVE  RequestInv'
<1>. DEFINE x == IF parsed THEN parse_request_headers(h1[k]) ELSE h1[k]
<1>1. /\ h1[k].state = "READING_HEADERS" /\ connection_send_error(k, x, status, "limits")
      /\ x \in {h1[k], parse_request_headers(h1[k])}
  BY ZenonT(30) DEF read_refused
<1>2. Counted(metrics') /\ metrics'.latency_bucket_inf = metrics.latency_bucket_inf
  <2>1. CASE status = 400
    <3>1. metrics' = Noted(metrics)
      BY <2>1 DEF read_refused, Noted
    <3>2. QED
      BY <3>1, InvParts, OtherCounters, ZenonT(30)
  <2>2. CASE status # 400
    <3>1. metrics' = metrics
      BY <2>2, InvParts DEF read_refused, Metrics
    <3>2. QED
      BY <3>1, InvParts, ZenonT(30)
  <2>3. QED
    BY <2>1, <2>2
<1>. HIDE DEF x
<1>3. Refusal(k, x, status, "limits")
  BY <1>1 DEF Refusal
<1>4. QED
  BY <1>1, <1>2, <1>3, ErrorKeeps, ZenonT(30)

LEMMA ProcessKeeps ==
    ASSUME RequestInv, NEW k \in Conns, NEW keep_alive \in BOOLEAN,
           h1[k].state = "READING_HEADERS", ~Malformed(h1[k].path),
           process_request(k, keep_alive)
    PROVE  RequestInv'
<1>1. /\ h1 \in [Conns -> Conn] /\ h1[k] \in Conn /\ Waits(h1[k]) = 0
  BY Reading
<1>2. PICK x : x = parse_request_headers(h1[k])
  OBVIOUS
<1>3. x \in Conn /\ x.method = h1[k].asked /\ x.asked = h1[k].asked /\ x.path = h1[k].path
  BY <1>1, <1>2, Parsed, ZenonT(30)
<1>4. PICK state \in Responding :
         state = IF keep_alive /\ ~closes(h1[k].path) THEN "WRITING_RESPONSE" ELSE "CLOSING"
  BY ZenonT(30) DEF Responding
<1>5. PICK status \in Statuses : status = process_status(h1[k].path) /\ status # 0
  <2>1. process_status(h1[k].path) \in {200, 404, 503}
    BY Answers
  <2>2. QED
    BY <2>1 DEF Statuses
<1>6. PICK v : v = Responded(x, state, status, "route")
  OBVIOUS
<1>7. h1' = [h1 EXCEPT ![k] = v]
  BY <1>2, <1>4, <1>5, <1>6, ZenonT(30) DEF process_request, Responded
<1>8. /\ v \in Conn /\ v.state = state /\ v.response_status = status /\ v.via = "route"
      /\ v.method = x.method /\ v.asked = x.asked /\ v.path = x.path
  <2>1. "route" \in Answerers
    BY DEF Answerers
  <2>2. QED
    BY <1>3, <1>6, <2>1, RespondedFields
<1>9. ConnOK(v) /\ Waits(v) = 1
  BY <1>3, <1>5, <1>8 DEF ConnOK, Waits, Responding
<1>10. /\ h2' = h2 /\ draining' = draining /\ challenge' = challenge
       /\ answered' = answered + 1 /\ dropped' = dropped /\ begun' = begun
       /\ metrics' = update_endpoint_counter(metrics, route_request(h1[k].path))
  BY ZenonT(30) DEF process_request
<1>11. Counted(metrics') /\ metrics'.latency_bucket_inf = metrics.latency_bucket_inf
  BY <1>10, InvParts, OtherCounters, ZenonT(30)
<1>12. Others'
  BY <1>10, InvParts, SMTT(60) DEF Others
<1>13. Owed' = Owed + Waits(v) - Waits(h1[k])
  BY <1>1, <1>9, <1>10, <1>11, InvParts DEF Owed
<1>14. QED
  BY <1>7, <1>9, <1>10, <1>11, <1>12, <1>13, ConnStep, ZenonT(30)

LEMMA CompleteKeeps ==
    ASSUME RequestInv, NEW k \in Conns, NEW keep_alive \in BOOLEAN,
           read_complete(k, keep_alive)
    PROVE  RequestInv'
<1>1. h1[k].state = "READING_HEADERS" /\ h1[k] \in Conn
  BY Reading DEF read_complete
<1>2. h1[k].path \in Paths \cup {NoPath}
  BY <1>1 DEF Conn
<1>3. validate_path_early(h1[k].path, h1[k].path.len) <=> ~Malformed(h1[k].path)
  BY <1>2, PathFacts, EarlyCheck
<1>4. CASE validate_path_early(h1[k].path, h1[k].path.len)
  BY <1>1, <1>3, <1>4, ProcessKeeps, ZenonT(30) DEF read_complete
<1>5. CASE ~validate_path_early(h1[k].path, h1[k].path.len)
  <2>1. /\ metrics' = Noted(metrics)
        /\ connection_send_error(k, h1[k], 400, "validation")
    BY <1>5 DEF read_complete, Noted
  <2>2. Counted(metrics') /\ metrics'.latency_bucket_inf = metrics.latency_bucket_inf
    BY <2>1, InvParts, OtherCounters, ZenonT(30)
  <2>3. Refusal(k, h1[k], 400, "validation")
    BY <1>3, <1>5 DEF Refusal, ErrorStatuses
  <2>4. QED
    BY <1>1, <1>3, <1>5, <2>1, <2>2, <2>3, ErrorKeeps, ZenonT(30)
<1>6. QED
  BY <1>4, <1>5

(* connection_reset_for_keepalive leaves nothing of the last request.      *)
LEMMA ResetIsNew == \A x \in Conn : connection_reset_for_keepalive(x) = NewConn
<1>. SUFFICES ASSUME NEW x \in Conn PROVE connection_reset_for_keepalive(x) = NewConn
  OBVIOUS
<1>1. PICK v : v = connection_reset_for_keepalive(x)
  OBVIOUS
<1>2. v = NewConn
  BY <1>1 DEF connection_reset_for_keepalive, NewConn, Conn
<1>3. QED
  BY <1>1, <1>2

LEMMA WriteKeeps ==
    ASSUME RequestInv, NEW k \in Conns, NEW slot, conn_write_cb(k, slot)
    PROVE  RequestInv'
<1>1. h1 \in [Conns -> Conn] /\ ConnOK(h1[k]) /\ h1[k].state \in {"WRITING_RESPONSE", "CLOSING"}
  BY ZenonT(30) DEF RequestInv, conn_write_cb
<1>2. h1[k] \in Conn /\ h1[k].response_status # 0 /\ Waits(h1[k]) = 1
  BY <1>1 DEF ConnOK, Waits
<1>3. h1[k].response_status \in Statuses /\ h1[k].method \in Methods \cup {"none"}
  BY <1>2 DEF Conn
<1>4. /\ metrics' = count(metrics, h1[k].response_status, h1[k].method)
      /\ h2' = h2 /\ draining' = draining /\ challenge' = challenge
      /\ answered' = answered /\ dropped' = dropped /\ begun' = begun
  BY ZenonT(30) DEF conn_write_cb
<1>5. Counted(metrics') /\ metrics'.latency_bucket_inf = metrics.latency_bucket_inf + 1
  <2>1. metrics \in Metrics /\ Families(metrics)
    BY InvParts DEF Counted
  <2>2. QED
    BY <1>3, <1>4, <2>1, CountKeeps, ZenonT(30) DEF Counted
<1>6. h1' = [h1 EXCEPT ![k] = NewConn]
  <2>1. connection_reset_for_keepalive(h1[k]) = NewConn
    BY <1>2, ResetIsNew
  <2>2. QED
    BY <2>1, ZenonT(30) DEF conn_write_cb
<1>7. Others'
  BY <1>4, InvParts, ZenonT(30) DEF Others
<1>8. Owed' = Owed + Waits(NewConn) - Waits(h1[k])
  BY <1>2, <1>4, <1>5, InvParts, NewOK, SMTT(60) DEF Owed
<1>9. QED
  BY <1>4, <1>5, <1>6, <1>7, <1>8, NewOK, ConnStep, ZenonT(30)

LEMMA EventKeeps ==
    ASSUME RequestInv, NEW k \in Conns, conn_event_cb(k)
    PROVE  RequestInv'
<1>1. /\ dropped' = dropped + Waits(h1[k]) /\ h1' = [h1 EXCEPT ![k] = NewConn]
      /\ h2' = h2 /\ draining' = draining /\ challenge' = challenge /\ metrics' = metrics
      /\ answered' = answered /\ begun' = begun
  BY DEF conn_event_cb, Waits
<1>2. Waits(h1[k]) \in {0, 1}
  BY DEF Waits
<1>3. Others'
  BY <1>1, <1>2, InvParts DEF Others
<1>4. Owed' = Owed + Waits(NewConn) - Waits(h1[k])
  BY <1>1, <1>2, InvParts, NewOK DEF Owed
<1>5. QED
  BY <1>1, <1>3, <1>4, NewOK, InvParts, ConnStep, ZenonT(30)

LEMMA HeadersKeep ==
    ASSUME RequestInv, NEW s \in Streams, NEW p \in Paths,
           NEW method \in Methods \cup {"none"}, NEW slot \in BOOLEAN,
           h2_on_header_callback(s, p, method, slot)
    PROVE  RequestInv'
<1>1. h2 \in [Streams -> Stream] /\ StreamOK(h2[s]) /\ h2[s].state = "IDLE"
  BY ZenonT(30) DEF RequestInv, h2_on_header_callback
<1>2. /\ h2[s] \in Stream /\ h2[s].response_status = 0 /\ h2[s].sent = 0
      /\ Waits(h2[s]) = 0
  BY <1>1 DEF StreamOK, Waits
<1>3. validate_hex_path(p) <=> ~Malformed(p)
  <2>1. p \in Paths \cup {NoPath} /\ p.len \in Nat /\ p.len <= p.len
    BY PathFacts
  <2>2. QED
    BY <2>1, EarlyCheck, ZenonT(30)
<1>4. PICK state \in {"OPEN", "REFUSED", "NO_SLOT"} :
         state = IF ~validate_hex_path(p) THEN "REFUSED"
                 ELSE IF slot THEN "OPEN" ELSE "NO_SLOT"
  <2>1. CASE ~validate_hex_path(p)
    BY <2>1, ZenonT(30)
  <2>2. CASE validate_hex_path(p) /\ slot
    BY <2>2, ZenonT(30)
  <2>3. CASE validate_hex_path(p) /\ ~slot
    BY <2>3, ZenonT(30)
  <2>4. QED
    BY <2>1, <2>2, <2>3
<1>5. PICK v : v = [h2[s] EXCEPT !.path = p, !.method = method, !.state = state]
  OBVIOUS
<1>6. h2' = [h2 EXCEPT ![s] = v]
  BY <1>1, <1>4, <1>5 DEF h2_on_header_callback
<1>7. /\ v \in Stream /\ v.state = state /\ v.path = p /\ v.response_status = 0 /\ v.sent = 0
  BY <1>2, <1>5 DEF Stream
<1>8. StreamOK(v) /\ Waits(v) = 0
  BY <1>3, <1>4, <1>7 DEF StreamOK, Waits
<1>9. /\ h1' = h1 /\ draining' = draining /\ challenge' = challenge
      /\ answered' = answered /\ dropped' = dropped
      /\ begun' = begun + 1 /\ begun < MaxRequests
  BY DEF h2_on_header_callback
<1>10. Counted(metrics') /\ metrics'.latency_bucket_inf = metrics.latency_bucket_inf
  <2>1. CASE validate_hex_path(p)
    <3>1. metrics' = metrics
      BY <2>1, InvParts DEF h2_on_header_callback, Metrics
    <3>2. QED
      BY <3>1, InvParts, ZenonT(30)
  <2>2. CASE ~validate_hex_path(p)
    <3>1. metrics' = Noted(metrics)
      BY <2>2 DEF h2_on_header_callback, Noted
    <3>2. QED
      BY <3>1, InvParts, OtherCounters, ZenonT(30)
  <2>3. QED
    BY <2>1, <2>2
<1>11. Others'
  BY <1>9, InvParts, RequestPathAssumption DEF Others
<1>12. Owed' = Owed + Waits(v) - Waits(h2[s])
  BY <1>2, <1>8, <1>9, <1>10, InvParts DEF Owed
<1>13. QED
  BY <1>6, <1>8, <1>9, <1>10, <1>11, <1>12, StreamStep, ZenonT(30)

LEMMA StreamAnswerKeeps ==
    ASSUME RequestInv, NEW s \in Streams, NEW ok, h2_process_stream_request(s, ok)
    PROVE  RequestInv'
<1>1. h2 \in [Streams -> Stream] /\ StreamOK(h2[s]) /\ h2[s].state = "OPEN"
  BY ZenonT(30) DEF RequestInv, h2_process_stream_request
<1>2. /\ h2[s] \in Stream /\ h2[s].response_status = 0 /\ ~Malformed(h2[s].path)
      /\ Waits(h2[s]) = 0
  BY <1>1 DEF StreamOK, Waits
<1>3. PICK status \in Statuses : status = h2_noted(h2[s].path) /\ status # 0
  <2>1. h2_noted(h2[s].path) \in {200, 404, 503}
    BY Answers
  <2>2. QED
    BY <2>1 DEF Statuses
<1>4. PICK sent \in Statuses :
         /\ sent = h2_send_response(h2_status(h2[s].path), ok)
         /\ sent # 0 => status = sent \/ (IsChallenge(h2[s].path) /\ sent = 200)
  <2>1. /\ h2_status(h2[s].path) \in {200, 404, 503}
        /\ \/ h2_noted(h2[s].path) = h2_status(h2[s].path)
           \/ IsChallenge(h2[s].path) /\ h2_status(h2[s].path) = 200
    BY Answers
  <2>2. QED
    BY <1>3, <2>1 DEF h2_send_response, Statuses
<1>5. PICK v : v = [h2[s] EXCEPT !.state = "HALF_CLOSED_REMOTE", !.response_status = status,
                                 !.sent = sent]
  OBVIOUS
<1>6. h2' = [h2 EXCEPT ![s] = v]
  <2>1. h2' = [h2 EXCEPT ![s].state = "HALF_CLOSED_REMOTE", ![s].response_status = status,
                         ![s].sent = sent]
    BY <1>3, <1>4, ZenonT(30) DEF h2_process_stream_request
  <2>2. QED
    BY <1>1, <1>5, <2>1
<1>7. /\ v \in Stream /\ v.state = "HALF_CLOSED_REMOTE" /\ v.path = h2[s].path
      /\ v.response_status = status /\ v.sent = sent
  BY <1>2, <1>5 DEF Stream
<1>8. StreamOK(v) /\ Waits(v) = 1
  BY <1>2, <1>3, <1>4, <1>7, SMTT(60) DEF StreamOK, Waits
<1>9. /\ h1' = h1 /\ draining' = draining /\ challenge' = challenge
      /\ answered' = answered + 1 /\ dropped' = dropped /\ begun' = begun
      /\ metrics' = update_endpoint_counter(metrics, route_request(h2[s].path))
  BY ZenonT(30) DEF h2_process_stream_request
<1>10. Counted(metrics') /\ metrics'.latency_bucket_inf = metrics.latency_bucket_inf
  BY <1>9, InvParts, OtherCounters, ZenonT(30)
<1>11. Others'
  BY <1>9, InvParts DEF Others
<1>12. Owed' = Owed + Waits(v) - Waits(h2[s])
  <2>1. /\ answered' = answered + 1 /\ dropped' = dropped
        /\ metrics'.latency_bucket_inf = metrics.latency_bucket_inf
    BY <1>9, <1>10
  <2>2. answered \in Nat /\ dropped \in Nat /\ metrics.latency_bucket_inf \in Nat
    BY InvParts, ZenonT(30)
  <2>3. QED
    BY <1>2, <1>8, <2>1, <2>2, SMTT(60) DEF Owed
<1>13. QED
  BY <1>6, <1>8, <1>9, <1>10, <1>11, <1>12, StreamStep, ZenonT(30)

LEMMA CloseKeeps ==
    ASSUME RequestInv, NEW s \in Streams, h2_on_stream_close_callback(s)
    PROVE  RequestInv'
<1>1. h2 \in [Streams -> Stream] /\ h2[s] \in Stream
  BY ZenonT(30) DEF RequestInv, StreamOK
<1>2. h2[s].response_status \in Statuses /\ h2[s].method \in Methods \cup {"none"}
  BY <1>1 DEF Stream
<1>3. /\ h1' = h1 /\ draining' = draining /\ challenge' = challenge /\ begun' = begun
      /\ answered' = answered /\ dropped' = dropped /\ h2' = [h2 EXCEPT ![s] = NewStream]
  BY ZenonT(30) DEF h2_on_stream_close_callback
<1>4. /\ Counted(metrics')
      /\ metrics'.latency_bucket_inf = metrics.latency_bucket_inf + Waits(h2[s])
  <2>1. CASE h2[s].response_status > 0
    <3>1. metrics' = count(metrics, h2[s].response_status, h2[s].method)
      BY <2>1, ZenonT(30) DEF h2_on_stream_close_callback
    <3>2. metrics \in Metrics /\ Families(metrics)
      BY InvParts DEF Counted
    <3>3. Counted(metrics') /\ metrics'.latency_bucket_inf = metrics.latency_bucket_inf + 1
      BY <1>2, <3>1, <3>2, CountKeeps, ZenonT(30) DEF Counted
    <3>4. Waits(h2[s]) = 1
      BY <1>2, <2>1 DEF Waits, Statuses
    <3>5. QED
      BY <3>3, <3>4, ZenonT(30)
  <2>2. CASE ~(h2[s].response_status > 0)
    <3>1. metrics' = metrics
      BY <2>2, ZenonT(30) DEF h2_on_stream_close_callback
    <3>2. Waits(h2[s]) = 0
      BY <1>2, <2>2 DEF Waits, Statuses
    <3>3. QED
      BY <3>1, <3>2, InvParts
  <2>3. QED
    BY <2>1, <2>2
<1>5. Waits(h2[s]) \in {0, 1}
  BY DEF Waits
<1>6. Others'
  BY <1>3, InvParts, ZenonT(30) DEF Others
<1>7. Owed' = Owed + Waits(NewStream) - Waits(h2[s])
  BY <1>3, <1>4, <1>5, InvParts, NewOK DEF Owed
<1>8. QED
  BY <1>3, <1>4, <1>6, <1>7, NewOK, StreamStep, ZenonT(30)

LEMMA FreeKeeps ==
    ASSUME RequestInv, h2_connection_free
    PROVE  RequestInv'
<1>1. h2 \in [Streams -> Stream]
  BY ZenonT(30) DEF RequestInv
<1>2. {s \in Streams : h2[s].response_status > 0} = Waiting2
  <2>1. \A s \in Streams : h2[s].response_status \in Statuses
    BY <1>1 DEF Stream
  <2>2. \A x \in Statuses : x > 0 <=> x # 0
    BY DEF Statuses
  <2>3. QED
    BY <2>1, <2>2, ZenonT(30) DEF Waiting2
<1>3. /\ h1' = h1 /\ draining' = draining /\ challenge' = challenge /\ begun' = begun
      /\ answered' = answered /\ metrics' = metrics
      /\ h2' = [s \in Streams |-> NewStream]
      /\ dropped' = dropped + Cardinality(Waiting2)
  BY <1>2, ZenonT(30) DEF h2_connection_free
<1>4. h2' \in [Streams -> Stream] /\ \A s \in Streams : StreamOK(h2'[s])
  <2>1. NewStream \in Stream /\ StreamOK(NewStream)
    BY NewOK DEF StreamOK
  <2>2. \A s \in Streams : h2'[s] = NewStream
    BY <1>3, ZenonT(30)
  <2>3. QED
    BY <1>3, <2>1, <2>2
<1>5. Waiting2' = {}
  <2>1. NewStream.response_status = 0
    BY DEF NewStream
  <2>2. \A s \in Streams : h2'[s] = NewStream
    BY <1>3, ZenonT(30)
  <2>3. QED
    BY <2>1, <2>2, ZenonT(30) DEF Waiting2
<1>6. Waiting1' = Waiting1 /\ IsFiniteSet(Waiting1) /\ IsFiniteSet(Waiting2)
      /\ Owed = Cardinality(Waiting1) + Cardinality(Waiting2)
  BY <1>3, ZenonT(30) DEF Waiting1, RequestInv, Balance
<1>7. Cardinality(Waiting1) \in Nat /\ Cardinality(Waiting2) \in Nat
  BY <1>6, FS_CardinalityType, ZenonT(30)
<1>8. IsFiniteSet(Waiting2') /\ Cardinality(Waiting2') = 0
  BY <1>5, FS_EmptySet, ZenonT(30)
<1>9. Owed' = Owed - Cardinality(Waiting2)
  BY <1>3, <1>7, InvParts DEF Owed
<1>10. Balance'
  <2>1. Owed' = Cardinality(Waiting1') + Cardinality(Waiting2')
    BY <1>6, <1>7, <1>8, <1>9
  <2>2. QED
    BY <1>6, <1>8, <2>1, ZenonT(30) DEF Balance
<1>11. Others'
  BY <1>3, <1>7, InvParts DEF Others
<1>12. QED
  BY <1>3, <1>4, <1>10, <1>11, ZenonT(30) DEF RequestInv

(* Steps that change neither connections, streams nor counters.            *)
LEMMA RestKeeps ==
    ASSUME RequestInv, h1' = h1, h2' = h2, metrics' = metrics, answered' = answered,
           dropped' = dropped, Others'
    PROVE  RequestInv'
<1>1. Waiting1' = Waiting1 /\ Waiting2' = Waiting2 /\ Owed' = Owed
  BY DEF Waiting1, Waiting2, Owed
<1>2. Balance'
  BY <1>1, ZenonT(30) DEF Balance, RequestInv
<1>3. QED
  BY <1>2, ZenonT(30) DEF RequestInv

LEMMA RequestInitInv == RequestInit => RequestInv
<1>. SUFFICES ASSUME RequestInit PROVE RequestInv
  OBVIOUS
<1>1. /\ h1 \in [Conns -> Conn] /\ \A k \in Conns : ConnOK(h1[k]) /\ h1[k].response_status = 0
  <2>1. NewConn \in Conn /\ ConnOK(NewConn)
    BY NewOK DEF ConnOK
  <2>2. h1 = [k \in Conns |-> NewConn] /\ NewConn.response_status = 0
    BY DEF RequestInit, NewConn
  <2>3. QED
    BY <2>1, <2>2
<1>2. /\ h2 \in [Streams -> Stream]
      /\ \A s \in Streams : StreamOK(h2[s]) /\ h2[s].response_status = 0
  <2>1. NewStream \in Stream /\ StreamOK(NewStream)
    BY NewOK DEF StreamOK
  <2>2. h2 = [s \in Streams |-> NewStream] /\ NewStream.response_status = 0
    BY DEF RequestInit, NewStream
  <2>3. QED
    BY <2>1, <2>2
<1>3. Waiting1 = {} /\ Waiting2 = {}
  BY <1>1, <1>2, ZenonT(30) DEF Waiting1, Waiting2
<1>4. /\ metrics \in Metrics /\ Families(metrics) /\ metrics.latency_bucket_inf = 0
  <2>1. metrics = [latency_bucket_inf |-> 0, endpoints |-> 0, errors_parse |-> 0,
                   status |-> [k \in {"2xx", "4xx", "5xx"} |-> 0],
                   method |-> [k \in {"get", "post", "other"} |-> 0]]
    BY ZenonT(30) DEF RequestInit
  <2>2. /\ metrics.latency_bucket_inf = 0 /\ metrics.endpoints = 0 /\ metrics.errors_parse = 0
        /\ metrics.status = [k \in {"2xx", "4xx", "5xx"} |-> 0]
        /\ metrics.method = [k \in {"get", "post", "other"} |-> 0]
    BY <2>1
  <2>3. metrics \in Metrics
    BY <2>1 DEF Metrics
  <2>4. Families(metrics)
    BY <2>2 DEF Families
  <2>5. QED
    BY <2>2, <2>3, <2>4
<1>5. Owed = 0
  BY <1>4 DEF RequestInit, Owed
<1>6. Balance
  <2>1. IsFiniteSet({}) /\ Cardinality({}) = 0
    BY FS_EmptySet
  <2>2. QED
    BY <1>3, <1>5, <2>1 DEF Balance
<1>7. Others
  <2>1. draining \in BOOLEAN /\ challenge \in {"absent", "empty", "present"}
        /\ begun = 0 /\ answered = 0 /\ dropped = 0
    BY ZenonT(30) DEF RequestInit
  <2>2. MaxRequests \in Nat
    BY RequestPathAssumption
  <2>3. begun \in 0..MaxRequests /\ answered \in Nat /\ dropped \in Nat
    BY <2>1, <2>2
  <2>4. QED
    BY <2>1, <2>3, ZenonT(30) DEF Others
<1>8. QED
  BY <1>1, <1>2, <1>4, <1>6, <1>7, ZenonT(30) DEF RequestInv

LEMMA RequestStep ==
    ASSUME RequestInv, [RequestNext]_request_vars
    PROVE  RequestInv'
<1>1. CASE UNCHANGED request_vars
  <2>1. /\ h1' = h1 /\ h2' = h2 /\ metrics' = metrics /\ answered' = answered
        /\ dropped' = dropped /\ draining' = draining /\ challenge' = challenge /\ begun' = begun
    BY <1>1 DEF request_vars
  <2>2. QED
    BY <2>1, RestKeeps, InvParts, ZenonT(30) DEF Others
<1>2. ASSUME NEW k \in Conns, NEW p \in Paths, NEW method \in Methods, request_sent(k, p, method)
      PROVE  RequestInv'
  BY <1>2, SentKeeps
<1>3. ASSUME NEW k \in Conns, NEW n \in Views, read_partial(k, n)
      PROVE  RequestInv'
  BY <1>3, PartialKeeps
<1>4. ASSUME NEW k \in Conns, NEW status \in {400, 413, 500, 503}, NEW parsed \in BOOLEAN,
             read_refused(k, status, parsed)
      PROVE  RequestInv'
  <2>1. status \in ErrorStatuses
    BY DEF ErrorStatuses
  <2>2. QED
    BY <1>4, <2>1, RefusedKeeps
<1>5. ASSUME NEW k \in Conns, NEW keep_alive \in BOOLEAN, read_complete(k, keep_alive)
      PROVE  RequestInv'
  BY <1>5, CompleteKeeps
<1>6. ASSUME NEW k \in Conns, NEW slot \in BOOLEAN, conn_write_cb(k, slot)
      PROVE  RequestInv'
  BY <1>6, WriteKeeps
<1>7. ASSUME NEW k \in Conns, conn_event_cb(k)
      PROVE  RequestInv'
  BY <1>7, EventKeeps
<1>8. ASSUME NEW s \in Streams, NEW p \in Paths,
             NEW method \in Methods \cup {"none"}, NEW slot \in BOOLEAN,
             h2_on_header_callback(s, p, method, slot)
      PROVE  RequestInv'
  BY <1>8, HeadersKeep
<1>9. ASSUME NEW s \in Streams, NEW ok \in BOOLEAN, h2_process_stream_request(s, ok)
      PROVE  RequestInv'
  BY <1>9, StreamAnswerKeeps
<1>10. ASSUME NEW s \in Streams, h2_on_stream_close_callback(s)
       PROVE  RequestInv'
  BY <1>10, CloseKeeps
<1>11. CASE h2_connection_free
  BY <1>11, FreeKeeps
<1>12. CASE drain_starts
  <2>1. /\ h1' = h1 /\ h2' = h2 /\ metrics' = metrics /\ answered' = answered
        /\ dropped' = dropped /\ draining' = TRUE /\ challenge' = challenge /\ begun' = begun
    BY <1>12 DEF drain_starts
  <2>2. Others'
    BY <2>1, InvParts, ZenonT(30) DEF Others
  <2>3. QED
    BY <2>1, <2>2, RestKeeps, ZenonT(30)
<1>13. ASSUME NEW v \in {"absent", "empty", "present"}, challenge_written(v)
       PROVE  RequestInv'
  <2>1. /\ h1' = h1 /\ h2' = h2 /\ metrics' = metrics /\ answered' = answered
        /\ dropped' = dropped /\ draining' = draining /\ challenge' = v /\ begun' = begun
    BY <1>13 DEF challenge_written
  <2>2. Others'
    BY <2>1, InvParts, ZenonT(30) DEF Others
  <2>3. QED
    BY <2>1, <2>2, RestKeeps
<1>14. QED
  BY <1>1, <1>2, <1>3, <1>4, <1>5, <1>6, <1>7, <1>8, <1>9, <1>10, <1>11, <1>12, <1>13
     DEF RequestNext

(* The states of connections, streams and counters agree, for any number   *)
(* of connections, streams and requests.                                   *)
THEOREM RequestInvariant == RequestSpec => []RequestInv
<1>1. RequestInv /\ [RequestNext]_request_vars => RequestInv'
  BY RequestStep
<1>2. QED
  BY RequestInitInv, <1>1, PTL DEF RequestSpec

(* The variables stay in their types.                                      *)
THEOREM RequestTypes == RequestSpec => []RequestTypeOK
<1>1. RequestInv => RequestTypeOK
  BY ZenonT(30) DEF RequestInv, RequestTypeOK, Metrics, Others
<1>2. QED
  BY RequestInvariant, <1>1, PTL

(* HTTP/1.1 and HTTP/2 refuse the malformed paths and no others, however a *)
(* path is cut into reads.                                                 *)
THEOREM OneVerdictAlways == RequestSpec => []OneVerdict
<1>1. RequestInv => OneVerdict
  <2>. SUFFICES ASSUME RequestInv PROVE OneVerdict
    OBVIOUS
  <2>1. \A k \in Conns : /\ h1[k].via = "validation" => Malformed(h1[k].path)
                         /\ h1[k].via = "route" => ~Malformed(h1[k].path)
    BY ZenonT(30) DEF RequestInv, ConnOK
  <2>2. \A s \in Streams : h2[s].state # "IDLE" =>
            (h2[s].state = "REFUSED" <=> Malformed(h2[s].path))
    BY ZenonT(30) DEF RequestInv, StreamOK
  <2>3. QED
    BY <2>1, <2>2, ZenonT(30) DEF OneVerdict
<1>2. QED
  BY RequestInvariant, <1>1, PTL

(* The early checks cost nobody a page: what they refuse the router would  *)
(* have had no page for, or begins like the path of a challenge.           *)
THEOREM RefusalJustifiedAlways == RequestSpec => []RefusalJustified
<1>1. RequestInv => RefusalJustified
  <2>. SUFFICES ASSUME RequestInv, NEW k \in Conns, h1[k].via = "validation"
                PROVE  route_request(h1[k].path) \in {"ERROR", "ACME_CHALLENGE"}
    BY ZenonT(30) DEF RefusalJustified
  <2>1. ConnOK(h1[k])
    BY ZenonT(30) DEF RequestInv
  <2>2. Malformed(h1[k].path) /\ h1[k].path \in Paths \cup {NoPath}
    BY <2>1 DEF ConnOK, Conn
  <2>3. QED
    BY <2>2, MalformedRoute, ZenonT(30)
<1>2. QED
  BY RequestInvariant, <1>1, PTL

(* Every response made is counted once, still on its way, or lost with its *)
(* connection, and the three families of counters agree on how many were   *)
(* counted.                                                                *)
THEOREM CountedOnceAlways == RequestSpec => []CountedOnce
<1>1. RequestInv => CountedOnce
  <2>. SUFFICES ASSUME RequestInv PROVE CountedOnce
    OBVIOUS
  <2>1. /\ IsFiniteSet(Waiting1) /\ IsFiniteSet(Waiting2)
        /\ Owed = Cardinality(Waiting1) + Cardinality(Waiting2)
    BY ZenonT(30) DEF RequestInv, Balance
  <2>2. Cardinality(Waiting1) \in Nat /\ Cardinality(Waiting2) \in Nat
    BY <2>1, FS_CardinalityType, ZenonT(30)
  <2>3. answered = metrics.latency_bucket_inf + (Cardinality(Waiting1) + Cardinality(Waiting2))
                   + dropped
    BY <2>1, <2>2, InvParts DEF Owed
  <2>4. Families(metrics)
    BY ZenonT(30) DEF RequestInv
  <2>5. QED
    BY <2>3, <2>4, ZenonT(30) DEF CountedOnce, Families, Waiting1, Waiting2
<1>2. QED
  BY RequestInvariant, <1>1, PTL

(* A response is counted under its own method, over reuse of the           *)
(* connection, and under the status that was sent, up to an empty          *)
(* challenge.                                                              *)
THEOREM CountedAsSentAlways == RequestSpec => []CountedAsSent
<1>1. RequestInv => CountedAsSent
  <2>. SUFFICES ASSUME RequestInv PROVE CountedAsSent
    OBVIOUS
  <2>1. \A k \in Conns : h1[k].response_status # 0 =>
            h1[k].method \in CASE h1[k].via = "route" -> {h1[k].asked}
                               [] h1[k].via = "limits" -> {h1[k].asked, "none"}
                               [] h1[k].via = "validation" -> {"none"}
    <3>. SUFFICES ASSUME NEW k \in Conns, h1[k].response_status # 0
                  PROVE  h1[k].method \in CASE h1[k].via = "route" -> {h1[k].asked}
                                             [] h1[k].via = "limits" -> {h1[k].asked, "none"}
                                             [] h1[k].via = "validation" -> {"none"}
      OBVIOUS
    <3>1. ConnOK(h1[k])
      BY ZenonT(30) DEF RequestInv
    <3>2. h1[k].via \in {"route", "limits", "validation"}
      BY <3>1 DEF ConnOK, Conn
    <3>3. /\ h1[k].via = "validation" => h1[k].method = "none"
          /\ h1[k].via = "route" => h1[k].method = h1[k].asked
          /\ h1[k].via = "limits" => h1[k].method \in {h1[k].asked, "none"}
      BY <3>1 DEF ConnOK
    <3>4. QED
      BY <3>2, <3>3
  <2>2. \A s \in Streams :
          h2[s].sent # 0 => \/ h2[s].response_status = h2[s].sent
                            \/ /\ route_request(h2[s].path) = "ACME_CHALLENGE"
                               /\ h2[s].sent = 200
    BY ZenonT(30) DEF RequestInv, StreamOK, IsChallenge
  <2>3. QED
    BY <2>1, <2>2, ZenonT(30) DEF CountedAsSent
<1>2. QED
  BY RequestInvariant, <1>1, PTL
=============================================================================
