----------------------------- MODULE Arguments -----------------------------
(***************************************************************************)
(* How a start of the program ends: main with pktgen_parse_args, the       *)
(* properties files and pktgen_config_info, then pktgen_init_core and the  *)
(* first requests of all lcores, which read the same properties.  Nothing  *)
(* is validated in one place: a wrong option is refused at once, a missing *)
(* one, an unknown name, a text that is no number or a number out of range *)
(* ends the process where the value is first used, by an exception, an     *)
(* assertion or a null pointer.                                            *)
(*                                                                         *)
(* How the ports are set up is the matter of the module Startup: here they *)
(* have a queue for each of the nb_core cores.                             *)
(***************************************************************************)
EXTENDS Integers, Sequences, FiniteSets

CONSTANTS
  CommandLines, \* sequences of options [opt, arg] to try
  Files,        \* the lines of each properties file that can be opened
  Numeral,      \* the value of each text that starts with a number
  Lcores,       \* lcores the EAL runs, by their numbers
  CountWidth,   \* 2^16: the values of nb_core and nb_client
  MaxCpu,       \* NR_MAX_CPU, 64: the size of core_info
  MaxClient,    \* NR_MAX_CLIENT, 64: the size of core_info_t.clients
  LongPadding,  \* lcores whose zero_padding_, which nothing sets, is longer than a packet
  Endless,      \* <<records, new keys>> for which no Zipfian key is a record's: module DbKeys
  Scale,        \* 10^6
  IntMax        \* 2^31 - 1

ClientModules == {"dummy", "shinjuku", "pkvs"}
NoClient == "none"   \* client_ops is null

\* An option with its argument; a line, which may have a # and a =.
Options == [opt : STRING, arg : STRING]
Texts   == [hash : BOOLEAN, eq : BOOLEAN, key : STRING, value : STRING]

ASSUME ArgumentsAssumption ==
  /\ \A argv \in CommandLines : argv \in Seq(Options)
  /\ \A f \in DOMAIN Files : Files[f] \in Seq(Texts)
  /\ \A text \in DOMAIN Numeral : Numeral[text] \in Nat
  /\ IsFiniteSet(Lcores) /\ Lcores \subseteq 0 .. MaxCpu - 1
  /\ {MaxCpu, MaxClient} \subseteq Nat
  /\ LongPadding \subseteq Lcores
  /\ Endless \subseteq Nat \X Nat
  /\ {CountWidth, Scale, IntMax} \subseteq Nat \ {0}

VARIABLES
  argv,       \* the options after those of the EAL
  pc,         \* how far main is
  pos, line,  \* the option being parsed, and the line of its file
  pktgen,     \* struct pktgen_s
  lcore,      \* how far each lcore is
  mean,       \* the parameter of the generators of an lcore's clients
  sent        \* history: the lcores that have sent a request

coreVars == <<lcore, mean, sent>>
vars == <<argv, pc, pos, line, pktgen, coreVars>>

Init ==
  /\ argv \in CommandLines
  /\ pc = "options" /\ pos = 1 /\ line = 1
  /\ pktgen = [nb_core |-> 0, nb_client |-> 0, tx_rate |-> 1, client_ops |-> NoClient,
               props |-> [key \in {} |-> ""]]
  /\ lcore = [l \in Lcores |-> "wait"]
  /\ mean = [l \in Lcores |-> 0]
  /\ sent = {}

Goto(place) == pc' = place /\ UNCHANGED <<argv, pos, line, pktgen, coreVars>>

\* sig_handler prints a backtrace and aborts; an exception nobody catches aborts, and so
\* does an assertion.
Segfault == Goto("aborted")
Throw    == Goto("aborted")
-----------------------------------------------------------------------------
(* The options. *)

\* strtol and strtod: a text that is no number counts as 0.
Number(text) == IF text \in DOMAIN Numeral THEN Numeral[text] ELSE 0

\* Mutant of Truncated: the counts are as wide as what strtol returns.
TruncatedNot(n) == n

Truncated(n) == n % CountWidth

Arg == argv[pos].arg
At(opt) == pc = "options" /\ pos <= Len(argv) /\ argv[pos].opt = opt

SetOption ==
  /\ \/ At("c") /\ pktgen' = [pktgen EXCEPT !.nb_core = Truncated(Number(Arg))]
     \/ At("f") /\ pktgen' = [pktgen EXCEPT !.nb_client = Truncated(Number(Arg))]
     \/ At("r") /\ pktgen' = [pktgen EXCEPT !.tx_rate = Number(Arg)]
     \/ At("l") /\ Arg \in ClientModules /\ pktgen' = [pktgen EXCEPT !.client_ops = Arg]
     \/ At("crc-strip") /\ UNCHANGED pktgen
  /\ pos' = pos + 1
  /\ UNCHANGED <<argv, pc, line, coreVars>>

\* An unknown client, -h, and whatever getopt_long does not know.
Refuse ==
  /\ pc = "options" /\ pos <= Len(argv)
  /\ argv[pos].opt \notin {"c", "f", "r", "p", "crc-strip"}
  /\ ~(At("l") /\ Arg \in ClientModules)
  /\ Goto("refused")

\* Load throws an Exception for a file that is not open, and main catches strings.
FileOption ==
  /\ At("p")
  /\ \/ Arg \notin DOMAIN Files /\ Throw
     \/ /\ Arg \in DOMAIN Files
        /\ pc' = "lines" /\ line' = 1
        /\ UNCHANGED <<argv, pos, pktgen, coreVars>>

\* Mutant of Skipped: lines that are commented out count.
SkippedIfPlain(text) == ~text.eq

Skipped(text) == text.hash \/ ~text.eq

\* Mutant of SetProperty: map::insert, which keeps what is there.
InsertProperty(map, key, value) ==
  [k \in DOMAIN map \cup {key} |-> IF k \in DOMAIN map THEN map[k] ELSE value]

SetProperty(map, key, value) ==
  [k \in DOMAIN map \cup {key} |-> IF k = key THEN value ELSE map[k]]

ReadLine ==
  /\ pc = "lines" /\ line <= Len(Files[Arg])
  /\ LET text == Files[Arg][line]
     IN  pktgen' = IF Skipped(text) THEN pktgen
                   ELSE [pktgen EXCEPT !.props = SetProperty(@, text.key, text.value)]
  /\ line' = line + 1
  /\ UNCHANGED <<argv, pc, pos, coreVars>>

CloseFile ==
  /\ pc = "lines" /\ line > Len(Files[Arg])
  /\ pc' = "options" /\ pos' = pos + 1
  /\ UNCHANGED <<argv, line, pktgen, coreVars>>

EndOptions == pc = "options" /\ pos > Len(argv) /\ Goto("config")

-----------------------------------------------------------------------------
(* The values, where they are used. *)

GetProperty(map, key, default) == IF key \in DOMAIN map THEN map[key] ELSE default

\* The properties each function converts; two of them have no default. stoi and stod
\* throw for a text that is no number.
ConfigNumbers == {"runtime", "dport"}
SynNumbers    == {"service_time_arg1", "service_time_arg2"}
PollNumbers   == {"payload_len"}
Required      == {"recordcount", "operationcount"}
DbNumbers(map) ==
  {"fieldlength", "recordcount", "readproportion", "updateproportion", "insertproportion",
   "scanproportion", "readmodifywriteproportion", "maxscanlength", "insertstart"}
    \cup IF GetProperty(map, "requestdistribution", "uniform") = "zipfian"
           THEN {"operationcount"} ELSE {}

AllConvert(map, keys) ==
  /\ Required \cap keys \subseteq DOMAIN map
  /\ \A key \in keys \cap DOMAIN map : map[key] \in DOMAIN Numeral

Workload(map) == GetProperty(map, "workload", "synthetic")

FieldLenKnown(map) ==
  GetProperty(map, "field_len_dist", "constant") \in {"constant", "uniform", "zipfian"}

\* A value that converts, or its default.
Amount(map, key, default) == IF key \in DOMAIN map THEN Number(map[key]) ELSE default

FieldLength(map) == Amount(map, "fieldlength", 100)
MaxScan(map)     == Amount(map, "maxscanlength", 1000)
Records(map)     == Amount(map, "recordcount", 0)
NewKeys(map)     == Amount(map, "operationcount", 0) * Amount(map, "insertproportion", 0) * 2

Chosen(map, key, dist) == key \in DOMAIN map /\ map[key] = dist

\* The constructor of ZipfianGenerator asserts that there are two items; the generator of
\* the latest records has one less than records.
ZipfiansFit(map) ==
  /\ Chosen(map, "field_len_dist", "zipfian") => FieldLength(map) >= 2
  /\ Chosen(map, "requestdistribution", "zipfian") => Records(map) + NewKeys(map) >= 2
  /\ Chosen(map, "requestdistribution", "latest") => Records(map) - 1 >= 2
  /\ Chosen(map, "scanlengthdistribution", "zipfian") => MaxScan(map) >= 2

DbInits(map) ==
  /\ AllConvert(map, DbNumbers(map)) /\ FieldLenKnown(map) /\ ZipfiansFit(map)
  /\ GetProperty(map, "requestdistribution", "uniform") \in {"uniform", "zipfian", "latest"}
  /\ GetProperty(map, "scanlengthdistribution", "uniform") \in {"uniform", "zipfian"}

\* Init of the workload throws nothing.
WorkloadInits(map) ==
  \/ Workload(map) = "synthetic" /\ AllConvert(map, SynNumbers)
  \/ Workload(map) = "rocksdb" /\ DbInits(map)

\* The operations with a proportion above 0: that of reading is 0.95 by default, which
\* counts as 1 here.
Proportion == [read |-> "readproportion", update |-> "updateproportion",
               insert |-> "insertproportion", scan |-> "scanproportion",
               readmodifywrite |-> "readmodifywriteproportion"]
Operations(map) ==
  {op \in DOMAIN Proportion : Amount(map, Proportion[op], IF op = "read" THEN 1 ELSE 0) > 0}

\* The generator of an unknown distribution of service times is a null pointer; the one
\* of the operations asserts that it finds one.
CanRequest(map) ==
  /\ Workload(map) = "synthetic" =>
       GetProperty(map, "service_time_dist", "constant")
         \in {"constant", "uniform", "bimodal", "exponential"}
  /\ Workload(map) = "rocksdb" => Operations(map) # {}

\* A uniform distribution from a to b where a is above b is undefined: an assertion of
\* a library built for debugging, some number otherwise.
RangesOrdered(map) ==
  /\ Workload(map) = "synthetic" /\ Chosen(map, "service_time_dist", "uniform") =>
       Amount(map, "service_time_arg1", 0) <= Amount(map, "service_time_arg2", 1000)
  /\ Workload(map) = "rocksdb" =>
       /\ Chosen(map, "field_len_dist", "uniform") => FieldLength(map) >= 1
       /\ Chosen(map, "scanlengthdistribution", "zipfian") \/ MaxScan(map) >= 1

\* Reading and updating draw keys until one is a record's.
DrawsForever(map) ==
  /\ Workload(map) = "rocksdb" /\ Chosen(map, "requestdistribution", "zipfian")
  /\ <<Records(map), NewKeys(map)>> \in Endless
  /\ Operations(map) \cap {"read", "update"} # {}

\* These and insertions write the name of a key into the packet.
NamesKeys(map) ==
  Workload(map) = "rocksdb" /\ Operations(map) \cap {"read", "update", "insert"} # {}

\* pktgen_config_ports, which writes beyond core_info if there are more cores than it
\* has entries, and pktgen_config_info.
ConfigInfo ==
  /\ pc = "config"
  /\ \/ ~AllConvert(pktgen.props, ConfigNumbers) /\ Throw
     \/ pktgen.nb_core > MaxCpu /\ Segfault
     \/ /\ AllConvert(pktgen.props, ConfigNumbers)
        /\ pc' = "run" /\ lcore' = [l \in Lcores |-> "init"]
        /\ UNCHANGED <<argv, pos, line, pktgen, mean, sent>>

\* A double converted to int: what does not fit is the least int on x86.
ToInt(quotient) == IF quotient > IntMax THEN -IntMax - 1 ELSE quotient

\* Mutant of MeanInterval: the rate is that of each core.
MeanOfCore ==
  IF pktgen.tx_rate = 0 THEN -IntMax - 1
  ELSE ToInt((pktgen.nb_client * Scale) \div pktgen.tx_rate)

\* No rate is a division by 0.0: infinite or no number.
MeanInterval ==
  IF pktgen.tx_rate = 0 THEN -IntMax - 1
  ELSE ToInt((pktgen.nb_core * pktgen.nb_client * Scale) \div pktgen.tx_rate)

\* Clients beyond the array, an empty range, an exponential distribution with a mean
\* below 0: whatever happens may end the process.
Undefined ==
  \/ pktgen.nb_client > MaxClient
  \/ ~RangesOrdered(pktgen.props)
  \/ pktgen.nb_client > 0 /\ MeanInterval < 0

\* A workload nobody knows and client operations nobody set are null pointers.
InitCore(l) ==
  /\ pc = "run" /\ lcore[l] = "init"
  /\ \/ Workload(pktgen.props) \notin {"synthetic", "rocksdb"} /\ Segfault
     \/ /\ Workload(pktgen.props) \in {"synthetic", "rocksdb"}
        /\ ~WorkloadInits(pktgen.props)
        /\ Throw
     \/ WorkloadInits(pktgen.props) /\ (pktgen.client_ops = NoClient \/ Undefined) /\ Segfault
     \/ /\ WorkloadInits(pktgen.props) /\ pktgen.client_ops # NoClient
        /\ mean' = IF pktgen.nb_client > 0 THEN [mean EXCEPT ![l] = MeanInterval] ELSE mean
        /\ lcore' = [lcore EXCEPT ![l] = "poll"]
        /\ UNCHANGED <<argv, pc, pos, line, pktgen, sent>>

\* The lcore's number is that of its queue, its pool and its table on every port.
HasQueue(l) == l < pktgen.nb_core

\* Mutant of Polls: a payload_len that is no number is ignored.
PollsAnyway(l) == pc = "run" /\ lcore[l] = "poll"

\* payload_len is converted in every round, before the clients are looked at.
Polls(l) == pc = "run" /\ lcore[l] = "poll" /\ AllConvert(pktgen.props, PollNumbers)

\* A driver that is asked for packets of a queue it has not set up uses a null pointer,
\* if the port has been started.
PollFails(l) ==
  /\ pc = "run" /\ lcore[l] = "poll"
  /\ ~AllConvert(pktgen.props, PollNumbers) \/ ~HasQueue(l)
  /\ Throw

\* The buffers in the table of an lcore without a queue are null pointers.
RequestFails(l) ==
  \/ ~CanRequest(pktgen.props) \/ ~HasQueue(l)
  \/ NamesKeys(pktgen.props) /\ l \in LongPadding

\* Some client is due.
Request(l) ==
  /\ Polls(l) /\ pktgen.nb_client > 0
  /\ \/ RequestFails(l) /\ Segfault
     \/ /\ CanRequest(pktgen.props) /\ HasQueue(l)
        /\ sent' = sent \cup {l}
        /\ UNCHANGED <<argv, pc, pos, line, pktgen, lcore, mean>>
     \/ /\ CanRequest(pktgen.props) /\ HasQueue(l) /\ DrawsForever(pktgen.props)
        /\ lcore' = [lcore EXCEPT ![l] = "draw"]
        /\ UNCHANGED <<argv, pc, pos, line, pktgen, mean, sent>>

Draws(l) == pc = "run" /\ lcore[l] = "draw" /\ UNCHANGED vars

\* The deadline has passed.
LcoreReturns(l) ==
  /\ Polls(l)
  /\ lcore' = [lcore EXCEPT ![l] = "done"]
  /\ UNCHANGED <<argv, pc, pos, line, pktgen, mean, sent>>

Join == pc = "run" /\ (\A l \in Lcores : lcore[l] = "done") /\ Goto("returned")

Ended == pc \in {"refused", "aborted", "returned"} /\ UNCHANGED vars

Main ==
  \/ SetOption \/ Refuse \/ FileOption \/ ReadLine \/ CloseFile \/ EndOptions
  \/ ConfigInfo \/ Join

LcoreStep(l) == InitCore(l) \/ PollFails(l) \/ Request(l) \/ Draws(l) \/ LcoreReturns(l)

Next == Main \/ (\E l \in Lcores : LcoreStep(l)) \/ Ended

Spec == Init /\ [][Next]_vars

\* main and every lcore run, and an lcore that polls comes to its deadline.
FairSpec ==
  /\ Spec
  /\ WF_vars(Main)
  /\ \A l \in Lcores : WF_vars(InitCore(l) \/ PollFails(l)) /\ WF_vars(LcoreReturns(l))
-----------------------------------------------------------------------------
TypeOK ==
  /\ argv \in CommandLines /\ pos \in 1 .. Len(argv) + 1 /\ line \in Nat
  /\ pc \in {"options", "lines", "config", "run", "refused", "aborted", "returned"}
  /\ {pktgen.nb_core, pktgen.nb_client} \subseteq 0 .. CountWidth - 1
  /\ pktgen.tx_rate \in Nat /\ pktgen.client_ops \in ClientModules \cup {NoClient}
  /\ DOMAIN pktgen.props \subseteq STRING
  /\ lcore \in [Lcores -> {"wait", "init", "poll", "draw", "done"}]
  /\ mean \in [Lcores -> -IntMax - 1 .. IntMax]
  /\ sent \subseteq Lcores

\* The assignments of all files of a command line that can be opened, each given by its
\* option and its line.
Opened(options) == {p \in DOMAIN options : options[p].opt = "p" /\ options[p].arg \in DOMAIN Files}
TextAt(options, a) == Files[options[a[1]].arg][a[2]]
Assignments(options) ==
  {a \in UNION {{p} \X DOMAIN Files[options[p].arg] : p \in Opened(options)} :
     TextAt(options, a).eq /\ ~TextAt(options, a).hash}

Before(a, b) == a[1] < b[1] \/ (a[1] = b[1] /\ a[2] < b[2])

\* No line of a set assigns to the same key after this one.
LastIn(options, a, lines) ==
  \A b \in lines : TextAt(options, b).key = TextAt(options, a).key => ~Before(a, b)

\* What the files of a command line say together: of several assignments to a key
\* the last one counts.
Configured(options) ==
  LET lines == Assignments(options)
      Latest(key) ==
        CHOOSE a \in lines : TextAt(options, a).key = key /\ LastIn(options, a, lines)
  IN  [key \in {TextAt(options, a).key : a \in lines} |-> TextAt(options, Latest(key)).value]

\* Whatever the order of the options and the number of -p among them, the program
\* works with the last assignment to each key over all its files.
LastAssignmentWins == pc \in {"config", "run", "returned"} => pktgen.props = Configured(argv)

\* A command line and files the program can work with, as a whole.
Valid ==
  /\ \A p \in DOMAIN argv :
       /\ argv[p].opt \in {"c", "f", "r", "l", "p", "crc-strip"}
       /\ argv[p].opt = "l" => argv[p].arg \in ClientModules
       /\ argv[p].opt = "p" => argv[p].arg \in DOMAIN Files
  /\ \E p \in DOMAIN argv : argv[p].opt = "l"
  /\ LET conf == Configured(argv)
     IN  /\ WorkloadInits(conf) /\ CanRequest(conf)
         /\ AllConvert(conf, ConfigNumbers \cup PollNumbers)

\* Although no place checks the configuration as a whole, no lcore sends a request
\* under one that the program cannot work with, not even while another lcore is
\* still on its way to the value that ends the process.
OnlyValidSends == sent # {} => Valid

\* The number of the last option of a kind.
Given(options, opt, default) ==
  LET places == {p \in DOMAIN options : options[p].opt = opt}
  IN  IF places = {} THEN default
      ELSE Number(options[CHOOSE p \in places : \A q \in places : q <= p].arg)

\* Numbers among them that suit the machine, the arrays and the generators: option -c
\* covers the numbers of all lcores, and the mean interval is an int.
Fits ==
  LET cores   == Truncated(Given(argv, "c", 0))
      clients == Truncated(Given(argv, "f", 0))
      rate    == Given(argv, "r", 1)
      conf    == Configured(argv)
  IN  /\ Lcores \subseteq 0 .. cores - 1 /\ cores <= MaxCpu
      /\ clients <= MaxClient
      /\ clients > 0 => rate > 0 /\ cores * clients * Scale <= IntMax * rate
      /\ RangesOrdered(conf) /\ ~DrawsForever(conf)
      /\ NamesKeys(conf) => LongPadding = {}

\* A start with a valid configuration whose numbers fit runs to its end: the process is
\* not refused, no lcore ends it by an exception, an assertion or a null pointer, however
\* late, and none draws keys forever.
ValidRuns == (pc = "options" /\ Valid /\ Fits) ~> pc = "returned"

\* The lcores together offer no more than the rate of option -r, up to the
\* truncation of the mean interval, as long as that is a positive int and the EAL
\* was not given more lcores than option -c says.
OffersTxRate ==
  LET polling == {l \in Lcores : lcore[l] = "poll"}
  IN  \A l \in polling :
        Cardinality(Lcores) <= pktgen.nb_core /\ mean[l] > 0 =>
          Cardinality(polling) * pktgen.nb_client * Scale <= pktgen.tx_rate * (mean[l] + 1)
=============================================================================
