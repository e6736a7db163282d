-------------------------- MODULE ArgumentsProofs --------------------------
(***************************************************************************)
(* Theorems of the module Arguments: types, that the last assignment to a  *)
(* property counts, that no request is sent under a configuration that the *)
(* program cannot work with, and the rate the lcores offer together, for   *)
(* all command lines and properties files, however many there are.         *)
(***************************************************************************)
EXTENDS Arguments, Arithmetic, FiniteSetTheorems, TLAPS

-----------------------------------------------------------------------------
(* Types. *)

\* What a map of properties and struct pktgen_s hold.
IsMap(map) == DOMAIN map \subseteq STRING /\ map \in [DOMAIN map -> STRING]

Counts == 0 .. CountWidth - 1

IsSettings(s) ==
  /\ s = [nb_core |-> s.nb_core, nb_client |-> s.nb_client, tx_rate |-> s.tx_rate,
          client_ops |-> s.client_ops, props |-> s.props]
  /\ s.nb_core \in Counts /\ s.nb_client \in Counts /\ s.tx_rate \in Nat
  /\ s.client_ops \in ClientModules \cup {NoClient}
  /\ IsMap(s.props)

\* While lines are read the option is that of a file that could be opened.
Reading ==
  /\ line >= 1
  /\ pc = "lines" => pos \in Opened(argv)

TypeInv == TypeOK /\ IsSettings(pktgen) /\ Reading

\* The constants, one by one.
LEMMA ConstantFacts ==
  /\ CountWidth \in Nat \ {0} /\ Scale \in Nat \ {0} /\ IntMax \in Nat \ {0}
  /\ IsFiniteSet(Lcores)
  /\ \A options \in CommandLines : options \in Seq(Options)
  /\ \A f \in DOMAIN Files : Files[f] \in Seq(Texts)
  /\ \A text \in DOMAIN Numeral : Numeral[text] \in Nat
BY ArgumentsAssumption DEF ArgumentsAssumption

\* An option that is given.
LEMMA OptionFacts ==
  ASSUME argv \in CommandLines
  PROVE  /\ Len(argv) \in Nat /\ DOMAIN argv = 1 .. Len(argv)
         /\ \A p \in DOMAIN argv : argv[p].opt \in STRING /\ argv[p].arg \in STRING
<1>1. argv \in Seq(Options)
  BY ConstantFacts
<1>2. \A p \in DOMAIN argv : argv[p] \in Options
  BY <1>1
<1> QED
  BY <1>1, <1>2 DEF Options

\* A count of what strtol returns.
LEMMA NumberType ==
  ASSUME NEW text
  PROVE  Number(text) \in Nat /\ Truncated(Number(text)) \in Counts
<1>1. Number(text) \in Nat
  BY ConstantFacts DEF Number
<1>2. CountWidth \in Nat \ {0}
  BY ConstantFacts
<1> HIDE DEF Number
<1>3. \A n \in Nat : n % CountWidth \in 0 .. CountWidth - 1
  BY <1>2, DivMod
<1>4. \A n \in Nat : Truncated(n) \in Counts
  BY <1>3, Zenon DEF Truncated, Counts
<1> QED
  BY <1>1, <1>4

\* Setting a property gives a map of properties.
LEMMA SetPropertyType ==
  ASSUME NEW map, IsMap(map), NEW key \in STRING, NEW value \in STRING
  PROVE  /\ IsMap(SetProperty(map, key, value))
         /\ DOMAIN SetProperty(map, key, value) = DOMAIN map \cup {key}
         /\ SetProperty(map, key, value)[key] = value
         /\ \A k \in DOMAIN map \ {key} : SetProperty(map, key, value)[k] = map[k]
BY DEF SetProperty, IsMap

\* A line of a file.
LEMMA TextFacts ==
  ASSUME NEW f \in DOMAIN Files, NEW n \in Nat \ {0}, n <= Len(Files[f])
  PROVE  /\ n \in DOMAIN Files[f]
         /\ Files[f][n] \in Texts
<1>1. Files[f] \in Seq(Texts)
  BY ConstantFacts
<1> QED
  BY <1>1

\* A quotient of natural numbers is one.
LEMMA QuotientType ==
  ASSUME NEW a \in Nat, NEW w \in Nat \ {0}
  PROVE  a \div w \in Nat
<1> DEFINE q == a \div w
           r == a % w
<1>1. q \in Int /\ r \in 0 .. w - 1 /\ a = w * q + r
  BY DivMod
<1> HIDE DEF q, r
<1>2. CASE q < 0
  <2>1. w * (q + 1) = w * q + w /\ w * q \in Int
    BY <1>1
  <2>2. w * (q + 1) <= 0
    BY <1>1, <1>2
  <2> QED
    BY <1>1, <2>1, <2>2
<1>3. CASE q >= 0
  BY <1>1, <1>3 DEF q
<1> QED
  BY <1>1, <1>2, <1>3

\* The mean of a client's intervals is an int, which is the quotient or the least one.
LEMMA MeanType ==
  ASSUME IsSettings(pktgen)
  PROVE  /\ MeanInterval \in -IntMax - 1 .. IntMax
         /\ MeanInterval > 0 =>
              /\ pktgen.tx_rate \in Nat \ {0}
              /\ MeanInterval = (pktgen.nb_core * pktgen.nb_client * Scale) \div pktgen.tx_rate
<1> DEFINE a == pktgen.nb_core * pktgen.nb_client * Scale
           w == pktgen.tx_rate
           q == a \div w
<1>1. pktgen.nb_core \in Nat /\ pktgen.nb_client \in Nat /\ w \in Nat /\ IntMax \in Nat \ {0}
  BY ConstantFacts DEF IsSettings, Counts
<1>2. a \in Nat
  <2>1. pktgen.nb_core * pktgen.nb_client \in Nat
    BY <1>1
  <2> QED
    BY <2>1, ConstantFacts
<1>3. MeanInterval = IF w = 0 THEN -IntMax - 1 ELSE IF q > IntMax THEN -IntMax - 1 ELSE q
  BY DEF MeanInterval, ToInt
<1> HIDE DEF a, w
<1>4. w # 0 => q \in Nat
  BY <1>1, <1>2, QuotientType
<1> HIDE DEF q
<1>5. MeanInterval \in -IntMax - 1 .. IntMax
  <2>1. CASE w = 0 \/ q > IntMax
    <3>1. MeanInterval = -IntMax - 1
      BY <1>3, <2>1
    <3>2. -IntMax - 1 \in -IntMax - 1 .. IntMax
      BY <1>1
    <3> HIDE DEF MeanInterval
    <3> QED
      BY <3>1, <3>2
  <2>2. CASE w # 0 /\ ~(q > IntMax)
    <3>1. MeanInterval = q /\ q \in Nat /\ q <= IntMax
      BY <1>1, <1>3, <1>4, <2>2
    <3> QED
      BY <1>1, <3>1
  <2> QED
    BY <2>1, <2>2
<1>6. MeanInterval > 0 => w \in Nat \ {0} /\ MeanInterval = q
  BY <1>1, <1>3, <1>4
<1> QED
  BY <1>5, <1>6 DEF a, w, q

\* Nothing is set before the first option.
LEMMA InitTypeInv == Init => TypeInv
<1> SUFFICES ASSUME Init PROVE TypeInv
  OBVIOUS
<1>1. IsMap([key \in {} |-> ""])
  BY DEF IsMap
<1>2. 0 \in Counts /\ 0 \in -IntMax - 1 .. IntMax /\ 1 \in Nat
  BY ConstantFacts DEF Counts
<1>3. IsSettings(pktgen) /\ pktgen.props = [key \in {} |-> ""]
  BY <1>1, <1>2 DEF Init, IsSettings
<1>4. pktgen.nb_core = 0 /\ pktgen.nb_client = 0
  BY DEF Init
<1>5. TypeOK
  <2>1. pos \in 1 .. Len(argv) + 1
    BY OptionFacts DEF Init
  <2>2. DOMAIN pktgen.props \subseteq STRING
    BY <1>3
  <2>3. pktgen.tx_rate \in Nat /\ pktgen.client_ops \in ClientModules \cup {NoClient}
    BY <1>3 DEF IsSettings
  <2> QED
    BY <1>2, <1>4, <2>1, <2>2, <2>3 DEF Init, TypeOK, Counts
<1> QED
  BY <1>3, <1>5 DEF TypeInv, Init, Reading

\* What struct pktgen_s holds has its types.
LEMMA SettingsFacts ==
  ASSUME IsSettings(pktgen)
  PROVE  /\ {pktgen.nb_core, pktgen.nb_client} \subseteq 0 .. CountWidth - 1
         /\ pktgen.tx_rate \in Nat /\ pktgen.client_ops \in ClientModules \cup {NoClient}
         /\ DOMAIN pktgen.props \subseteq STRING
BY DEF IsSettings, IsMap, Counts

\* An option that is set gives settings again.
LEMMA SetOptionType ==
  ASSUME TypeInv, SetOption
  PROVE  /\ IsSettings(pktgen') /\ pktgen'.props = pktgen.props
         /\ pc = "options" /\ pos \in DOMAIN argv /\ pos' = pos + 1
         /\ UNCHANGED <<argv, pc, line, coreVars>>
         /\ argv[pos].opt \in {"c", "f", "r", "l", "crc-strip"}
         /\ argv[pos].opt = "l" => argv[pos].arg \in ClientModules
         /\ pktgen'.client_ops = pktgen.client_ops \/ argv[pos].opt = "l"
<1>1. /\ pc = "options" /\ pos <= Len(argv) /\ pos' = pos + 1
      /\ UNCHANGED <<argv, pc, line, coreVars>>
  BY DEF SetOption, At
<1>2. pos \in DOMAIN argv
  BY <1>1, OptionFacts DEF TypeInv, TypeOK
<1>3. IsSettings(pktgen)
  BY DEF TypeInv
<1>4. \/ argv[pos].opt = "c" /\ pktgen' = [pktgen EXCEPT !.nb_core = Truncated(Number(Arg))]
      \/ argv[pos].opt = "f" /\ pktgen' = [pktgen EXCEPT !.nb_client = Truncated(Number(Arg))]
      \/ argv[pos].opt = "r" /\ pktgen' = [pktgen EXCEPT !.tx_rate = Number(Arg)]
      \/ /\ argv[pos].opt = "l" /\ Arg \in ClientModules
         /\ pktgen' = [pktgen EXCEPT !.client_ops = Arg]
      \/ argv[pos].opt = "crc-strip" /\ UNCHANGED pktgen
  BY DEF SetOption, At
<1>5. Number(Arg) \in Nat /\ Truncated(Number(Arg)) \in Counts
  BY NumberType
<1> HIDE DEF Number, Truncated
<1>6. IsSettings(pktgen') /\ pktgen'.props = pktgen.props
  BY <1>3, <1>4, <1>5 DEF IsSettings
<1>7. /\ argv[pos].opt \in {"c", "f", "r", "l", "crc-strip"}
      /\ pktgen'.client_ops = pktgen.client_ops \/ argv[pos].opt = "l"
      /\ argv[pos].opt = "l" => argv[pos].arg \in ClientModules
  BY <1>3, <1>4 DEF IsSettings, Arg
<1> QED
  BY <1>1, <1>2, <1>6, <1>7

\* A line that is read sets its property or nothing.
LEMMA ReadLineType ==
  ASSUME TypeInv, ReadLine
  PROVE  /\ pc = "lines" /\ pos \in Opened(argv) /\ line \in DOMAIN Files[argv[pos].arg]
         /\ line' = line + 1 /\ UNCHANGED <<argv, pc, pos, coreVars>>
         /\ IsSettings(pktgen') /\ pktgen'.client_ops = pktgen.client_ops
         /\ LET text == Files[argv[pos].arg][line]
            IN  /\ text.key \in STRING /\ text.value \in STRING
                /\ IF text.eq /\ ~text.hash
                     THEN pktgen'.props = SetProperty(pktgen.props, text.key, text.value)
                     ELSE pktgen' = pktgen
<1> DEFINE text == Files[argv[pos].arg][line]
<1>1. /\ pc = "lines" /\ line <= Len(Files[argv[pos].arg])
      /\ pktgen' = IF Skipped(text) THEN pktgen
                   ELSE [pktgen EXCEPT !.props = SetProperty(@, text.key, text.value)]
      /\ line' = line + 1 /\ UNCHANGED <<argv, pc, pos, coreVars>>
  BY DEF ReadLine, Arg
<1>2. pos \in Opened(argv) /\ line \in Nat \ {0} /\ IsSettings(pktgen)
  BY <1>1 DEF TypeInv, TypeOK, Reading
<1>3. argv[pos].arg \in DOMAIN Files
  BY <1>2 DEF Opened
<1>4. /\ line \in DOMAIN Files[argv[pos].arg]
      /\ text \in Texts
  BY <1>1, <1>2, <1>3, TextFacts
<1> HIDE DEF text
<1>5. text.key \in STRING /\ text.value \in STRING /\ (Skipped(text) <=> ~(text.eq /\ ~text.hash))
  BY <1>4 DEF Skipped, Texts
<1>6. IsMap(pktgen.props)
  BY <1>2 DEF IsSettings
<1>7. IsMap(SetProperty(pktgen.props, text.key, text.value))
  BY <1>5, <1>6, SetPropertyType
<1> HIDE DEF SetProperty, IsMap, Skipped
<1>8. CASE Skipped(text)
  BY <1>1, <1>2, <1>4, <1>5, <1>8 DEF text
<1>9. CASE ~Skipped(text)
  <2>1. pktgen' = [pktgen EXCEPT !.props = SetProperty(pktgen.props, text.key, text.value)]
    BY <1>1, <1>9
  <2>2. /\ IsSettings(pktgen') /\ pktgen'.client_ops = pktgen.client_ops
        /\ pktgen'.props = SetProperty(pktgen.props, text.key, text.value)
    BY <1>2, <1>7, <2>1 DEF IsSettings
  <2> QED
    BY <1>1, <1>2, <1>4, <1>5, <1>9, <2>2 DEF text
<1> QED
  BY <1>8, <1>9

\* A jump within main, and the ends of the process.
LEMMA GotoType ==
  ASSUME TypeInv, NEW place \in {"options", "config", "refused", "aborted", "returned"}, Goto(place)
  PROVE  TypeInv'
<1>1. pc' = place /\ UNCHANGED <<argv, pos, line, pktgen, lcore, mean, sent>>
  BY DEF Goto, coreVars
<1>2. TypeOK'
  BY <1>1 DEF TypeInv, TypeOK
<1> QED
  BY <1>1, <1>2 DEF TypeInv, Reading, IsSettings, IsMap

\* Every step preserves the types.
LEMMA NextTypeInv == TypeInv /\ [Next]_vars => TypeInv'
<1> SUFFICES ASSUME TypeInv, [Next]_vars PROVE TypeInv'
  OBVIOUS
<1>t. /\ argv \in CommandLines /\ pos \in 1 .. Len(argv) + 1 /\ line \in Nat /\ line >= 1
      /\ Len(argv) \in Nat /\ DOMAIN argv = 1 .. Len(argv)
      /\ IsSettings(pktgen) /\ Reading
  BY OptionFacts DEF TypeInv, TypeOK, Reading
<1>c. /\ lcore \in [Lcores -> {"wait", "init", "poll", "draw", "done"}]
      /\ mean \in [Lcores -> -IntMax - 1 .. IntMax] /\ sent \subseteq Lcores
  BY DEF TypeInv, TypeOK
<1>1. ASSUME argv' = argv, pos' \in 1 .. Len(argv) + 1, line' \in Nat, line' >= 1,
             IsSettings(pktgen'), UNCHANGED coreVars,
             pc' \in {"options", "lines"}, pc' = "lines" => pos' \in Opened(argv)
      PROVE  TypeInv'
  <2>1. /\ {pktgen'.nb_core, pktgen'.nb_client} \subseteq 0 .. CountWidth - 1
        /\ pktgen'.tx_rate \in Nat /\ pktgen'.client_ops \in ClientModules \cup {NoClient}
        /\ DOMAIN pktgen'.props \subseteq STRING
    BY <1>1 DEF IsSettings, IsMap, Counts
  <2>2. TypeOK'
    BY <1>1, <1>t, <1>c, <2>1 DEF TypeOK, coreVars
  <2>3. Reading'
    BY <1>1 DEF Reading, Opened
  <2>4. IsSettings(pktgen)'
    BY <1>1 DEF IsSettings, IsMap, Counts
  <2> QED
    BY <2>2, <2>3, <2>4 DEF TypeInv
<1>2. CASE SetOption
  BY <1>1, <1>2, <1>t, SetOptionType
<1>3. CASE FileOption /\ Arg \in DOMAIN Files
  <2>1. /\ pos \in DOMAIN argv /\ argv[pos].opt = "p" /\ pc' = "lines" /\ line' = 1
        /\ UNCHANGED <<argv, pos, pktgen, coreVars>>
    BY <1>3, <1>t DEF FileOption, At
  <2>2. pos \in Opened(argv)
    BY <1>3, <2>1 DEF Opened, Arg
  <2> QED
    BY <1>1, <1>t, <2>1, <2>2
<1>4. CASE ReadLine
  <2>1. /\ pc = "lines" /\ pos \in Opened(argv)
        /\ line' = line + 1 /\ UNCHANGED <<argv, pc, pos, coreVars>> /\ IsSettings(pktgen')
    BY <1>4, ReadLineType
  <2> QED
    BY <1>1, <1>t, <2>1
<1>5. CASE CloseFile
  <2>1. pc = "lines" /\ pc' = "options" /\ pos' = pos + 1 /\ UNCHANGED <<argv, line, pktgen, coreVars>>
    BY <1>5 DEF CloseFile
  <2>2. pos \in DOMAIN argv
    BY <1>t, <2>1 DEF Reading, Opened
  <2> QED
    BY <1>1, <1>t, <2>1, <2>2
<1>6. ASSUME Throw \/ Segfault PROVE TypeInv'
  BY <1>6, GotoType DEF Throw, Segfault
<1>7. ASSUME UNCHANGED <<argv, pos, line, pktgen>>, pc' \in {pc, "run"},
             lcore' \in [Lcores -> {"wait", "init", "poll", "draw", "done"}],
             mean' \in [Lcores -> -IntMax - 1 .. IntMax], sent' \subseteq Lcores
      PROVE  TypeInv'
  <2>1. TypeOK'
    BY <1>7 DEF TypeInv, TypeOK
  <2> QED
    BY <1>7, <1>t, <2>1 DEF TypeInv, Reading, IsSettings, IsMap
<1>8. CASE ConfigInfo
  <2>1. CASE Throw \/ Segfault
    BY <1>6, <2>1
  <2>2. CASE ~Throw /\ ~Segfault
    <3>1. /\ pc' = "run" /\ lcore' = [l \in Lcores |-> "init"]
          /\ UNCHANGED <<argv, pos, line, pktgen, mean, sent>>
      BY <1>8, <2>2 DEF ConfigInfo
    <3> QED
      BY <1>7, <1>c, <3>1
  <2> QED
    BY <2>1, <2>2
<1>9. CASE Main
  <2>1. CASE Refuse
    BY <2>1, GotoType DEF Refuse
  <2>2. CASE EndOptions
    BY <2>2, GotoType DEF EndOptions
  <2>3. CASE Join
    BY <2>3, GotoType DEF Join
  <2>4. CASE FileOption /\ Arg \notin DOMAIN Files
    BY <1>6, <2>4 DEF FileOption
  <2> QED
    BY <1>2, <1>3, <1>4, <1>5, <1>8, <1>9, <2>1, <2>2, <2>3, <2>4 DEF Main
<1>10. CASE Ended \/ UNCHANGED vars
  BY <1>7, <1>10, <1>c DEF Ended, vars, coreVars
<1>11. ASSUME NEW l \in Lcores, LcoreStep(l), ~Throw, ~Segfault PROVE TypeInv'
  <2>1. CASE InitCore(l)
    <3>1. /\ mean' = IF pktgen.nb_client > 0 THEN [mean EXCEPT ![l] = MeanInterval] ELSE mean
          /\ lcore' = [lcore EXCEPT ![l] = "poll"]
          /\ UNCHANGED <<argv, pc, pos, line, pktgen, sent>>
      BY <1>11, <2>1 DEF InitCore
    <3>2. MeanInterval \in -IntMax - 1 .. IntMax
      BY <1>t, MeanType
    <3> HIDE DEF MeanInterval
    <3>3. mean' \in [Lcores -> -IntMax - 1 .. IntMax]
      BY <1>c, <3>1, <3>2
    <3>4. lcore' \in [Lcores -> {"wait", "init", "poll", "draw", "done"}]
      BY <1>c, <3>1
    <3> QED
      BY <1>7, <1>c, <3>1, <3>3, <3>4
  <2>2. CASE Request(l) \/ LcoreReturns(l)
    <3>1. /\ UNCHANGED <<argv, pc, pos, line, pktgen, mean>>
          /\ lcore' \in {lcore, [lcore EXCEPT ![l] = "done"], [lcore EXCEPT ![l] = "draw"]}
          /\ sent' \in {sent, sent \cup {l}}
      BY <1>11, <2>2 DEF Request, LcoreReturns
    <3> QED
      BY <1>7, <1>c, <3>1
  <2> QED
    BY <1>11, <1>10, <2>1, <2>2 DEF LcoreStep, PollFails, Draws
<1> QED
  BY <1>6, <1>9, <1>10, <1>11 DEF Next

\* Every option, line and count has its type, and the mean of the intervals is an int,
\* whatever text the options and files hold.
THEOREM TypeCorrect == Spec => []TypeOK
<1>1. Spec => []TypeInv
  BY InitTypeInv, NextTypeInv, PTL DEF Spec
<1> QED
  BY <1>1, PTL DEF TypeInv

-----------------------------------------------------------------------------
(* The last assignment wins. *)

\* The assignments that the program has come past, and a map that says what the last
\* ones of some lines say.
IsRead(a) == a[1] < pos \/ (pc = "lines" /\ a[1] = pos /\ a[2] < line)
ReadLines == {a \in Assignments(argv) : IsRead(a)}

KeyOf(a)   == TextAt(argv, a).key
ValueOf(a) == TextAt(argv, a).value
IsLast(a, lines) == \A b \in lines : KeyOf(b) = KeyOf(a) => ~Before(a, b)

Reflects(map, lines) ==
  /\ DOMAIN map = {KeyOf(a) : a \in lines}
  /\ \A key \in DOMAIN map :
       \E a \in lines : KeyOf(a) = key /\ IsLast(a, lines) /\ map[key] = ValueOf(a)

\* At every point of the start the map holds what has been read, and main goes on only
\* after the last option.
PropsInv ==
  /\ Reflects(pktgen.props, ReadLines)
  /\ pc \in {"config", "run", "returned"} => pos = Len(argv) + 1

\* An assignment is a line of a file that is opened.
LEMMA AssignmentFacts ==
  ASSUME argv \in CommandLines, NEW a \in Assignments(argv)
  PROVE  /\ a = <<a[1], a[2]>> /\ a[1] \in Opened(argv)
         /\ a[1] \in 1 .. Len(argv) /\ a[2] \in Nat \ {0}
         /\ a[2] \in DOMAIN Files[argv[a[1]].arg] /\ a[2] <= Len(Files[argv[a[1]].arg])
         /\ TextAt(argv, a).eq /\ ~TextAt(argv, a).hash
<1>1. PICK p \in Opened(argv) : a \in {p} \X DOMAIN Files[argv[p].arg]
  BY DEF Assignments
<1>2. a = <<a[1], a[2]>> /\ a[1] = p /\ a[2] \in DOMAIN Files[argv[p].arg]
  BY <1>1
<1>3. p \in 1 .. Len(argv) /\ argv[p].arg \in DOMAIN Files
  BY OptionFacts DEF Opened
<1>4. Files[argv[p].arg] \in Seq(Texts)
  BY <1>3, ConstantFacts
<1>5. a[2] \in Nat \ {0} /\ a[2] <= Len(Files[argv[p].arg])
  BY <1>2, <1>4
<1>6. TextAt(argv, a).eq /\ ~TextAt(argv, a).hash
  BY DEF Assignments
<1> QED
  BY <1>2, <1>3, <1>5, <1>6

\* And every such line is one.
LEMMA IsAssignment ==
  ASSUME argv \in CommandLines, NEW p \in Opened(argv), NEW n \in DOMAIN Files[argv[p].arg]
  PROVE  <<p, n>> \in Assignments(argv) <=> Files[argv[p].arg][n].eq /\ ~Files[argv[p].arg][n].hash
<1>1. <<p, n>> \in UNION {{q} \X DOMAIN Files[argv[q].arg] : q \in Opened(argv)}
  <2>1. <<p, n>> \in {p} \X DOMAIN Files[argv[p].arg]
    OBVIOUS
  <2> QED
    BY <2>1
<1>2. TextAt(argv, <<p, n>>) = Files[argv[p].arg][n]
  BY DEF TextAt
<1> QED
  BY <1>1, <1>2 DEF Assignments

\* A line that comes after all others sets its key and leaves the other keys alone.
LEMMA AddLine ==
  ASSUME argv \in CommandLines,
         NEW map, NEW lines, lines \subseteq Assignments(argv), Reflects(map, lines),
         NEW a \in Assignments(argv), \A b \in lines : Before(b, a)
  PROVE  Reflects(SetProperty(map, KeyOf(a), ValueOf(a)), lines \cup {a})
<1> DEFINE more == lines \cup {a}
           set == SetProperty(map, KeyOf(a), ValueOf(a))
<1>1. \A b \in lines : ~Before(a, b)
  <2> TAKE b \in lines
  <2>1. /\ a[1] \in 1 .. Len(argv) /\ a[2] \in Nat \ {0}
        /\ b[1] \in 1 .. Len(argv) /\ b[2] \in Nat \ {0}
    BY AssignmentFacts
  <2> QED
    BY <2>1 DEF Before
<1>2. ~Before(a, a)
  <2>1. a[1] \in 1 .. Len(argv) /\ a[2] \in Nat \ {0}
    BY AssignmentFacts
  <2> QED
    BY <2>1 DEF Before
<1>3. /\ DOMAIN set = DOMAIN map \cup {KeyOf(a)} /\ set[KeyOf(a)] = ValueOf(a)
      /\ \A key \in DOMAIN map \ {KeyOf(a)} : set[key] = map[key]
  BY DEF SetProperty
<1>4. /\ DOMAIN map = {KeyOf(b) : b \in lines}
      /\ \A key \in DOMAIN map :
           \E b \in lines : KeyOf(b) = key /\ IsLast(b, lines) /\ map[key] = ValueOf(b)
  BY DEF Reflects
<1> HIDE DEF set, KeyOf, ValueOf, Before
<1>5. DOMAIN set = {KeyOf(b) : b \in more}
  BY <1>3, <1>4
<1>6. IsLast(a, more)
  BY <1>1, <1>2 DEF IsLast
<1>7. ASSUME NEW key \in DOMAIN set
      PROVE  \E b \in more : KeyOf(b) = key /\ IsLast(b, more) /\ set[key] = ValueOf(b)
  <2>1. CASE key = KeyOf(a)
    BY <1>3, <1>6, <2>1
  <2>2. CASE key # KeyOf(a)
    <3>1. key \in DOMAIN map /\ set[key] = map[key]
      BY <1>3, <1>7, <2>2
    <3>2. PICK b \in lines : KeyOf(b) = key /\ IsLast(b, lines) /\ map[key] = ValueOf(b)
      BY <1>4, <3>1
    <3>3. IsLast(b, more)
      BY <2>2, <3>2 DEF IsLast
    <3> QED
      BY <3>1, <3>2, <3>3
  <2> QED
    BY <2>1, <2>2
<1> QED
  BY <1>5, <1>7 DEF Reflects, set

\* Of the assignments to a key one is the last.
LEMMA LastIsOne ==
  ASSUME argv \in CommandLines,
         NEW a \in Assignments(argv), NEW b \in Assignments(argv), KeyOf(a) = KeyOf(b),
         IsLast(a, Assignments(argv)), IsLast(b, Assignments(argv))
  PROVE  a = b
<1>1. ~Before(a, b) /\ ~Before(b, a)
  BY DEF IsLast
<1>2. /\ a = <<a[1], a[2]>> /\ a[1] \in 1 .. Len(argv) /\ a[2] \in Nat \ {0}
      /\ b = <<b[1], b[2]>> /\ b[1] \in 1 .. Len(argv) /\ b[2] \in Nat \ {0}
  BY AssignmentFacts
<1>3. a[1] = b[1] /\ a[2] = b[2]
  BY <1>1, <1>2 DEF Before
<1> QED
  BY <1>2, <1>3

\* A map that says what the last ones of all lines say is the configuration.
LEMMA AllRead ==
  ASSUME argv \in CommandLines, NEW map, IsMap(map), Reflects(map, Assignments(argv))
  PROVE  map = Configured(argv)
<1> DEFINE lines == Assignments(argv)
           IsLatest(a, key) == TextAt(argv, a).key = key /\ LastIn(argv, a, lines)
           Latest(key) == CHOOSE a \in lines : IsLatest(a, key)
<1>1. Configured(argv) = [key \in {KeyOf(a) : a \in lines} |-> TextAt(argv, Latest(key)).value]
  BY DEF Configured, KeyOf
<1>2. /\ DOMAIN map = {KeyOf(a) : a \in lines}
      /\ \A key \in DOMAIN map :
           \E a \in lines : KeyOf(a) = key /\ IsLast(a, lines) /\ map[key] = ValueOf(a)
  BY DEF Reflects
<1>3. ASSUME NEW key \in DOMAIN map PROVE map[key] = TextAt(argv, Latest(key)).value
  <2>1. PICK a \in lines : KeyOf(a) = key /\ IsLast(a, lines) /\ map[key] = ValueOf(a)
    BY <1>2
  <2>2. IsLatest(a, key)
    BY <2>1 DEF IsLast, LastIn, KeyOf
  <2>3. Latest(key) \in lines /\ IsLatest(Latest(key), key)
    BY <2>2
  <2> HIDE DEF Latest
  <2>4. KeyOf(Latest(key)) = key /\ IsLast(Latest(key), lines)
    BY <2>3 DEF IsLast, LastIn, KeyOf
  <2>5. Latest(key) = a
    BY <2>1, <2>3, <2>4, LastIsOne
  <2> QED
    BY <2>1, <2>5 DEF ValueOf
<1>4. map = [key \in DOMAIN map |-> map[key]]
  BY DEF IsMap
<1> HIDE DEF Latest, lines
<1> QED
  BY <1>1, <1>2, <1>3, <1>4

\* The steps that read no option and no line: the process goes on or ends.
LEMMA OtherSteps ==
  ASSUME TypeInv, [Next]_vars, ~SetOption, ~ReadLine, ~CloseFile,
         ~(FileOption /\ Arg \in DOMAIN Files)
  PROVE  /\ UNCHANGED <<argv, pos, line, pktgen>>
         /\ \/ pc' = pc
            \/ pc = "options" /\ pc' \in {"refused", "aborted"}
            \/ pc = "options" /\ pos > Len(argv) /\ pc' = "config"
            \/ pc \in {"config", "run"} /\ pc' \in {"run", "aborted", "returned"}
<1>1. CASE Main
  <2>1. CASE Refuse
    BY <2>1 DEF Refuse, Goto
  <2>2. CASE FileOption
    BY <2>2 DEF FileOption, At, Throw, Goto
  <2>3. CASE EndOptions
    BY <2>3 DEF EndOptions, Goto
  <2>4. CASE ConfigInfo
    BY <2>4 DEF ConfigInfo, Throw, Segfault, Goto
  <2>5. CASE Join
    BY <2>5 DEF Join, Goto
  <2> QED
    BY <1>1, <2>1, <2>2, <2>3, <2>4, <2>5 DEF Main
<1>2. ASSUME NEW l \in Lcores, LcoreStep(l)
      PROVE  /\ UNCHANGED <<argv, pos, line, pktgen>>
             /\ pc' = pc \/ (pc = "run" /\ pc' = "aborted")
  <2>1. CASE InitCore(l)
    BY <2>1 DEF InitCore, Throw, Segfault, Goto
  <2>2. CASE PollFails(l)
    BY <2>2 DEF PollFails, Throw, Goto
  <2>3. CASE Request(l)
    BY <2>3 DEF Request, Polls, Segfault, Goto
  <2>4. CASE LcoreReturns(l) \/ Draws(l)
    BY <2>4 DEF LcoreReturns, Draws, vars
  <2> QED
    BY <1>2, <2>1, <2>2, <2>3, <2>4 DEF LcoreStep
<1>3. CASE Ended \/ UNCHANGED vars
  BY <1>3 DEF Ended, vars
<1> QED
  BY <1>1, <1>2, <1>3 DEF Next

\* If no further line is read the map still reflects those that are.
LEMMA SameRead ==
  ASSUME Reflects(pktgen.props, ReadLines), argv' = argv, pktgen'.props = pktgen.props,
         \A a \in Assignments(argv) : IsRead(a)' <=> IsRead(a)
  PROVE  Reflects(pktgen.props, ReadLines)'
<1>1. ReadLines' = ReadLines
  BY DEF ReadLines
<1>2. \A a : KeyOf(a)' = KeyOf(a) /\ ValueOf(a)' = ValueOf(a)
  BY DEF KeyOf, ValueOf
<1>3. \A a : IsLast(a, ReadLines)' <=> IsLast(a, ReadLines)
  BY <1>1, <1>2 DEF IsLast
<1> QED
  BY <1>1, <1>2, <1>3 DEF Reflects

\* Nothing is read before the first option.
LEMMA InitPropsInv == Init => PropsInv
<1> SUFFICES ASSUME Init PROVE PropsInv
  OBVIOUS
<1>1. ReadLines = {}
  <2> SUFFICES ASSUME NEW a \in Assignments(argv) PROVE ~IsRead(a)
    BY DEF ReadLines
  <2>1. a[1] \in 1 .. Len(argv) /\ Len(argv) \in Nat
    BY AssignmentFacts, OptionFacts DEF Init
  <2> QED
    BY <2>1 DEF IsRead, Init
<1>2. DOMAIN pktgen.props = {}
  BY DEF Init
<1> QED
  BY <1>1, <1>2 DEF PropsInv, Reflects, Init

\* Every step preserves it.
LEMMA NextPropsInv == TypeInv /\ PropsInv /\ [Next]_vars => PropsInv'
<1> SUFFICES ASSUME TypeInv, PropsInv, [Next]_vars PROVE PropsInv'
  OBVIOUS
<1>t. /\ argv \in CommandLines /\ pos \in 1 .. Len(argv) + 1 /\ line \in Nat /\ line >= 1
      /\ Len(argv) \in Nat /\ DOMAIN argv = 1 .. Len(argv)
      /\ IsSettings(pktgen) /\ Reflects(pktgen.props, ReadLines)
  BY OptionFacts DEF TypeInv, TypeOK, Reading, PropsInv
<1>a. \A a \in Assignments(argv) :
        /\ a = <<a[1], a[2]>> /\ a[1] \in Opened(argv) /\ a[1] \in 1 .. Len(argv)
        /\ a[2] \in Nat \ {0} /\ a[2] <= Len(Files[argv[a[1]].arg])
  BY <1>t, AssignmentFacts
<1>1. CASE SetOption
  <2>1. /\ pktgen'.props = pktgen.props /\ pc = "options" /\ pos \in DOMAIN argv /\ pos' = pos + 1
        /\ argv' = argv /\ pc' = pc /\ argv[pos].opt \in {"c", "f", "r", "l", "crc-strip"}
    BY <1>1, SetOptionType
  <2>2. pos \notin Opened(argv)
    BY <2>1 DEF Opened
  <2>3. \A a \in Assignments(argv) : IsRead(a)' <=> IsRead(a)
    <3> TAKE a \in Assignments(argv)
    <3>1. a[1] # pos /\ a[1] \in 1 .. Len(argv)
      BY <1>a, <2>2
    <3> QED
      BY <1>t, <2>1, <3>1 DEF IsRead
  <2> QED
    BY <1>t, <2>1, <2>3, SameRead DEF PropsInv
<1>2. CASE FileOption /\ Arg \in DOMAIN Files
  <2>1. pc = "options" /\ pc' = "lines" /\ line' = 1 /\ UNCHANGED <<argv, pos, pktgen>>
    BY <1>2 DEF FileOption, At
  <2>2. \A a \in Assignments(argv) : IsRead(a)' <=> IsRead(a)
    <3> TAKE a \in Assignments(argv)
    <3> QED
      BY <1>a, <2>1 DEF IsRead
  <2> QED
    BY <1>t, <2>1, <2>2, SameRead DEF PropsInv
<1>3. CASE CloseFile
  <2>1. /\ pc = "lines" /\ pc' = "options" /\ pos' = pos + 1 /\ UNCHANGED <<argv, line, pktgen>>
        /\ line > Len(Files[argv[pos].arg])
    BY <1>3 DEF CloseFile, Arg
  <2>2. \A a \in Assignments(argv) : IsRead(a)' <=> IsRead(a)
    <3> TAKE a \in Assignments(argv)
    <3>1. /\ a[1] \in 1 .. Len(argv) /\ a[2] \in Nat
          /\ a[2] <= Len(Files[argv[a[1]].arg])
      BY <1>a
    <3>2. argv[a[1]].arg \in DOMAIN Files
      BY <1>a DEF Opened
    <3>3. Len(Files[argv[a[1]].arg]) \in Nat
      BY <3>2, ConstantFacts
    <3>4. a[1] = pos => a[2] < line
      BY <1>t, <2>1, <3>1, <3>3
    <3> QED
      BY <1>t, <2>1, <3>1, <3>4 DEF IsRead
  <2> QED
    BY <1>t, <2>1, <2>2, SameRead DEF PropsInv
<1>4. CASE ReadLine
  <2> DEFINE text == Files[argv[pos].arg][line]
             here == <<pos, line>>
  <2>1. /\ pc = "lines" /\ pos \in Opened(argv) /\ line \in DOMAIN Files[argv[pos].arg]
        /\ line' = line + 1 /\ UNCHANGED <<argv, pc, pos>>
        /\ IF text.eq /\ ~text.hash
             THEN pktgen'.props = SetProperty(pktgen.props, text.key, text.value)
             ELSE pktgen' = pktgen
    BY <1>4, ReadLineType
  <2>2. here \in Assignments(argv) <=> text.eq /\ ~text.hash
    BY <1>t, <2>1, IsAssignment
  <2>3. \A a \in Assignments(argv) : IsRead(a)' <=> IsRead(a) \/ a = here
    <3> TAKE a \in Assignments(argv)
    <3>1. a = <<a[1], a[2]>> /\ a[1] \in 1 .. Len(argv) /\ a[2] \in Nat
      BY <1>a
    <3>2. a = here <=> a[1] = pos /\ a[2] = line
      BY <3>1
    <3> QED
      BY <1>t, <2>1, <3>1, <3>2 DEF IsRead
  <2>4. CASE ~(text.eq /\ ~text.hash)
    BY <1>t, <2>1, <2>2, <2>3, <2>4, SameRead DEF PropsInv
  <2>5. CASE text.eq /\ ~text.hash
    <3>1. here \in Assignments(argv) /\ KeyOf(here) = text.key /\ ValueOf(here) = text.value
      BY <2>2, <2>5 DEF KeyOf, ValueOf, TextAt
    <3>2. \A a \in ReadLines : Before(a, here)
      BY DEF ReadLines, IsRead, Before
    <3>3. ReadLines \subseteq Assignments(argv)
      BY DEF ReadLines
    <3>4. Reflects(SetProperty(pktgen.props, KeyOf(here), ValueOf(here)), ReadLines \cup {here})
      BY <1>t, <3>1, <3>2, <3>3, AddLine
    <3>5. ReadLines' = ReadLines \cup {here}
      BY <2>1, <2>3, <3>1 DEF ReadLines
    <3>6. pktgen'.props = SetProperty(pktgen.props, KeyOf(here), ValueOf(here))
      BY <2>1, <2>5, <3>1
    <3>7. \A a : KeyOf(a)' = KeyOf(a) /\ ValueOf(a)' = ValueOf(a)
      BY <2>1 DEF KeyOf, ValueOf
    <3>8. \A a : IsLast(a, ReadLines)' <=> IsLast(a, ReadLines \cup {here})
      BY <3>5, <3>7 DEF IsLast
    <3> HIDE DEF here
    <3>9. Reflects(pktgen.props, ReadLines)'
      BY <3>4, <3>5, <3>6, <3>7, <3>8 DEF Reflects
    <3> QED
      BY <2>1, <3>9 DEF PropsInv
  <2> QED
    BY <2>4, <2>5
<1>5. CASE ~SetOption /\ ~ReadLine /\ ~CloseFile /\ ~(FileOption /\ Arg \in DOMAIN Files)
  <2>1. /\ UNCHANGED <<argv, pos, line, pktgen>>
        /\ \/ pc' = pc
           \/ pc = "options" /\ pc' \in {"refused", "aborted"}
           \/ pc = "options" /\ pos > Len(argv) /\ pc' = "config"
           \/ pc \in {"config", "run"} /\ pc' \in {"run", "aborted", "returned"}
    BY <1>5, OtherSteps
  <2>2. \A a \in Assignments(argv) : IsRead(a)' <=> IsRead(a)
    BY <2>1 DEF IsRead
  <2>3. Reflects(pktgen.props, ReadLines)'
    BY <1>t, <2>1, <2>2, SameRead
  <2>4. pc' \in {"config", "run", "returned"} => pos' = Len(argv') + 1
    BY <1>t, <2>1 DEF PropsInv
  <2> QED
    BY <2>3, <2>4 DEF PropsInv
<1> QED
  BY <1>1, <1>2, <1>3, <1>4, <1>5

\* Behind the last option the map is the configuration.
LEMMA PropsConfigured ==
  ASSUME TypeInv, PropsInv, pc \in {"config", "run", "returned"}
  PROVE  pktgen.props = Configured(argv)
<1>1. argv \in CommandLines /\ pos = Len(argv) + 1 /\ Len(argv) \in Nat
  BY OptionFacts DEF TypeInv, TypeOK, PropsInv
<1>2. ReadLines = Assignments(argv)
  <2> SUFFICES ASSUME NEW a \in Assignments(argv) PROVE IsRead(a)
    BY DEF ReadLines
  <2>1. a[1] \in 1 .. Len(argv)
    BY <1>1, AssignmentFacts
  <2> QED
    BY <1>1, <2>1 DEF IsRead
<1>3. IsMap(pktgen.props)
  BY DEF TypeInv, IsSettings
<1> QED
  BY <1>1, <1>2, <1>3, AllRead DEF PropsInv

\* All types and the properties hold throughout.
LEMMA PropsCorrect == Spec => [](TypeInv /\ PropsInv)
<1>1. Init => TypeInv /\ PropsInv
  BY InitTypeInv, InitPropsInv
<1>2. (TypeInv /\ PropsInv) /\ [Next]_vars => (TypeInv /\ PropsInv)'
  BY NextTypeInv, NextPropsInv
<1> QED
  BY <1>1, <1>2, PTL DEF Spec

\* However many files are given, among whatever other options, the program works with
\* the last assignment to each key over all of them.
THEOREM LastAssignmentCorrect == Spec => []LastAssignmentWins
<1>1. TypeInv /\ PropsInv => LastAssignmentWins
  BY PropsConfigured DEF LastAssignmentWins
<1> QED
  BY <1>1, PropsCorrect, PTL

-----------------------------------------------------------------------------
(* Only a valid configuration sends, and no more than its rate. *)

IsValidOption(p) ==
  /\ argv[p].opt \in {"c", "f", "r", "l", "p", "crc-strip"}
  /\ argv[p].opt = "l" => argv[p].arg \in ClientModules
  /\ argv[p].opt = "p" => argv[p].arg \in DOMAIN Files

\* An lcore that has set up its workload and its clients.
IsSetUp(l) ==
  /\ WorkloadInits(pktgen.props) /\ pktgen.client_ops # NoClient
  /\ pktgen.nb_client > 0 => mean[l] = MeanInterval

\* Each place that is passed has checked its part of the configuration.
ChecksInv ==
  /\ \A p \in DOMAIN argv : p < pos => IsValidOption(p)
  /\ pktgen.client_ops # NoClient => \E p \in DOMAIN argv : argv[p].opt = "l"
  /\ pc \in {"options", "lines", "config"} => \A l \in Lcores : lcore[l] = "wait"
  /\ pc \in {"run", "returned"} => AllConvert(pktgen.props, ConfigNumbers)
  /\ \A l \in Lcores : lcore[l] \in {"poll", "done"} => IsSetUp(l)
  /\ OnlyValidSends

\* No option is checked before the first one.
LEMMA InitChecksInv == Init => ChecksInv
<1> SUFFICES ASSUME Init PROVE ChecksInv
  OBVIOUS
<1>1. \A p \in DOMAIN argv : ~(p < pos)
  BY OptionFacts DEF Init
<1>2. pktgen.client_ops = NoClient /\ sent = {} /\ pc = "options"
  BY DEF Init
<1>3. \A l \in Lcores : lcore[l] = "wait"
  BY DEF Init
<1> QED
  BY <1>1, <1>2, <1>3 DEF ChecksInv, OnlyValidSends

\* What has been checked in the places that lead to a request is the configuration as a whole.
LEMMA RequestIsValid ==
  ASSUME TypeInv, PropsInv, ChecksInv, NEW l \in Lcores, Request(l), CanRequest(pktgen.props)
  PROVE  Valid
<1>1. pc = "run" /\ lcore[l] = "poll" /\ AllConvert(pktgen.props, PollNumbers)
  BY DEF Request, Polls
<1>2. pktgen.props = Configured(argv)
  BY <1>1, PropsConfigured
<1>3. WorkloadInits(pktgen.props) /\ pktgen.client_ops # NoClient
  BY <1>1 DEF ChecksInv, IsSetUp
<1>4. AllConvert(pktgen.props, ConfigNumbers)
  BY <1>1 DEF ChecksInv
<1>5. AllConvert(pktgen.props, ConfigNumbers \cup PollNumbers)
  BY <1>1, <1>4 DEF AllConvert
<1>6. \A p \in DOMAIN argv : IsValidOption(p)
  <2>1. pos = Len(argv) + 1 /\ Len(argv) \in Nat /\ DOMAIN argv = 1 .. Len(argv)
    BY <1>1, OptionFacts DEF PropsInv, TypeInv, TypeOK
  <2> QED
    BY <2>1 DEF ChecksInv
<1>7. \E p \in DOMAIN argv : argv[p].opt = "l"
  BY <1>3 DEF ChecksInv
<1> QED
  BY <1>2, <1>3, <1>5, <1>6, <1>7 DEF Valid, IsValidOption

\* As long as options are parsed no lcore has done anything.
LEMMA ParsingChecks ==
  ASSUME TypeInv, ChecksInv, pc \in {"options", "lines"}, pc' \in {"options", "lines"},
         UNCHANGED <<argv, coreVars>>, pos' \in {pos, pos + 1},
         pos' = pos + 1 => IsValidOption(pos),
         pktgen'.client_ops # NoClient => \E p \in DOMAIN argv : argv[p].opt = "l"
  PROVE  ChecksInv'
<1>1. pos \in 1 .. Len(argv) + 1 /\ Len(argv) \in Nat /\ DOMAIN argv = 1 .. Len(argv)
  BY OptionFacts DEF TypeInv, TypeOK
<1>2. \A p \in DOMAIN argv : IsValidOption(p)' <=> IsValidOption(p)
  BY DEF IsValidOption
<1>3. \A p \in DOMAIN argv' : p < pos' => IsValidOption(p)'
  <2> SUFFICES ASSUME NEW p \in DOMAIN argv, p < pos' PROVE IsValidOption(p)
    BY <1>2
  <2>1. p < pos \/ (p = pos /\ pos' = pos + 1)
    BY <1>1
  <2> QED
    BY <2>1 DEF ChecksInv
<1>4. \A l \in Lcores : lcore'[l] = "wait"
  BY DEF ChecksInv, coreVars
<1>5. OnlyValidSends'
  BY DEF ChecksInv, OnlyValidSends, Valid, coreVars
<1> QED
  BY <1>3, <1>4, <1>5 DEF ChecksInv

\* What the lcores have set up stays as long as struct pktgen_s does.
LEMMA RunningChecks ==
  ASSUME ChecksInv, UNCHANGED <<argv, pos, pktgen>>,
         pc' \in {"options", "lines", "config"} => \A l \in Lcores : lcore'[l] = "wait",
         pc' \in {"run", "returned"} => AllConvert(pktgen.props, ConfigNumbers),
         \A l \in Lcores : lcore'[l] \in {"poll", "done"} =>
           \/ lcore[l] \in {"poll", "done"} /\ mean'[l] = mean[l]
           \/ /\ WorkloadInits(pktgen.props) /\ pktgen.client_ops # NoClient
              /\ pktgen.nb_client > 0 => mean'[l] = MeanInterval,
         sent' # {} => Valid
  PROVE  ChecksInv'
<1>1. MeanInterval' = MeanInterval
  BY DEF MeanInterval
<1>2. (WorkloadInits(pktgen.props))' <=> WorkloadInits(pktgen.props)
  OBVIOUS
<1> HIDE DEF MeanInterval, WorkloadInits
<1>3. \A l \in Lcores : lcore'[l] \in {"poll", "done"} => IsSetUp(l)'
  <2> TAKE l \in Lcores
  <2> HAVE lcore'[l] \in {"poll", "done"}
  <2>1. CASE lcore[l] \in {"poll", "done"} /\ mean'[l] = mean[l]
    BY <1>1, <1>2, <2>1 DEF ChecksInv, IsSetUp
  <2>2. CASE ~(lcore[l] \in {"poll", "done"} /\ mean'[l] = mean[l])
    BY <1>1, <1>2, <2>2 DEF IsSetUp
  <2> QED
    BY <2>1, <2>2
<1>4. Valid' <=> Valid
  BY DEF Valid
<1>5. OnlyValidSends'
  BY <1>4 DEF OnlyValidSends
<1>6. (\A p \in DOMAIN argv : p < pos => IsValidOption(p))'
  BY DEF ChecksInv, IsValidOption
<1>7. (pktgen.client_ops # NoClient => \E p \in DOMAIN argv : argv[p].opt = "l")'
  BY DEF ChecksInv
<1> QED
  BY <1>3, <1>5, <1>6, <1>7 DEF ChecksInv

\* Every step preserves it.
LEMMA NextChecksInv == TypeInv /\ PropsInv /\ ChecksInv /\ [Next]_vars => ChecksInv'
<1> SUFFICES ASSUME TypeInv, PropsInv, ChecksInv, [Next]_vars PROVE ChecksInv'
  OBVIOUS
<1>c. /\ lcore \in [Lcores -> {"wait", "init", "poll", "draw", "done"}]
      /\ mean \in [Lcores -> -IntMax - 1 .. IntMax]
  BY DEF TypeInv, TypeOK
<1>s. (sent # {} => Valid)
  BY DEF ChecksInv, OnlyValidSends
<1>1. CASE SetOption
  <2>1. /\ pc = "options" /\ pos \in DOMAIN argv /\ pos' = pos + 1
        /\ UNCHANGED <<argv, pc, coreVars>>
        /\ argv[pos].opt \in {"c", "f", "r", "l", "crc-strip"}
        /\ argv[pos].opt = "l" => argv[pos].arg \in ClientModules
        /\ pktgen'.client_ops = pktgen.client_ops \/ argv[pos].opt = "l"
    BY <1>1, SetOptionType
  <2>2. IsValidOption(pos)
    BY <2>1 DEF IsValidOption
  <2>3. pktgen'.client_ops # NoClient => \E p \in DOMAIN argv : argv[p].opt = "l"
    BY <2>1 DEF ChecksInv
  <2> QED
    BY <2>1, <2>2, <2>3, ParsingChecks
<1>2. CASE FileOption /\ Arg \in DOMAIN Files
  <2>1. pc = "options" /\ pc' = "lines" /\ UNCHANGED <<argv, pos, pktgen, coreVars>>
    BY <1>2 DEF FileOption, At
  <2>2. pos \in 1 .. Len(argv) + 1 /\ Len(argv) \in Nat
    BY OptionFacts DEF TypeInv, TypeOK
  <2> QED
    BY <2>1, <2>2, ParsingChecks DEF ChecksInv
<1>3. CASE ReadLine
  <2>1. /\ pc = "lines" /\ UNCHANGED <<argv, pc, pos, coreVars>>
        /\ pktgen'.client_ops = pktgen.client_ops
    BY <1>3, ReadLineType
  <2>2. pos \in 1 .. Len(argv) + 1 /\ Len(argv) \in Nat
    BY OptionFacts DEF TypeInv, TypeOK
  <2> QED
    BY <2>1, <2>2, ParsingChecks DEF ChecksInv
<1>4. CASE CloseFile
  <2>1. pc = "lines" /\ pc' = "options" /\ pos' = pos + 1 /\ UNCHANGED <<argv, pktgen, coreVars>>
    BY <1>4 DEF CloseFile
  <2>2. IsValidOption(pos)
    BY <2>1 DEF TypeInv, Reading, Opened, IsValidOption
  <2> QED
    BY <2>1, <2>2, ParsingChecks DEF ChecksInv
<1>5. ASSUME Goto("refused") \/ Throw \/ Segfault PROVE ChecksInv'
  <2>1. pc' \in {"refused", "aborted"} /\ UNCHANGED <<argv, pos, pktgen, lcore, mean, sent>>
    BY <1>5 DEF Throw, Segfault, Goto, coreVars
  <2> QED
    BY <1>s, <2>1, RunningChecks
<1>6. CASE EndOptions
  <2>1. pc = "options" /\ pc' = "config" /\ UNCHANGED <<argv, pos, pktgen, lcore, mean, sent>>
    BY <1>6 DEF EndOptions, Goto, coreVars
  <2>2. \A l \in Lcores : lcore'[l] = "wait"
    BY <2>1 DEF ChecksInv
  <2> QED
    BY <1>s, <2>1, <2>2, RunningChecks
<1>7. CASE ConfigInfo /\ ~Throw /\ ~Segfault
  <2>1. /\ AllConvert(pktgen.props, ConfigNumbers) /\ pc' = "run"
        /\ lcore' = [l \in Lcores |-> "init"] /\ UNCHANGED <<argv, pos, pktgen, mean, sent>>
    BY <1>7 DEF ConfigInfo
  <2>2. \A l \in Lcores : lcore'[l] = "init"
    BY <2>1
  <2> QED
    BY <1>s, <2>1, <2>2, RunningChecks
<1>8. CASE Join
  <2>1. pc = "run" /\ pc' = "returned" /\ UNCHANGED <<argv, pos, pktgen, lcore, mean, sent>>
    BY <1>8 DEF Join, Goto, coreVars
  <2>2. AllConvert(pktgen.props, ConfigNumbers)
    BY <2>1 DEF ChecksInv
  <2> QED
    BY <1>s, <2>1, <2>2, RunningChecks
<1>9. CASE Ended \/ UNCHANGED vars
  <2>1. UNCHANGED <<argv, pc, pos, pktgen, lcore, mean, sent>>
    BY <1>9 DEF Ended, vars, coreVars
  <2> QED
    BY <1>s, <2>1, RunningChecks DEF ChecksInv
<1>10. ASSUME NEW l \in Lcores, LcoreStep(l), ~Throw, ~Segfault PROVE ChecksInv'
  <2>1. CASE InitCore(l)
    <3>1. /\ WorkloadInits(pktgen.props) /\ pktgen.client_ops # NoClient /\ pc = "run"
          /\ mean' = IF pktgen.nb_client > 0 THEN [mean EXCEPT ![l] = MeanInterval] ELSE mean
          /\ lcore' = [lcore EXCEPT ![l] = "poll"]
          /\ UNCHANGED <<argv, pc, pos, pktgen, sent>>
      BY <1>10, <2>1 DEF InitCore
    <3> HIDE DEF MeanInterval, WorkloadInits
    <3>2. /\ pktgen.nb_client > 0 => mean'[l] = MeanInterval
          /\ \A k \in Lcores \ {l} : mean'[k] = mean[k] /\ lcore'[k] = lcore[k]
      BY <1>c, <3>1
    <3>3. AllConvert(pktgen.props, ConfigNumbers)
      BY <3>1 DEF ChecksInv
    <3>4. \A k \in Lcores : lcore'[k] \in {"poll", "done"} =>
            \/ lcore[k] \in {"poll", "done"} /\ mean'[k] = mean[k]
            \/ /\ WorkloadInits(pktgen.props) /\ pktgen.client_ops # NoClient
               /\ pktgen.nb_client > 0 => mean'[k] = MeanInterval
      BY <3>1, <3>2
    <3> QED
      BY <1>s, <3>1, <3>3, <3>4, RunningChecks
  <2>2. CASE Request(l)
    <3>1. /\ CanRequest(pktgen.props) /\ pc = "run"
          /\ UNCHANGED <<argv, pc, pos, pktgen, mean>>
          /\ lcore' \in {lcore, [lcore EXCEPT ![l] = "draw"]}
      BY <1>10, <2>2 DEF Request, Polls
    <3>2. Valid
      BY <2>2, <3>1, RequestIsValid
    <3>3. AllConvert(pktgen.props, ConfigNumbers)
      BY <3>1 DEF ChecksInv
    <3>4. \A k \in Lcores : lcore'[k] \in {"poll", "done"} => lcore[k] \in {"poll", "done"}
      BY <1>c, <3>1
    <3> QED
      BY <3>1, <3>2, <3>3, <3>4, RunningChecks
  <2>3. CASE LcoreReturns(l)
    <3>1. /\ pc = "run" /\ lcore[l] = "poll" /\ lcore' = [lcore EXCEPT ![l] = "done"]
          /\ UNCHANGED <<argv, pc, pos, pktgen, mean, sent>>
      BY <2>3 DEF LcoreReturns, Polls
    <3>2. \A k \in Lcores : lcore'[k] \in {"poll", "done"} => lcore[k] \in {"poll", "done"}
      BY <1>c, <3>1
    <3>3. AllConvert(pktgen.props, ConfigNumbers)
      BY <3>1 DEF ChecksInv
    <3> QED
      BY <1>s, <3>1, <3>2, <3>3, RunningChecks
  <2> QED
    BY <1>9, <1>10, <2>1, <2>2, <2>3 DEF LcoreStep, PollFails, Draws
<1>11. CASE Main
  <2>1. CASE Refuse
    BY <1>5, <2>1 DEF Refuse
  <2>2. CASE FileOption /\ Arg \notin DOMAIN Files
    BY <1>5, <2>2 DEF FileOption
  <2>3. CASE ConfigInfo /\ (Throw \/ Segfault)
    BY <1>5, <2>3
  <2> QED
    BY <1>1, <1>2, <1>3, <1>4, <1>6, <1>7, <1>8, <1>11, <2>1, <2>2, <2>3 DEF Main
<1> QED
  BY <1>5, <1>9, <1>10, <1>11 DEF Next

\* All that is needed holds throughout.
LEMMA ChecksCorrect == Spec => [](TypeInv /\ ChecksInv)
<1>1. Init => TypeInv /\ PropsInv /\ ChecksInv
  BY InitTypeInv, InitPropsInv, InitChecksInv
<1>2. (TypeInv /\ PropsInv /\ ChecksInv) /\ [Next]_vars => (TypeInv /\ PropsInv /\ ChecksInv)'
  BY NextTypeInv, NextPropsInv, NextChecksInv
<1> QED
  BY <1>1, <1>2, PTL DEF Spec

\* No lcore sends a request under a command line and files that the program cannot work
\* with as a whole, although each value is checked only where it is used.
THEOREM OnlyValidSendsCorrect == Spec => []OnlyValidSends
<1>1. TypeInv /\ ChecksInv => OnlyValidSends
  BY DEF ChecksInv
<1> QED
  BY <1>1, ChecksCorrect, PTL

\* Products of natural numbers grow with their factors.
LEMMA ProductGrows ==
  ASSUME NEW a \in Nat, NEW b \in Nat, a <= b, NEW k \in Nat
  PROVE  a * k \in Nat /\ b * k \in Nat /\ a * k <= b * k
<1>1. PICK d \in Nat : b = a + d
  <2>1. b - a \in Nat /\ b = a + (b - a)
    OBVIOUS
  <2> QED
    BY <2>1
<1>2. b * k = a * k + d * k /\ a * k \in Nat /\ d * k \in Nat
  BY <1>1
<1> QED
  BY <1>2

\* The rate of one lcore, times the lcores that poll.
LEMMA RateOfPolling ==
  ASSUME TypeInv, ChecksInv
  PROVE  OffersTxRate
<1> DEFINE polling == {l \in Lcores : lcore[l] = "poll"}
           clients == pktgen.nb_client
           w == pktgen.tx_rate
<1> SUFFICES ASSUME NEW l \in polling, Cardinality(Lcores) <= pktgen.nb_core, mean[l] > 0
             PROVE  Cardinality(polling) * clients * Scale <= w * (mean[l] + 1)
  BY DEF OffersTxRate
<1>1. /\ IsSettings(pktgen) /\ l \in Lcores /\ IsSetUp(l)
      /\ mean \in [Lcores -> -IntMax - 1 .. IntMax] /\ IntMax \in Nat
  BY ConstantFacts DEF TypeInv, TypeOK, ChecksInv
<1>2. pktgen.nb_core \in Nat /\ clients \in Nat /\ w \in Nat /\ mean[l] \in Nat \ {0}
  <2>1. mean[l] \in -IntMax - 1 .. IntMax
    BY <1>1
  <2> QED
    BY <1>1, <2>1, ConstantFacts DEF IsSettings, Counts
<1>3. Cardinality(polling) \in Nat /\ Cardinality(polling) <= pktgen.nb_core
  <2>1. polling \subseteq Lcores /\ IsFiniteSet(Lcores)
    BY ConstantFacts
  <2>2. IsFiniteSet(polling) /\ Cardinality(polling) <= Cardinality(Lcores)
    BY <2>1, FS_Subset
  <2>3. Cardinality(polling) \in Nat /\ Cardinality(Lcores) \in Nat
    BY <2>1, <2>2, FS_CardinalityType
  <2> QED
    BY <1>2, <2>2, <2>3
<1> DEFINE n == Cardinality(polling)
           m == mean[l]
           c == pktgen.nb_core
           offered == c * clients * Scale
<1>4. Scale \in Nat /\ n \in Nat /\ c \in Nat /\ n <= c /\ m \in Nat \ {0}
  BY <1>2, <1>3, ConstantFacts
<1>5. clients > 0 => w \in Nat \ {0} /\ m = offered \div w
  <2>1. clients > 0 => m = MeanInterval
    BY <1>1 DEF IsSetUp
  <2> QED
    BY <1>1, <1>4, <2>1, MeanType
<1> HIDE DEF n, m, w, clients, c
<1>6. n * clients * Scale <= offered /\ offered \in Nat
  <2>1. n * clients \in Nat /\ c * clients \in Nat /\ n * clients <= c * clients
    BY <1>2, <1>4, ProductGrows
  <2> QED
    BY <1>4, <2>1, ProductGrows
<1>7. n * clients * Scale \in Nat
  <2>1. n * clients \in Nat
    BY <1>2, <1>4
  <2> QED
    BY <1>4, <2>1
<1>8. CASE clients = 0
  <2>1. n * clients = 0
    BY <1>4, <1>8
  <2>2. n * clients * Scale = 0
    BY <1>4, <2>1
  <2>3. w * (m + 1) \in Nat
    BY <1>2, <1>4
  <2> QED
    BY <2>2, <2>3 DEF n, m, w, clients
<1>9. CASE clients > 0
  <2> DEFINE r == offered % w
  <2>1. w \in Nat \ {0} /\ m = offered \div w
    BY <1>5, <1>9
  <2> HIDE DEF offered
  <2>2. r \in 0 .. w - 1 /\ offered = w * m + r
    BY <1>6, <2>1, DivMod
  <2>3. w * (m + 1) = w * m + w /\ w * m \in Nat
    BY <1>4, <2>1
  <2> HIDE DEF r
  <2>4. offered <= w * (m + 1)
    BY <2>1, <2>2, <2>3
  <2>5. n * clients * Scale <= w * (m + 1)
    BY <1>6, <1>7, <2>3, <2>4, <2>1
  <2> QED
    BY <2>5 DEF n, m, w, clients
<1> QED
  BY <1>2, <1>8, <1>9

\* The lcores together offer no more than the rate of option -r, whatever the counts
\* and the rate are, as far as the truncation of the mean interval allows.
THEOREM OffersTxRateCorrect == Spec => []OffersTxRate
<1>1. TypeInv /\ ChecksInv => OffersTxRate
  BY RateOfPolling
<1> QED
  BY <1>1, ChecksCorrect, PTL

=============================================================================
