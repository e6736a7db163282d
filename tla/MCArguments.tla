---------------------------- MODULE MCArguments ----------------------------
EXTENDS Arguments, TLC

Assign(k, v)  == [hash |-> FALSE, eq |-> TRUE, key |-> k, value |-> v]
Comment(k, v) == [hash |-> TRUE, eq |-> TRUE, key |-> k, value |-> v]
Text          == [hash |-> FALSE, eq |-> FALSE, key |-> "", value |-> ""]

Db(records) == <<Assign("workload", "rocksdb"), Assign("recordcount", records)>>

\* At the bounds of the generators: too few items and just enough, ranges that are empty,
\* no operation at all, and a table none of whose records is ever drawn.
NarrowFiles ==
  [zipf1  |-> Db("1") \o <<Assign("requestdistribution", "zipfian"), Assign("operationcount", "3")>>,
   zipf7  |-> Db("1") \o <<Assign("requestdistribution", "zipfian"), Assign("operationcount", "3"),
                           Assign("insertproportion", "1")>>,
   late2  |-> Db("2") \o <<Assign("requestdistribution", "latest")>>,
   late3  |-> Db("3") \o <<Assign("requestdistribution", "latest")>>,
   field1 |-> Db("3") \o <<Assign("field_len_dist", "zipfian"), Assign("fieldlength", "1")>>,
   field0 |-> Db("3") \o <<Assign("field_len_dist", "uniform"), Assign("fieldlength", "0")>>,
   scan1  |-> Db("3") \o <<Assign("scanlengthdistribution", "zipfian"), Assign("maxscanlength", "1")>>,
   scan0  |-> Db("3") \o <<Assign("maxscanlength", "0")>>,
   idle   |-> Db("3") \o <<Assign("readproportion", "0")>>,
   writes |-> Db("3") \o <<Assign("readproportion", "0"), Assign("updateproportion", "1")>>,
   range  |-> <<Assign("service_time_dist", "uniform"), Assign("service_time_arg1", "3"),
                Assign("service_time_arg2", "2")>>]

SomeFiles ==
  [syn   |-> <<Assign("payload_len", "128"), Text, Comment("payload_len", "long")>>,
   noLen |-> <<Assign("payload_len", "long")>>,
   noRun |-> <<Assign("runtime", "long")>>,
   noArg |-> <<Assign("service_time_arg1", "long")>>,
   noGen |-> <<Assign("service_time_dist", "pareto")>>,
   noWl  |-> <<Assign("workload", "redis")>>,
   db    |-> <<Assign("workload", "rocksdb"), Assign("recordcount", "128"),
               Assign("requestdistribution", "zipfian"), Assign("operationcount", "3")>>,
   noOps |-> <<Assign("workload", "rocksdb"), Assign("recordcount", "128"),
               Assign("requestdistribution", "zipfian")>>,
   noRec |-> <<Assign("workload", "rocksdb")>>] @@ NarrowFiles

\* The smallest one, see the module MCDbKeys.
EndlessTables == {<<1, 6>>}

SomeNumerals == ("0" :> 0) @@ ("1" :> 1) @@ ("2" :> 2) @@ ("3" :> 3) @@ ("128" :> 128)
                  @@ ("65538" :> 65538)

Counts(c, f, r) == <<[opt |-> "c", arg |-> c], [opt |-> "f", arg |-> f], [opt |-> "r", arg |-> r]>>
Client(l)       == <<[opt |-> "l", arg |-> l]>>
File(p)         == <<[opt |-> "p", arg |-> p]>>
Other(opt)      == <<[opt |-> opt, arg |-> ""]>>

\* Each file alone and after another one, each kind of option, and counts that are
\* missing or given twice, wrap, are no number, are too few for the lcores or too many
\* for the arrays, or give an interval that is 0 or does not fit.
SomeCommandLines ==
  {Client("shinjuku") \o Counts("2", "1", "3") \o File(p) : p \in DOMAIN SomeFiles \cup {"lost"}}
    \cup {Counts("2", "2", "3") \o File(p) \o Client("pkvs") \o File(q) :
            p \in {"syn", "noLen"}, q \in {"syn", "noLen", "db"}}
    \cup {Client("dummy") \o Counts(c, f, r) :
            c \in {"2", "65538"}, f \in {"0", "2", "many"}, r \in {"0", "1", "3", "128"}}
    \cup {Counts("2", "1", "1") \o rest :
            rest \in {Other("h"), Other("x"), Client("http"), <<>>,
                      Other("crc-strip") \o Client("pkvs")}}
    \cup {Client("pkvs") \o rest :
            rest \in {<<>>, Counts("1", "1", "1"), Counts("1", "0", "1"), Counts("3", "2", "128"),
                      Counts("1", "1", "1") \o Counts("3", "1", "2"), Counts("128", "1", "128"),
                      Counts("2", "128", "128")}}
=============================================================================
