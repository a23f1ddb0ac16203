---------------------------- MODULE MCDocuments ----------------------------
EXTENDS Documents

MCDigests == {"digest", "digest2"}

\* One value of every type, and for each of its fields the other values.
RECURSIVE Sample(_)
Sample(t) ==
  CASE t \in DOMAIN Writers ->
         [name \in {Writers[t][i][2] : i \in DOMAIN Writers[t]} |->
            Sample(Writers[t][CHOOSE i \in DOMAIN Writers[t] : Writers[t][i][2] = name][1])]
    [] t \in DOMAIN Optional -> Sample(Optional[t])
    [] t \in DOMAIN ListOf -> <<Sample(ListOf[t])>>
    [] t = "breakout" -> "None"
    [] t \in DOMAIN Enumerations \ {"breakout"} -> Enumerations[t][Len(Enumerations[t])]
    [] t = "bool" -> TRUE
    [] t \in {"rate", "rate0"} -> 25000000
    [] t \in {"mtu", "mtu0"} -> 1500
    [] t \in {"u8", "u16", "u32", "u64"} -> 1
    [] t = "hex" -> "digest"
    [] OTHER -> t

RECURSIVE Others(_, _)
Others(t, v) ==
  CASE t \in DOMAIN Writers ->
         UNION {{[v EXCEPT ![Writers[t][i][2]] = x] :
                   x \in Others(Writers[t][i][1], v[Writers[t][i][2]])} : i \in DOMAIN Writers[t]}
    [] t \in DOMAIN Optional -> {Absent} \cup Others(Optional[t], v)
    [] t \in DOMAIN ListOf ->
         {<< >>, v \o v, v \o v \o v} \cup {<<x>> : x \in Others(ListOf[t], v[1])}
           \cup {<<v[1], x>> : x \in Others(ListOf[t], v[1])}
    [] t \in DOMAIN Enumerations -> ToSet(Enumerations[t]) \ {v}
    [] t = "bool" -> {FALSE}
    [] t = "rate" -> {MinRate, MaxRate}
    [] t = "rate0" -> {0, MaxRate}
    [] t = "mtu" -> {MinMtu, MaxMtu}
    [] t = "mtu0" -> {0, MaxMtu}
    [] t \in {"u8", "u16", "u32", "u64"} -> {0, 2}
    [] t = "hex" -> {"digest2"}
    [] OTHER -> {"", "other", "overlong"}

MCKinds == {"state", "outcome", "hello", "hello_ack", "register_publisher", "fence", "mutation",
            "query", "query_response"}
MCTemplates == [k \in MCKinds |-> Sample(k)]
MCValues == [k \in MCKinds |-> {Sample(k)} \cup Others(k, Sample(k))]
MCUnitValues ==
  [u8 |-> {0, 1, 2, 200}, u16 |-> {1, 2}, u32 |-> {0, 1, 17, MaxMtu + 1},
   u64 |-> {0, 1, 2, MaxRate + 1}, text |-> {"", "other", "malformed", "overlong"}]
=============================================================================
