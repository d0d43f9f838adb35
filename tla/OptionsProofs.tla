--------------------------- MODULE OptionsProofs ---------------------------
(***************************************************************************)
(* What every URL makes of the options: when it is refused, which pair of  *)
(* its query an option comes from, that the options mean what the URL      *)
(* spells out, and that each is of the type of its field.                  *)
(*                                                                         *)
(* The loop of set_params is a recursive function.  That one exists, and   *)
(* what it gives after any number of pairs (After), is shown by induction  *)
(* over the pairs: a smallest number that fails would not be 0 and would   *)
(* follow one that does not fail.                                          *)
(***************************************************************************)
EXTENDS Options, WellFoundedInduction, TLAPS

-----------------------------------------------------------------------------
(* Induction, and the loop of set_params                                   *)

(* A set of numbers that is not empty has a smallest one.                  *)
LEMMA Smallest ==
  ASSUME NEW T \in SUBSET Nat, T # {}
  PROVE  \E n \in T : \A m \in T : n <= m
<1>1. IsWellFoundedOn(OpToRel(<, Nat), Nat)
  BY NatLessThanWellFounded
<1>2. PICK n \in T : \A m \in T : <<m, n>> \notin OpToRel(<, Nat)
  BY <1>1, WFMin
<1>3. \A m \in T : ~(m < n)
  BY <1>2 DEF OpToRel
<1> QED
  BY <1>3

(* A set of numbers that has 0 and every successor has all of them.        *)
LEMMA Induction ==
  ASSUME NEW T, 0 \in T, \A n \in Nat : n \in T => n + 1 \in T
  PROVE  Nat \subseteq T
<1> SUFFICES ASSUME Nat \ T # {} PROVE FALSE
  OBVIOUS
<1>1. PICK n \in Nat \ T : \A m \in Nat \ T : n <= m
  BY Smallest
<1>2. n # 0 /\ n - 1 \in Nat /\ n - 1 \in T
  BY <1>1
<1> QED
  BY <1>1, <1>2

(* The equation of the loop of set_params.                                 *)
Turn(options, query, f, i) ==
  IF i = 0 THEN options ELSE set_param(f[i - 1], query[i])

(* set_params runs its loop: the options after every pair.                 *)
LEMMA Turns ==
  ASSUME NEW options, NEW V, NEW query \in Seq(V), NEW m \in 0..Len(query)
  PROVE  \E f : f = [i \in 0..m |-> Turn(options, query, f, i)]
<1> DEFINE Runs(n, f) == f = [i \in 0..n |-> Turn(options, query, f, i)]
           Exists(n) == \E f : Runs(n, f)
           Good == {n \in Nat : n <= Len(query) => Exists(n)}
<1>1. 0 \in Good
  <2>1. Runs(0, [i \in 0..0 |-> options])
    BY DEF Turn
  <2> QED
    BY <2>1
<1>2. ASSUME NEW n \in Nat, n \in Good PROVE n + 1 \in Good
  <2>1. ASSUME n + 1 <= Len(query) PROVE Exists(n + 1)
    <3>1. n <= Len(query) /\ n + 1 # 0
      BY <2>1
    <3>2. PICK f : Runs(n, f)
      BY <1>2, <3>1
    <3> DEFINE g == [i \in 0..n + 1 |-> Turn(options, query, f, i)]
    <3>3. ASSUME NEW i \in 0..n + 1
          PROVE  Turn(options, query, g, i) = Turn(options, query, f, i)
      <4>1. CASE i = 0
        BY <4>1 DEF Turn
      <4>2. CASE i # 0
        <5>1. i - 1 \in 0..n /\ i - 1 \in 0..n + 1
          BY <4>2
        <5>2. g[i - 1] = Turn(options, query, f, i - 1)
          BY <5>1
        <5>3. f[i - 1] = Turn(options, query, f, i - 1)
          BY <3>2, <5>1
        <5> QED
          BY <5>2, <5>3 DEF Turn
      <4> QED
        BY <4>1, <4>2
    <3>4. Runs(n + 1, g)
      BY <3>3
    <3> QED
      BY <3>4
  <2> QED
    <3> HIDE DEF Exists
    <3> QED
      BY <2>1
<1>3. Nat \subseteq Good
  <2> HIDE DEF Good
  <2> QED
    BY <1>1, <1>2, Induction
<1> QED
  BY <1>3

(* What set_params returns is what its last turn leaves.                   *)
LEMMA SetParamsTurns ==
  ASSUME NEW options, NEW V, NEW query \in Seq(V)
  PROVE  \E f : /\ set_params(options, query) = f[Len(query)] /\ f[0] = options
                /\ \A i \in 1..Len(query) : f[i] = set_param(f[i - 1], query[i])
<1> DEFINE n == Len(query)
           Runs(f) == f = [i \in 0..n |-> IF i = 0 THEN options ELSE set_param(f[i - 1], query[i])]
           g == CHOOSE f : Runs(f)
<1>1. n \in 0..Len(query)
  OBVIOUS
<1>2. \E f : Runs(f)
  <2>1. PICK f : f = [i \in 0..n |-> Turn(options, query, f, i)]
    BY <1>1, Turns
  <2>2. Runs(f)
    BY <2>1 DEF Turn
  <2> QED
    BY <2>2
<1>3. Runs(g)
  <2> HIDE DEF Runs
  <2> QED
    BY <1>2
<1>4. set_params(options, query) = g[n]
  BY DEF set_params
<1> HIDE DEF g
<1>5. \A i \in 0..n : g[i] = IF i = 0 THEN options ELSE set_param(g[i - 1], query[i])
  BY <1>3
<1>6. 0 \in 0..n /\ \A i \in 1..n : i \in 0..n /\ i # 0
  BY <1>1
<1>7. g[0] = options /\ \A i \in 1..n : g[i] = set_param(g[i - 1], query[i])
  BY <1>5, <1>6
<1> QED
  BY <1>4, <1>7

-----------------------------------------------------------------------------
(* The first n pairs of a query: whether one is wrong, which is the last   *)
(* of its name, and which names are not options.                           *)
WrongBy(query, n) ==
  \E j \in 1..n : query[j][1] \in Keys /\ Wrong(parse_param(query[j][1], query[j][2]))
LastBy(query, n, j) == \A m \in j + 1..n : query[m][1] # query[j][1]
SettingsBy(query, n) == {query[j][1] : j \in {j \in 1..n : query[j][1] \notin Keys}}
Setting(text) == [kind |-> "String", value |-> text, important |-> 1]

(* The options x after n pairs: every option and every setting is as the   *)
(* last pair of its name says, and as it was when there is none.           *)
After(options, query, n, x) ==
  /\ x = [key \in DOMAIN options |-> x[key]]
  /\ \A key \in DOMAIN options \ (Keys \cup {"settings"}) : x[key] = options[key]
  /\ \A key \in Keys :
       /\ (\A j \in 1..n : query[j][1] # key) => x[key] = options[key]
       /\ \A j \in 1..n : query[j][1] = key /\ LastBy(query, n, j) =>
            parse_param(key, query[j][2]) = Ok(x[key])
  /\ x.settings = [name \in DOMAIN options.settings \cup SettingsBy(query, n) |-> x.settings[name]]
  /\ \A name \in DOMAIN x.settings :
       /\ (\A j \in 1..n : query[j][1] # name) => x.settings[name] = options.settings[name]
       /\ \A j \in 1..n : query[j][1] = name /\ LastBy(query, n, j) =>
            x.settings[name] = Setting(query[j][2])

(* An object that has settings is not an error.                            *)
LEMMA NotWrong ==
  ASSUME NEW x, "settings" \in DOMAIN x
  PROVE  ~Wrong(x)
<1>1. DOMAIN UrlError = {"err"}
  BY DEF UrlError
<1> QED
  BY <1>1 DEF Wrong

(* Which parser reads the value of which option.                           *)
LEMMA ParserOf ==
  ASSUME NEW key \in Keys, NEW text
  PROVE  LET source == percent_decode_value(text)
         IN  /\ key \in Counts => parse_param(key, text) = usize_from_str(source)
             /\ key \in Switches => parse_param(key, text) = bool_from_str(source)
             /\ key \in Durations => parse_param(key, text) = parse_duration(source)
             /\ key \in OptDurations => parse_param(key, text) = parse_opt_duration(source)
             /\ key = "compression" => parse_param(key, text) = parse_compression(source)
             /\ key = "alt_hosts" => parse_param(key, text) = parse_hosts(source)
<1>1. /\ key \in Switches => key \notin Counts
      /\ key \in Durations => key \notin Counts \cup Switches
      /\ key \in OptDurations => key \notin Counts \cup Switches \cup Durations
      /\ key \in {"compression", "alt_hosts"} =>
            key \notin Counts \cup Switches \cup Durations \cup OptDurations
  BY DEF Counts, Switches, Durations, OptDurations
<1> QED
  BY <1>1 DEF parse_param

(* A parser returns an error, or what it has parsed.                       *)
LEMMA Parsed ==
  ASSUME NEW key \in Keys, NEW text, ~Wrong(parse_param(key, text))
  PROVE  parse_param(key, text) = Ok(parse_param(key, text).ok)
<1> DEFINE Parses(x) == x = UrlError \/ \E v : x = Ok(v)
           source == percent_decode_value(text)
<1>1. Parses(usize_from_str(source)) /\ Parses(bool_from_str(source)) /\ Parses(parse_compression(source))
  BY DEF usize_from_str, bool_from_str, parse_compression
<1>2. Parses(parse_duration(source))
  BY DEF parse_duration
<1>3. Parses(parse_opt_duration(source))
  BY <1>2 DEF parse_opt_duration
<1>4. Parses(parse_hosts(source))
  BY DEF parse_hosts
<1>5. Parses(parse_param(key, text))
  <2> HIDE DEF Parses
  <2> QED
    BY <1>1, <1>2, <1>3, <1>4, ParserOf DEF Keys
<1> QED
  BY <1>5 DEF Wrong, Ok

(* A pair that is no option is the last of its name among the settings.    *)
LEMMA TurnSetting ==
  ASSUME NEW options, NEW V, NEW query \in Seq(V), NEW n \in 0..Len(query) - 1,
         Keys \cup {"settings"} \subseteq DOMAIN options,
         NEW x, After(options, query, n, x), query[n + 1][1] \notin Keys
  PROVE  After(options, query, n + 1, set_param(x, query[n + 1]))
<1> DEFINE param == query[n + 1]
           y == with_setting(x, param[1], "String", param[2], 1)
           added == [name \in DOMAIN x.settings \cup {param[1]} |->
                       IF name = param[1] THEN Setting(param[2]) ELSE x.settings[name]]
<1>1. "settings" \notin Keys
  BY DEF Keys, Counts, Switches, Durations, OptDurations
<1>2. DOMAIN x = DOMAIN options /\ "settings" \in DOMAIN x
  BY DEF After
<1>3. set_param(x, param) = y
  BY <1>2, NotWrong DEF set_param
<1>4. y = [x EXCEPT !.settings = added]
  BY DEF with_setting, Setting
<1>5. /\ y = [key \in DOMAIN options |-> y[key]] /\ y.settings = added
      /\ \A key \in DOMAIN options \ {"settings"} : y[key] = x[key]
  BY <1>2, <1>4 DEF After
<1>6. /\ added = [name \in {param[1]} \cup DOMAIN x.settings |-> added[name]]
      /\ DOMAIN added = {param[1]} \cup DOMAIN x.settings
      /\ added[param[1]] = Setting(param[2])
      /\ \A name \in DOMAIN x.settings \ {param[1]} : added[name] = x.settings[name]
  OBVIOUS
<1>7. n \in Nat /\ \A j \in 1..n + 1 : j \in 1..n \/ j = n + 1
  OBVIOUS
<1> HIDE DEF y, added
<1>8. ASSUME NEW key \in Keys
      PROVE  /\ y[key] = x[key]
             /\ (\A j \in 1..n + 1 : query[j][1] # key) => \A j \in 1..n : query[j][1] # key
             /\ \A j \in 1..n + 1 : query[j][1] = key /\ LastBy(query, n + 1, j) =>
                  j \in 1..n /\ LastBy(query, n, j)
  <2>1. key # param[1] /\ y[key] = x[key]
    BY <1>1, <1>5
  <2> QED
    BY <1>7, <2>1 DEF LastBy
<1>9. SettingsBy(query, n + 1) = SettingsBy(query, n) \cup {param[1]}
  BY <1>7 DEF SettingsBy
<1>10. ASSUME NEW name \in DOMAIN added
       PROVE  /\ (\A j \in 1..n + 1 : query[j][1] # name) => added[name] = options.settings[name]
              /\ \A j \in 1..n + 1 : query[j][1] = name /\ LastBy(query, n + 1, j) =>
                   added[name] = Setting(query[j][2])
  <2>1. CASE name = param[1]
    <3>1. ASSUME NEW j \in 1..n + 1, LastBy(query, n + 1, j), query[j][1] = name
          PROVE  j = n + 1
      BY <1>7, <2>1, <3>1 DEF LastBy
    <3> QED
      BY <1>6, <1>7, <2>1, <3>1
  <2>2. CASE name # param[1]
    <3>1. name \in DOMAIN x.settings /\ added[name] = x.settings[name]
      BY <1>6, <2>2
    <3>2. \A j \in 1..n + 1 : query[j][1] = name /\ LastBy(query, n + 1, j) =>
             j \in 1..n /\ LastBy(query, n, j)
      BY <1>7, <2>2 DEF LastBy
    <3>3. /\ (\A j \in 1..n : query[j][1] # name) => x.settings[name] = options.settings[name]
          /\ \A j \in 1..n : query[j][1] = name /\ LastBy(query, n, j) =>
               x.settings[name] = Setting(query[j][2])
      BY <3>1 DEF After
    <3> QED
      BY <1>7, <3>1, <3>2, <3>3
  <2> QED
    BY <2>1, <2>2
<1>11. added = [name \in DOMAIN options.settings \cup SettingsBy(query, n + 1) |-> added[name]]
  <2>1. DOMAIN x.settings = DOMAIN options.settings \cup SettingsBy(query, n)
    BY DEF After
  <2> QED
    BY <1>6, <1>9, <2>1
<1>12. ASSUME NEW key \in Keys
       PROVE  /\ (\A j \in 1..n + 1 : query[j][1] # key) => y[key] = options[key]
              /\ \A j \in 1..n + 1 : query[j][1] = key /\ LastBy(query, n + 1, j) =>
                   parse_param(key, query[j][2]) = Ok(y[key])
  <2>1. /\ (\A j \in 1..n : query[j][1] # key) => x[key] = options[key]
        /\ \A j \in 1..n : query[j][1] = key /\ LastBy(query, n, j) =>
             parse_param(key, query[j][2]) = Ok(x[key])
    BY DEF After
  <2> QED
    BY <1>8, <2>1
<1>13. \A key \in DOMAIN options \ (Keys \cup {"settings"}) : y[key] = options[key]
  BY <1>5 DEF After
<1>14. After(options, query, n + 1, y)
  BY <1>5, <1>10, <1>11, <1>12, <1>13 DEF After
<1> QED
  BY <1>3, <1>14

(* A pair that is an option gives it a value, and nothing else.            *)
LEMMA TurnOption ==
  ASSUME NEW options, NEW V, NEW query \in Seq(V), NEW n \in 0..Len(query) - 1,
         Keys \cup {"settings"} \subseteq DOMAIN options, DOMAIN options.settings \cap Keys = {},
         NEW x, After(options, query, n, x), query[n + 1][1] \in Keys,
         ~Wrong(parse_param(query[n + 1][1], query[n + 1][2]))
  PROVE  After(options, query, n + 1, set_param(x, query[n + 1]))
<1> DEFINE param == query[n + 1]
           got == parse_param(param[1], param[2])
           y == [x EXCEPT ![param[1]] = got.ok]
<1>1. "settings" \notin Keys
  BY DEF Keys, Counts, Switches, Durations, OptDurations
<1>2. DOMAIN x = DOMAIN options /\ "settings" \in DOMAIN x
  BY DEF After
<1>3. set_param(x, param) = y
  BY <1>2, NotWrong DEF set_param
<1>4. got = Ok(got.ok)
  BY Parsed
<1>5. /\ y = [key \in DOMAIN options |-> y[key]] /\ y.settings = x.settings
      /\ y[param[1]] = got.ok
      /\ \A key \in DOMAIN options \ {param[1]} : y[key] = x[key]
  BY <1>1, <1>2 DEF After
<1>6. n \in Nat /\ \A j \in 1..n + 1 : j \in 1..n \/ j = n + 1
  OBVIOUS
<1> HIDE DEF y
<1>7. ASSUME NEW key \in Keys
      PROVE  /\ (\A j \in 1..n + 1 : query[j][1] # key) => y[key] = options[key]
             /\ \A j \in 1..n + 1 : query[j][1] = key /\ LastBy(query, n + 1, j) =>
                  parse_param(key, query[j][2]) = Ok(y[key])
  <2>1. CASE key = param[1]
    <3>1. ASSUME NEW j \in 1..n + 1, LastBy(query, n + 1, j), query[j][1] = key
          PROVE  j = n + 1
      BY <1>6, <2>1, <3>1 DEF LastBy
    <3> QED
      BY <1>4, <1>5, <1>6, <2>1, <3>1
  <2>2. CASE key # param[1]
    <3>1. y[key] = x[key]
      BY <1>5, <2>2
    <3>2. \A j \in 1..n + 1 : query[j][1] = key /\ LastBy(query, n + 1, j) =>
             j \in 1..n /\ LastBy(query, n, j)
      BY <1>6, <2>2 DEF LastBy
    <3>3. /\ (\A j \in 1..n : query[j][1] # key) => x[key] = options[key]
          /\ \A j \in 1..n : query[j][1] = key /\ LastBy(query, n, j) =>
               parse_param(key, query[j][2]) = Ok(x[key])
      BY DEF After
    <3> QED
      BY <1>6, <3>1, <3>2, <3>3
  <2> QED
    BY <2>1, <2>2
<1>8. SettingsBy(query, n + 1) = SettingsBy(query, n)
  BY <1>6 DEF SettingsBy
<1>9. ASSUME NEW name \in DOMAIN y.settings
      PROVE  /\ (\A j \in 1..n + 1 : query[j][1] # name) => y.settings[name] = options.settings[name]
             /\ \A j \in 1..n + 1 : query[j][1] = name /\ LastBy(query, n + 1, j) =>
                  y.settings[name] = Setting(query[j][2])
  <2>1. /\ (\A j \in 1..n : query[j][1] # name) => x.settings[name] = options.settings[name]
        /\ \A j \in 1..n : query[j][1] = name /\ LastBy(query, n, j) =>
             x.settings[name] = Setting(query[j][2])
    BY <1>5 DEF After
  <2>2. \A j \in 1..n : LastBy(query, n + 1, j) => LastBy(query, n, j)
    BY <1>6 DEF LastBy
  <2>3. name # param[1]
    <3>1. name \in DOMAIN options.settings \cup SettingsBy(query, n)
      BY <1>5 DEF After
    <3>2. \A other \in SettingsBy(query, n) : other \notin Keys
      BY DEF SettingsBy
    <3> QED
      BY <3>1, <3>2
  <2> QED
    BY <1>5, <1>6, <2>1, <2>2, <2>3
<1>10. y.settings = [name \in DOMAIN options.settings \cup SettingsBy(query, n + 1) |-> y.settings[name]]
  BY <1>5, <1>8 DEF After
<1>11. \A key \in DOMAIN options \ (Keys \cup {"settings"}) : y[key] = options[key]
  BY <1>5 DEF After
<1>12. After(options, query, n + 1, y)
  BY <1>5, <1>7, <1>9, <1>10, <1>11 DEF After
<1> QED
  BY <1>3, <1>12

(* set_params() for a whole query.                                         *)
LEMMA SetParams ==
  ASSUME NEW options, NEW V, NEW query \in Seq(V),
         Keys \cup {"settings"} \subseteq DOMAIN options, DOMAIN options.settings \cap Keys = {},
         options = [key \in DOMAIN options |-> options[key]],
         options.settings = [name \in DOMAIN options.settings |-> options.settings[name]]
  PROVE  IF WrongBy(query, Len(query)) THEN set_params(options, query) = UrlError
         ELSE After(options, query, Len(query), set_params(options, query))
<1>1. PICK f : /\ set_params(options, query) = f[Len(query)] /\ f[0] = options
               /\ \A i \in 1..Len(query) : f[i] = set_param(f[i - 1], query[i])
  BY SetParamsTurns
<1> DEFINE So(n) == IF WrongBy(query, n) THEN f[n] = UrlError ELSE After(options, query, n, f[n])
           Good == {n \in Nat : n <= Len(query) => So(n)}
<1>2. 0 \in Good
  <2>1. ~WrongBy(query, 0) /\ SettingsBy(query, 0) = {}
    BY DEF WrongBy, SettingsBy
  <2>2. After(options, query, 0, options)
    BY <2>1 DEF After
  <2> QED
    BY <1>1, <2>1, <2>2
<1>3. ASSUME NEW n \in Nat, n \in Good PROVE n + 1 \in Good
  <2> SUFFICES ASSUME n + 1 <= Len(query) PROVE So(n + 1)
    OBVIOUS
  <2>1. So(n) /\ n \in 0..Len(query) - 1 /\ n + 1 \in 1..Len(query)
    BY <1>3
  <2>2. f[n + 1] = set_param(f[n], query[n + 1])
    BY <1>1, <2>1
  <2> DEFINE wrong == query[n + 1][1] \in Keys /\ Wrong(parse_param(query[n + 1][1], query[n + 1][2]))
  <2>3. WrongBy(query, n + 1) <=> WrongBy(query, n) \/ wrong
    BY <2>1 DEF WrongBy
  <2>4. CASE WrongBy(query, n)
    <3>1. \A param : set_param(UrlError, param) = UrlError
      BY DEF set_param, Wrong
    <3> QED
      BY <2>1, <2>2, <2>3, <2>4, <3>1
  <2>5. CASE ~WrongBy(query, n) /\ wrong
    <3>1. ~Wrong(f[n])
      BY <2>1, <2>5, NotWrong DEF After
    <3>2. set_param(f[n], query[n + 1]) = UrlError
      BY <2>5, <3>1 DEF set_param
    <3> QED
      BY <2>2, <2>3, <2>5, <3>2
  <2>6. CASE ~WrongBy(query, n) /\ ~wrong
    <3>1. After(options, query, n, f[n])
      BY <2>1, <2>6
    <3>2. After(options, query, n + 1, set_param(f[n], query[n + 1]))
      BY <2>1, <2>6, <3>1, TurnSetting, TurnOption
    <3> QED
      BY <2>2, <2>3, <2>6, <3>2
  <2> QED
    BY <2>4, <2>5, <2>6
<1>4. Nat \subseteq Good
  <2> HIDE DEF Good
  <2> QED
    BY <1>2, <1>3, Induction
<1>5. So(Len(query))
  BY <1>4
<1> QED
  BY <1>1, <1>5

-----------------------------------------------------------------------------
(* The URLs: W is the set of words they are made of.                       *)
Ports         == Nat \cup {Absent}
Texts(W)      == Seq([piece : W, escaped : BOOLEAN])
HostLists(W)  == Seq([host : W, port : Ports \cup {BadPort}])
Numerals      == Nat \cup {TooLarge}
PlainTexts(W) == [digits : Numerals \cup {Absent}, rest : W]
                   \cup [digits : {Absent}, rest : {""}, hosts : HostLists(W)]
                   \cup [digits : {Absent}, rest : {"+"} \cap W, signed : Numerals]
ParamTexts(W) == PlainTexts(W) \cup [digits : {Absent}, rest : {"%"}, spells : PlainTexts(W)]
Urls(W) ==
  [scheme : W, username : Texts(W), password : Texts(W), host : W, port : Ports \cup {BadPort},
   path : Seq(Texts(W)), query : Seq(W \X ParamTexts(W))]

(* What is wrong with a URL but for its query.                             *)
WrongAddress(url) ==
  url.port = BadPort \/ url.scheme # "tcp" \/ url.host = "" \/ Len(url.path) > 1

(* The options before the query is looked at.                              *)
Base(url) ==
  [DefaultOptions EXCEPT
     !.username = Given(get_username_from_url(url), @),
     !.password = get_password_from_url(url),
     !.addr = Address(url.host, IF url.port = Absent THEN 9000 ELSE url.port),
     !.database = Given(get_database_from_url(url).ok, @)]

(* An empty path and one segment are no error.                             *)
LEMMA DatabaseOf ==
  ASSUME NEW W, NEW url \in Urls(W)
  PROVE  /\ Wrong(get_database_from_url(url)) <=> Len(url.path) > 1
         /\ url.path = <<>> => get_database_from_url(url).ok = <<>>
         /\ Len(url.path) = 1 => get_database_from_url(url).ok = url.path[1]
<1> DEFINE n == Len(url.path)
<1>1. n \in Nat /\ (url.path = <<>> <=> n = 0)
  <2>1. url.path \in Seq(Texts(W))
    BY DEF Urls
  <2>2. \A path \in Seq(Texts(W)) : Len(path) \in Nat /\ (path = <<>> <=> Len(path) = 0)
    OBVIOUS
  <2> QED
    BY <2>1, <2>2
<1>2. \A x : Ok(x).ok = x /\ ~Wrong(Ok(x))
  <2>1. \A x : DOMAIN Ok(x) = {"ok"} /\ DOMAIN UrlError = {"err"}
    BY DEF Ok, UrlError
  <2> QED
    BY <2>1 DEF Ok, Wrong
<1>3. /\ n > 1 => get_database_from_url(url) = UrlError
      /\ ~(n > 1) /\ url.path = <<>> => get_database_from_url(url) = Ok(<<>>)
      /\ ~(n > 1) /\ url.path # <<>> => get_database_from_url(url) = Ok(url.path[1])
  <2>1. get_database_from_url(url) = IF n > 1 THEN UrlError
                                     ELSE IF url.path = <<>> THEN Ok(<<>>) ELSE Ok(url.path[1])
    BY DEF get_database_from_url
  <2> QED
    BY <2>1
<1> HIDE DEF n
<1>4. (n > 1 <=> Wrong(get_database_from_url(url))) /\ (n = 1 => ~(n > 1) /\ n # 0)
  BY <1>1, <1>2, <1>3 DEF Wrong
<1>5. /\ url.path = <<>> => get_database_from_url(url).ok = <<>>
      /\ n = 1 => get_database_from_url(url).ok = url.path[1]
  BY <1>1, <1>2, <1>3
<1> QED
  BY <1>4, <1>5 DEF n

(* The defaults are what Base leaves of the options that have a key.       *)
LEMMA BaseOptions ==
  ASSUME NEW url
  PROVE  /\ Base(url) = [key \in DOMAIN Base(url) |-> Base(url)[key]]
         /\ DOMAIN Base(url) = DOMAIN DefaultOptions
         /\ Keys \cup {"settings"} \subseteq DOMAIN DefaultOptions
         /\ \A key \in Keys : Base(url)[key] = DefaultOptions[key]
         /\ Base(url).settings = <<>> /\ DOMAIN Base(url).settings = {}
         /\ {"username", "password", "database"} \subseteq DOMAIN DefaultOptions \ (Keys \cup {"settings"})
         /\ Base(url).username = Given(get_username_from_url(url), DefaultOptions.username)
         /\ Base(url).password = get_password_from_url(url)
         /\ Base(url).database = Given(get_database_from_url(url).ok, DefaultOptions.database)
<1>1. {"username", "password", "addr", "database"} \subseteq DOMAIN DefaultOptions
  BY DEF DefaultOptions
<1>2. Keys \cup {"settings"} \subseteq DOMAIN DefaultOptions
  BY DEF DefaultOptions, Keys, Counts, Switches, Durations, OptDurations
<1>3. {"username", "password", "addr", "database"} \cap (Keys \cup {"settings"}) = {}
  BY DEF Keys, Counts, Switches, Durations, OptDurations
<1>4. DefaultOptions.settings = <<>> /\ DOMAIN DefaultOptions.settings = {}
  <2>1. DefaultOptions.settings = <<>>
    BY DEF DefaultOptions
  <2> QED
    BY <2>1
<1>5. DefaultOptions = [key \in DOMAIN DefaultOptions |-> DefaultOptions[key]]
  BY DEF DefaultOptions
<1>6. /\ Base(url) = [key \in DOMAIN Base(url) |-> Base(url)[key]]
      /\ DOMAIN Base(url) = DOMAIN DefaultOptions
      /\ \A key \in DOMAIN DefaultOptions \ {"username", "password", "addr", "database"} :
           Base(url)[key] = DefaultOptions[key]
  <2> DEFINE a == Given(get_username_from_url(url), DefaultOptions.username)
             b == get_password_from_url(url)
             c == Address(url.host, IF url.port = Absent THEN 9000 ELSE url.port)
             d == Given(get_database_from_url(url).ok, DefaultOptions.database)
  <2>1. Base(url) = [DefaultOptions EXCEPT !.username = a, !.password = b, !.addr = c, !.database = d]
    BY DEF Base
  <2> HIDE DEF a, b, c, d
  <2> QED
    BY <1>5, <2>1
<1>7. /\ Base(url).username = Given(get_username_from_url(url), DefaultOptions.username)
      /\ Base(url).password = get_password_from_url(url)
      /\ Base(url).database = Given(get_database_from_url(url).ok, DefaultOptions.database)
  BY <1>1 DEF Base
<1>8. Base(url).settings = DefaultOptions.settings
  BY <1>2, <1>3, <1>6
<1>9. \A key \in Keys : Base(url)[key] = DefaultOptions[key]
  BY <1>2, <1>3, <1>6
<1> QED
  BY <1>1, <1>2, <1>3, <1>4, <1>6, <1>7, <1>8, <1>9

(* from_url: an error, or what the query makes of the base.                *)
LEMMA FromUrl ==
  ASSUME NEW W, NEW url \in Urls(W)
  PROVE  IF WrongAddress(url) \/ WrongBy(url.query, Len(url.query))
         THEN from_url(url) = UrlError
         ELSE After(Base(url), url.query, Len(url.query), from_url(url))
<1>1. url.query \in Seq(W \X ParamTexts(W))
  BY DEF Urls
<1>2. CASE WrongAddress(url)
  BY <1>2, DatabaseOf DEF from_url, WrongAddress
<1>3. CASE ~WrongAddress(url)
  <2>1. from_url(url) = set_params(Base(url), url.query)
    BY <1>3, DatabaseOf DEF from_url, WrongAddress, Base
  <2>2. /\ Keys \cup {"settings"} \subseteq DOMAIN Base(url)
        /\ DOMAIN Base(url).settings \cap Keys = {}
        /\ Base(url) = [key \in DOMAIN Base(url) |-> Base(url)[key]]
        /\ Base(url).settings = [name \in DOMAIN Base(url).settings |-> Base(url).settings[name]]
    BY BaseOptions
  <2> QED
    BY <1>1, <1>3, <2>1, <2>2, SetParams
<1> QED
  BY <1>2, <1>3

-----------------------------------------------------------------------------
(* A name that a query has is that of a last pair.                         *)
LEMMA LastOfName ==
  ASSUME NEW V, NEW query \in Seq(V), NEW name \in Names(query)
  PROVE  \E j \in 1..Len(query) : /\ query[j][1] = name /\ LastBy(query, Len(query), j)
                                 /\ LastPair(query, name) = query[j][2]
<1> DEFINE n == Len(query)
           Back == {k \in Nat : k < n /\ query[n - k][1] = name}
           IsLast(j) == j \in DOMAIN query /\ query[j][1] = name /\ \A m \in j + 1..n : query[m][1] # name
           last == CHOOSE j \in DOMAIN query :
                     query[j][1] = name /\ \A m \in j + 1..Len(query) : query[m][1] # name
<1>1. n \in Nat /\ DOMAIN query = 1..n
  OBVIOUS
<1>2. \E j \in 1..n : query[j][1] = name
  BY <1>1 DEF Names
<1>3. LastPair(query, name) = query[last][2]
  BY DEF LastPair
<1> HIDE DEF n
<1>4. Back # {}
  <2>1. PICK j \in 1..n : query[j][1] = name
    BY <1>2
  <2>2. n - j \in Nat /\ n - j < n /\ n - (n - j) = j
    BY <1>1, <2>1
  <2> QED
    BY <2>1, <2>2
<1>5. PICK k \in Back : \A m \in Back : k <= m
  BY <1>4, Smallest
<1>6. IsLast(n - k)
  <2>1. n - k \in 1..n /\ query[n - k][1] = name
    BY <1>1, <1>5
  <2>2. ASSUME NEW m \in n - k + 1..n, query[m][1] = name PROVE FALSE
    <3>1. n - m \in Nat /\ n - m < k /\ n - m < n /\ n - (n - m) = m /\ k \in Nat
      BY <1>1, <1>5, <2>2
    <3>2. n - m \in Back
      BY <2>2, <3>1
    <3> QED
      BY <1>5, <3>1, <3>2
  <2> QED
    BY <1>1, <2>1, <2>2
<1>7. IsLast(last)
  BY <1>6 DEF n
<1> HIDE DEF last
<1> QED
  BY <1>1, <1>3, <1>7 DEF n, LastBy

(* from_url() refuses a URL for what is wrong with it, wherever it stands: *)
(* its address, or any pair of an option, the later ones notwithstanding.  *)
THEOREM UrlRefused ==
  ASSUME NEW W, NEW url \in Urls(W)
  PROVE  Wrong(from_url(url)) <=>
           \/ WrongAddress(url)
           \/ \E i \in DOMAIN url.query :
                url.query[i][1] \in Keys /\ Wrong(parse_param(url.query[i][1], url.query[i][2]))
<1>1. DOMAIN url.query = 1..Len(url.query)
  BY DEF Urls
<1>2. ASSUME After(Base(url), url.query, Len(url.query), from_url(url))
      PROVE  ~Wrong(from_url(url))
  <2>1. "settings" \in DOMAIN from_url(url)
    BY <1>2, BaseOptions DEF After
  <2> QED
    BY <2>1, NotWrong
<1> QED
  BY <1>1, <1>2, FromUrl DEF WrongBy, Wrong

(* Otherwise an option is what the last pair of its name says, or the      *)
(* default; the names that are no options are the settings, each with the  *)
(* value of its last pair, and there are no others.                        *)
THEOREM UrlOptions ==
  ASSUME NEW W, NEW url \in Urls(W), ~Wrong(from_url(url))
  PROVE  /\ \A key \in Keys :
              IF key \in Names(url.query)
              THEN parse_param(key, LastPair(url.query, key)) = Ok(from_url(url)[key])
              ELSE from_url(url)[key] = DefaultOptions[key]
         /\ from_url(url).settings =
              [name \in Names(url.query) \ Keys |-> Setting(LastPair(url.query, name))]
<1> DEFINE query == url.query
           n == Len(query)
           x == from_url(url)
<1>1. query \in Seq(W \X ParamTexts(W)) /\ DOMAIN query = 1..n
  BY DEF Urls
<1>2. After(Base(url), query, n, x)
  BY FromUrl DEF Wrong
<1>3. \A name \in Names(query) :
        \E j \in 1..n : /\ query[j][1] = name /\ LastBy(query, n, j)
                       /\ LastPair(query, name) = query[j][2]
  BY <1>1, LastOfName
<1>4. \A name : name \notin Names(query) => \A j \in 1..n : query[j][1] # name
  BY <1>1 DEF Names
<1> HIDE DEF query, n, x
<1>5. ASSUME NEW key \in Keys
      PROVE  IF key \in Names(query) THEN parse_param(key, LastPair(query, key)) = Ok(x[key])
             ELSE x[key] = DefaultOptions[key]
  <2>1. Base(url)[key] = DefaultOptions[key]
    BY BaseOptions
  <2>2. /\ (\A j \in 1..n : query[j][1] # key) => x[key] = Base(url)[key]
        /\ \A j \in 1..n : query[j][1] = key /\ LastBy(query, n, j) =>
             parse_param(key, query[j][2]) = Ok(x[key])
    BY <1>2 DEF After
  <2> QED
    BY <1>3, <1>4, <2>1, <2>2
<1>6. SettingsBy(query, n) = Names(query) \ Keys
  BY <1>1 DEF SettingsBy, Names
<1>7. /\ x.settings = [name \in SettingsBy(query, n) |-> x.settings[name]]
      /\ \A name \in SettingsBy(query, n) :
           \A j \in 1..n : query[j][1] = name /\ LastBy(query, n, j) =>
             x.settings[name] = Setting(query[j][2])
  BY <1>2, BaseOptions DEF After
<1>8. \A name \in Names(query) \ Keys : x.settings[name] = Setting(LastPair(query, name))
  BY <1>3, <1>6, <1>7
<1>9. x.settings = [name \in Names(query) \ Keys |-> Setting(LastPair(query, name))]
  BY <1>6, <1>7, <1>8
<1> QED
  BY <1>5, <1>9 DEF query, x

(* Elements, lengths and emptiness of sequences.                           *)
LEMMA Elements ==
  ASSUME NEW T, NEW s \in Seq(T)
  PROVE  /\ \A i \in DOMAIN s : s[i] \in T
         /\ Len(s) \in Nat /\ (s = <<>> <=> Len(s) = 0)
         /\ Len(s) = 1 => s[1] \in T
OBVIOUS

(* A decoded text is the pieces of the text, none of them escaped.         *)
LEMMA Decoded ==
  ASSUME NEW W, NEW text \in Texts(W)
  PROVE  /\ percent_decode(text) = [i \in DOMAIN text |-> Plain(text[i].piece)[1]]
         /\ (\A i \in DOMAIN text : ~text[i].escaped) => text = percent_decode(text)
<1>1. \A i \in DOMAIN text : text[i] \in [piece : W, escaped : BOOLEAN]
  <2> DEFINE T == [piece : W, escaped : BOOLEAN]
  <2>1. text \in Seq(T)
    BY DEF Texts
  <2> HIDE DEF T
  <2>2. \A i \in DOMAIN text : text[i] \in T
    BY <2>1, Elements
  <2> QED
    BY <2>2 DEF T
<1>2. \A word : Plain(word)[1] = [piece |-> word, escaped |-> FALSE]
  BY DEF Plain
<1>3. percent_decode(text) = [i \in DOMAIN text |-> Plain(text[i].piece)[1]]
  BY <1>2 DEF percent_decode
<1>4. ASSUME \A i \in DOMAIN text : ~text[i].escaped
      PROVE  text = percent_decode(text)
  <2>1. \A i \in DOMAIN text : text[i] = [piece |-> text[i].piece, escaped |-> FALSE]
    <3>1. \A r \in [piece : W, escaped : BOOLEAN] :
            ~r.escaped => r = [piece |-> r.piece, escaped |-> FALSE]
      OBVIOUS
    <3> QED
      BY <1>1, <1>4, <3>1
  <2>2. text = [i \in DOMAIN text |-> text[i]]
    BY DEF Texts
  <2> QED
    BY <2>1, <2>2 DEF percent_decode
<1> QED
  BY <1>3, <1>4

(* What a URL says of an option has no escapes left when unescaped once.   *)
Once(url, key) ==
  key \in Names(url.query) => "spells" \notin DOMAIN LastPair(url.query, key)

(* The options say what the URL says: who the user is, decoded, which      *)
(* database, whether blocks are compressed and every setting.  A database  *)
(* is taken as it is written, so that one with an escape is not the one    *)
(* that the URL means; and an option is unescaped twice, so that one whose *)
(* text has escapes of its own is not either.                              *)
THEOREM UrlMeaning ==
  ASSUME NEW W, NEW url \in Urls(W), ~Wrong(from_url(url))
  PROVE  LET options == from_url(url)
             meant   == MeantBy(url)
         IN  /\ options.username = meant.user /\ options.password = meant.password
             /\ Once(url, "compression") => options.compression = meant.compress
             /\ [name \in DOMAIN options.settings |-> options.settings[name].value] = meant.settings
             /\ (url.path # <<>> => \A i \in DOMAIN url.path[1] : ~url.path[1][i].escaped) =>
                  options.database = meant.database
<1> DEFINE x == from_url(url)
<1>1. After(Base(url), url.query, Len(url.query), x)
  BY FromUrl DEF Wrong
<1>2. x.username = Base(url).username /\ x.password = Base(url).password /\ x.database = Base(url).database
  BY <1>1, BaseOptions DEF After
<1>3. x.username = MeantBy(url).user /\ x.password = MeantBy(url).password
  <2>1. url.username \in Texts(W) /\ url.password \in Texts(W)
    BY DEF Urls
  <2>2. DefaultOptions.username = Plain("default")
    BY DEF DefaultOptions
  <2>3. /\ percent_decode(url.username) = [i \in DOMAIN url.username |-> Plain(url.username[i].piece)[1]]
        /\ percent_decode(url.password) = [i \in DOMAIN url.password |-> Plain(url.password[i].piece)[1]]
    BY <2>1, Decoded
  <2> QED
    BY <1>2, <2>2, <2>3, BaseOptions
       DEF MeantBy, Spelled, Given, get_username_from_url, get_password_from_url
<1>4. ASSUME Once(url, "compression") PROVE x.compression = MeantBy(url).compress
  <2>1. "compression" \in Keys
    BY DEF Keys
  <2>2. DefaultOptions.compression = FALSE
    BY DEF DefaultOptions
  <2>3. \A text : "spells" \notin DOMAIN text =>
           parse_param("compression", text) = parse_compression(text)
    BY <2>1, ParserOf DEF percent_decode_value
  <2>4. \A text, b : parse_compression(text) = Ok(b) => b = (text = Word("lz4"))
    <3>1. \A b : Ok(b).ok = b /\ Ok(b) # UrlError
      <4>1. \A b : DOMAIN Ok(b) = {"ok"} /\ DOMAIN UrlError = {"err"}
        BY DEF Ok, UrlError
      <4> QED
        BY <4>1 DEF Ok
    <3> QED
      BY <3>1 DEF parse_compression
  <2> QED
    <3> DEFINE key == "compression"
               last == LastPair(url.query, key)
    <3>1. MeantBy(url).compress = (key \in Names(url.query) /\ last = Word("lz4"))
      BY DEF MeantBy
    <3>2. x.compression = x[key] /\ DefaultOptions[key] = FALSE
      BY <2>2
    <3>3. IF key \in Names(url.query) THEN parse_param(key, last) = Ok(x[key])
          ELSE x[key] = DefaultOptions[key]
      BY <2>1, UrlOptions
    <3>4. key \in Names(url.query) => x[key] = (last = Word("lz4"))
      BY <1>4, <2>3, <2>4, <3>3 DEF Once
    <3> QED
      BY <3>1, <3>2, <3>3, <3>4
<1>5. [name \in DOMAIN x.settings |-> x.settings[name].value] = MeantBy(url).settings
  <2>1. x.settings = [name \in Names(url.query) \ Keys |-> Setting(LastPair(url.query, name))]
    BY UrlOptions
  <2>2. \A text : Setting(text).value = text
    BY DEF Setting
  <2> QED
    BY <2>1, <2>2 DEF MeantBy
<1>6. ASSUME url.path # <<>> => \A i \in DOMAIN url.path[1] : ~url.path[1][i].escaped
      PROVE  x.database = MeantBy(url).database
  <2>1. DefaultOptions.database = Plain("default")
    BY DEF DefaultOptions
  <2>2. x.database = Spelled(get_database_from_url(url).ok, "default")
    BY <1>2, <2>1, BaseOptions DEF Spelled, Given
  <2>3. CASE url.path = <<>>
    BY <2>2, <2>3, DatabaseOf DEF MeantBy
  <2>4. CASE url.path # <<>>
    <3>1. ~WrongAddress(url)
      BY FromUrl DEF Wrong
    <3>2. Len(url.path) = 1 /\ url.path[1] \in Texts(W)
      <4>1. url.path \in Seq(Texts(W)) /\ ~(Len(url.path) > 1)
        BY <3>1 DEF Urls, WrongAddress
      <4>2. /\ Len(url.path) \in Nat /\ Len(url.path) # 0
            /\ Len(url.path) = 1 => url.path[1] \in Texts(W)
        BY <2>4, <4>1, Elements
      <4>3. \A n \in Nat : n # 0 /\ ~(n > 1) => n = 1
        OBVIOUS
      <4> QED
        BY <4>1, <4>2, <4>3
    <3>3. url.path[1] = [i \in DOMAIN url.path[1] |-> Plain(url.path[1][i].piece)[1]]
      BY <1>6, <2>4, <3>2, Decoded
    <3> QED
      BY <2>2, <2>4, <3>2, <3>3, DatabaseOf DEF MeantBy
  <2> QED
    BY <2>3, <2>4
<1> QED
  BY <1>3, <1>4, <1>5, <1>6

(* What the fields of Options hold, Absent for None.                       *)
TypedOptions(W, options) ==
  /\ \A key \in Counts \cup Durations : options[key] \in Nat
  /\ \A key \in OptDurations : options[key] \in Nat \cup {Absent}
  /\ \A key \in Switches \cup {"compression"} : options[key] \in BOOLEAN
  /\ options.alt_hosts \in Seq([host : W, port : Ports])

(* A list all of whose elements are of a narrower type is of that type.    *)
LEMMA Narrower ==
  ASSUME NEW V, NEW T, NEW s \in Seq(V),
         \A i \in DOMAIN s : s[i] \in T
  PROVE  s \in Seq(T)
OBVIOUS

(* Unescaping leaves a text without escapes: what a parser looks at.       *)
LEMMA Unescaped ==
  ASSUME NEW W, NEW text \in ParamTexts(W)
  PROVE  LET source == percent_decode_value(text)
         IN  /\ source \in PlainTexts(W)
             /\ source.digits \in Numerals \cup {Absent} /\ source.rest \in W \cup {""}
             /\ "hosts" \in DOMAIN source => source.hosts \in HostLists(W)
             /\ "hosts" \notin DOMAIN source => source.rest \in W
             /\ "signed" \in DOMAIN source => source.signed \in Numerals
<1> DEFINE Digits  == [digits : Numerals \cup {Absent}, rest : W]
           Listed  == [digits : {Absent}, rest : {""}, hosts : HostLists(W)]
           Sign    == [digits : {Absent}, rest : {"+"} \cap W, signed : Numerals]
           source  == percent_decode_value(text)
<1>1. /\ \A t \in Digits : DOMAIN t = {"digits", "rest"}
      /\ \A t \in Listed : DOMAIN t = {"digits", "rest", "hosts"}
      /\ \A t \in Sign : DOMAIN t = {"digits", "rest", "signed"}
  OBVIOUS
<1>2. source \in PlainTexts(W)
  <2>1. CASE text \in PlainTexts(W)
    <3>1. DOMAIN text \in {{"digits", "rest"}, {"digits", "rest", "hosts"}, {"digits", "rest", "signed"}}
      BY <1>1, <2>1 DEF PlainTexts
    <3>2. "spells" \notin DOMAIN text
      BY <3>1
    <3> QED
      BY <2>1, <3>2 DEF percent_decode_value
  <2>2. CASE text \in [digits : {Absent}, rest : {"%"}, spells : PlainTexts(W)]
    <3>1. "spells" \in DOMAIN text /\ text.spells \in PlainTexts(W)
      BY <2>2
    <3> QED
      BY <3>1 DEF percent_decode_value
  <2> QED
    BY <2>1, <2>2 DEF ParamTexts
<1> HIDE DEF source
<1>3. source \in Digits \/ source \in Listed \/ source \in Sign
  BY <1>2 DEF PlainTexts
<1>4. CASE source \in Digits
  <2>1. DOMAIN source = {"digits", "rest"}
    BY <1>1, <1>4
  <2> QED
    BY <1>2, <1>4, <2>1 DEF source
<1>5. CASE source \in Listed
  <2>1. DOMAIN source = {"digits", "rest", "hosts"}
    BY <1>1, <1>5
  <2> QED
    BY <1>2, <1>5, <2>1 DEF source
<1>6. CASE source \in Sign
  <2>1. DOMAIN source = {"digits", "rest", "signed"}
    BY <1>1, <1>6
  <2> QED
    BY <1>2, <1>6, <2>1 DEF source
<1> QED
  BY <1>3, <1>4, <1>5, <1>6

(* What a parser returns is of the type of its option.                     *)
LEMMA ParsedTypes ==
  ASSUME NEW W, NEW key \in Keys, NEW text \in ParamTexts(W), NEW v,
         parse_param(key, text) = Ok(v)
  PROVE  /\ key \in Counts \cup Durations => v \in Nat
         /\ key \in OptDurations => v \in Nat \cup {Absent}
         /\ key \in Switches \cup {"compression"} => v \in BOOLEAN
         /\ key = "alt_hosts" => v \in Seq([host : W, port : Ports])
<1>1. \A x : Ok(x).ok = x /\ Ok(x) # UrlError
  <2>1. \A x : DOMAIN Ok(x) = {"ok"} /\ DOMAIN UrlError = {"err"}
    BY DEF Ok, UrlError
  <2> QED
    BY <2>1 DEF Ok
<1> DEFINE source == percent_decode_value(text)
<1>2. /\ \A n \in Numerals \cup {Absent} : Within64(n) => n \in Nat
      /\ source.digits \in Numerals \cup {Absent}
      /\ "signed" \in DOMAIN source => source.signed \in Numerals
  BY Unescaped DEF Within64, Numerals
<1> HIDE DEF source
<1>3. usize_from_str(source) = Ok(v) => v \in Nat
  <2>1. \A n : Within64(n) /\ n \in Numerals \cup {Absent} => n \in Nat
    BY <1>2
  <2> DEFINE n == IF "signed" \in DOMAIN source THEN source.signed
                  ELSE IF source.rest = "" THEN source.digits ELSE Absent
  <2>2. n \in Numerals \cup {Absent}
    BY <1>2
  <2>3. usize_from_str(source) = IF Within64(n) THEN Ok(n) ELSE UrlError
    BY DEF usize_from_str
  <2> HIDE DEF n
  <2> QED
    BY <1>1, <2>1, <2>2, <2>3
<1>4. bool_from_str(source) = Ok(v) => v \in BOOLEAN
  <2>1. SUFFICES ASSUME bool_from_str(source) = Ok(v) PROVE v \in BOOLEAN
    OBVIOUS
  <2>2. bool_from_str(source) = UrlError \/ bool_from_str(source) = Ok(source.rest = "true")
    BY Zenon DEF bool_from_str
  <2>3. Ok(v).ok = Ok(source.rest = "true").ok
    BY <1>1, <2>1, <2>2
  <2>4. v = (source.rest = "true")
    BY <1>1, <2>3, Zenon
  <2> QED
    BY <2>4, Zenon
<1>5. parse_duration(source) = Ok(v) => v \in Nat
  <2>1. Within64(source.digits) => 1000 * source.digits \in Nat
    BY <1>2
  <2> QED
    BY <1>1, <1>2, <2>1 DEF parse_duration
<1>6. parse_opt_duration(source) = Ok(v) => v \in Nat \cup {Absent}
  BY <1>1, <1>5 DEF parse_opt_duration
<1>7. parse_compression(source) = Ok(v) => v \in BOOLEAN
  <2>1. SUFFICES ASSUME parse_compression(source) = Ok(v) PROVE v \in BOOLEAN
    OBVIOUS
  <2>2. \/ parse_compression(source) = UrlError
        \/ parse_compression(source) = Ok(source = Word("lz4"))
    BY Zenon DEF parse_compression
  <2>3. Ok(v).ok = Ok(source = Word("lz4")).ok
    BY <1>1, <2>1, <2>2
  <2>4. v = (source = Word("lz4"))
    BY <1>1, <2>3, Zenon
  <2> QED
    BY <2>4, Zenon
<1>8. parse_hosts(source) = Ok(v) => v \in Seq([host : W, port : Ports])
  <2>1. CASE "hosts" \notin DOMAIN source
    <3>1. source.rest \in W
      BY <2>1, Unescaped DEF source
    <3>2. Address(source.rest, Absent) \in [host : W, port : Ports]
      BY <3>1 DEF Address, Ports
    <3>3. parse_hosts(source) = Ok(<<Address(source.rest, Absent)>>)
      BY <2>1 DEF parse_hosts
    <3>4. \A T, a : a \in T => <<a>> \in Seq(T)
      OBVIOUS
    <3> QED
      BY <1>1, <3>2, <3>3, <3>4
  <2>2. CASE "hosts" \in DOMAIN source
    <3>1. source.hosts \in HostLists(W)
      BY <2>2, Unescaped DEF source
    <3>2. ASSUME \A i \in DOMAIN source.hosts : source.hosts[i].port # BadPort
          PROVE  source.hosts \in Seq([host : W, port : Ports])
      <4>1. source.hosts \in Seq([host : W, port : Ports \cup {BadPort}])
        BY <3>1 DEF HostLists
      <4>2. ASSUME NEW a \in [host : W, port : Ports \cup {BadPort}], a.port # BadPort
            PROVE  a \in [host : W, port : Ports]
        BY <4>2
      <4>3. ASSUME NEW i \in DOMAIN source.hosts
            PROVE  source.hosts[i] \in [host : W, port : Ports]
        <5>1. source.hosts[i] \in [host : W, port : Ports \cup {BadPort}]
          BY <4>1, Elements
        <5> QED
          BY <3>2, <4>2, <5>1
      <4> DEFINE Hosts  == source.hosts
                 Listed == [host : W, port : Ports \cup {BadPort}]
                 Whole  == [host : W, port : Ports]
      <4>4. Hosts \in Seq(Listed) /\ \A i \in DOMAIN Hosts : Hosts[i] \in Whole
        BY <4>1, <4>3
      <4> HIDE DEF Hosts, Listed, Whole
      <4>5. Hosts \in Seq(Whole)
        BY <4>4, Narrower
      <4> QED
        BY <4>5 DEF Hosts, Whole
    <3>3. parse_hosts(source) = IF \E i \in DOMAIN source.hosts : source.hosts[i].port = BadPort
                              THEN UrlError ELSE Ok(source.hosts)
      BY <2>2 DEF parse_hosts
    <3> QED
      BY <1>1, <3>2, <3>3
  <2> QED
    BY <2>1, <2>2
<1> QED
  BY <1>3, <1>4, <1>5, <1>6, <1>7, <1>8, ParserOf DEF source

(* The options of any URL are of the types of their fields.                *)
THEOREM UrlTypes ==
  ASSUME NEW W, NEW url \in Urls(W), ~Wrong(from_url(url))
  PROVE  TypedOptions(W, from_url(url))
<1> DEFINE x == from_url(url)
<1>1. TypedOptions(W, DefaultOptions)
  BY DEF TypedOptions, DefaultOptions, Counts, Switches, Durations, OptDurations
<1>2. ASSUME NEW key \in Keys, key \in Names(url.query)
      PROVE  \E text \in ParamTexts(W) : parse_param(key, text) = Ok(x[key])
  <2>1. url.query \in Seq(W \X ParamTexts(W))
    BY DEF Urls
  <2>2. PICK j \in 1..Len(url.query) : LastPair(url.query, key) = url.query[j][2]
    BY <1>2, <2>1, LastOfName
  <2>3. url.query[j][2] \in ParamTexts(W)
    BY <2>1, <2>2
  <2>4. parse_param(key, LastPair(url.query, key)) = Ok(x[key])
    BY <1>2, UrlOptions
  <2> QED
    BY <2>2, <2>3, <2>4
<1>3. ASSUME NEW key \in Keys, key \notin Names(url.query)
      PROVE  x[key] = DefaultOptions[key]
  BY <1>3, UrlOptions
<1> HIDE DEF x
<1>4. ASSUME NEW key \in Keys
      PROVE  /\ key \in Counts \cup Durations => x[key] \in Nat
             /\ key \in OptDurations => x[key] \in Nat \cup {Absent}
             /\ key \in Switches \cup {"compression"} => x[key] \in BOOLEAN
             /\ key = "alt_hosts" => x[key] \in Seq([host : W, port : Ports])
  <2>1. CASE key \in Names(url.query)
    BY <1>2, <2>1, ParsedTypes
  <2>2. CASE key \notin Names(url.query)
    BY <1>1, <1>3, <2>2 DEF TypedOptions
  <2> QED
    BY <2>1, <2>2
<1> QED
  BY <1>4 DEF TypedOptions, Keys, x

(* What opening a connection assumes of its options holds for every URL:   *)
(* a number of retries, and a list of other hosts.                         *)
THEOREM UrlSources ==
  ASSUME NEW W, NEW source \in [url : Urls(W)], ~Wrong(get(source))
  PROVE  /\ get(source).send_retries \in Nat /\ Len(get(source).alt_hosts) \in Nat
         /\ Len(pool_hosts(get(source))) = 1 + Len(get(source).alt_hosts)
<1>1. source.url \in Urls(W) /\ get(source) = from_url(source.url)
  BY DEF get
<1>2. TypedOptions(W, get(source))
  BY <1>1, UrlTypes
<1>3. get(source).send_retries \in Nat
  BY <1>2 DEF TypedOptions, Counts
<1>4. get(source).alt_hosts \in Seq([host : W, port : Ports])
  BY <1>2 DEF TypedOptions
<1>5. \A T : \A s \in Seq(T) : \A a : Len(s) \in Nat /\ Len(<<a>> \o s) = 1 + Len(s)
  OBVIOUS
<1>6. pool_hosts(get(source)) = <<get(source).addr>> \o get(source).alt_hosts
  BY DEF pool_hosts
<1> QED
  BY <1>3, <1>4, <1>5, <1>6
=============================================================================
