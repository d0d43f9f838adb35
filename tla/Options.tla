------------------------------ MODULE Options ------------------------------
(***************************************************************************)
(* How a connection is configured (src/types/options.rs): a URL, or        *)
(* options a program has built, of which the URL is parsed when the        *)
(* options are first needed.                                               *)
(*                                                                         *)
(* A URL is what the crate url makes of it: scheme, username, password,    *)
(* host, port, the segments of its path, and the pairs of its query.  The  *)
(* text of a user, a password or a database is a sequence of pieces, some  *)
(* of them escaped with percent signs.  The value of a pair, unescaped, is *)
(* the digits it begins with and the rest; a list of hosts, a number with  *)
(* a sign and a text that is still escaped say what they stand for.  Times *)
(* are in milliseconds.                                                    *)
(*                                                                         *)
(* An operator X_word is X with a mistake in it; it is used only to see    *)
(* that a property notices.                                                *)
(***************************************************************************)
EXTENDS Integers, Sequences, SequencesExt

Absent   == -1  \* no digits, no port, no timeout
BadPort  == -2  \* a port that is none
TooLarge == -3  \* a number of more than 64 bits

Plain(word)   == <<[piece |-> word, escaped |-> FALSE]>>
Percent(word) == <<[piece |-> word, escaped |-> TRUE]>>

Word(word)         == [digits |-> Absent, rest |-> word]
Number(n)          == [digits |-> n, rest |-> ""]
Quantity(n, unit)  == [digits |-> n, rest |-> unit]
HostList(hosts)    == [digits |-> Absent, rest |-> "", hosts |-> hosts]
Plus(n)            == [digits |-> Absent, rest |-> "+", signed |-> n]
EscapedTwice(text) == [digits |-> Absent, rest |-> "%", spells |-> text]

Address(host, port) == [host |-> host, port |-> port]

UrlError == [err |-> "Url"]
Ok(x)    == [ok |-> x]
Wrong(x) == x = UrlError

(* Options::default() *)
DefaultOptions ==
  [addr |-> Address("127.0.0.1", 9000), alt_hosts |-> <<>>,
   username |-> Plain("default"), password |-> <<>>, database |-> Plain("default"),
   compression |-> FALSE, secure |-> FALSE, skip_verify |-> FALSE,
   pool_min |-> 10, pool_max |-> 20, nodelay |-> TRUE, keepalive |-> Absent,
   ping_before_query |-> TRUE, send_retries |-> 3, retry_timeout |-> 5000, ping_timeout |-> 500,
   connection_timeout |-> 500, query_timeout |-> 180000, insert_timeout |-> 180000,
   execute_timeout |-> 180000, settings |-> <<>>]

-----------------------------------------------------------------------------
(* The parameters of a URL                                                 *)

Within64(n) == n \notin {Absent, TooLarge}

(* A plus sign is read over.                                               *)
usize_from_str(text) ==
  LET n == IF "signed" \in DOMAIN text THEN text.signed
           ELSE IF text.rest = "" THEN text.digits ELSE Absent
  IN  IF Within64(n) THEN Ok(n) ELSE UrlError
bool_from_str(text) ==
  IF text.digits = Absent /\ text.rest \in {"true", "false"} THEN Ok(text.rest = "true") ELSE UrlError

parse_duration(text) ==
  CASE Within64(text.digits) /\ text.rest = "s"  -> Ok(1000 * text.digits)
    [] Within64(text.digits) /\ text.rest = "ms" -> Ok(text.digits)
    [] OTHER -> UrlError
parse_opt_duration(text) == IF text = Word("none") THEN Ok(Absent) ELSE parse_duration(text)

parse_compression_swapped(text) ==
  IF text \in {Word("none"), Word("lz4")} THEN Ok(text = Word("none")) ELSE UrlError
parse_compression(text) ==
  IF text \in {Word("none"), Word("lz4")} THEN Ok(text = Word("lz4")) ELSE UrlError

(* Hosts keep the port they are given, and get none of their own.  (A host *)
(* that begins with digits is given as a list.)                            *)
parse_hosts(text) ==
  IF "hosts" \notin DOMAIN text THEN Ok(<<Address(text.rest, Absent)>>)
  ELSE IF \E i \in DOMAIN text.hosts : text.hosts[i].port = BadPort THEN UrlError
  ELSE Ok(text.hosts)

Counts       == {"pool_min", "pool_max", "send_retries"}
Switches     == {"nodelay", "ping_before_query", "secure", "skip_verify"}
Durations    == {"retry_timeout", "ping_timeout", "connection_timeout", "query_timeout"}
OptDurations == {"keepalive", "insert_timeout", "execute_timeout"}
Keys == Counts \cup Switches \cup Durations \cup OptDurations \cup {"compression", "alt_hosts"}

(* query_pairs() has unescaped the value; an option is unescaped again.    *)
percent_decode_value(value) == IF "spells" \in DOMAIN value THEN value.spells ELSE value

parse_param(key, value) ==
  LET source == percent_decode_value(value)
  IN  CASE key \in Counts        -> usize_from_str(source)
        [] key \in Switches      -> bool_from_str(source)
        [] key \in Durations     -> parse_duration(source)
        [] key \in OptDurations  -> parse_opt_duration(source)
        [] key = "compression"   -> parse_compression(source)
        [] key = "alt_hosts"     -> parse_hosts(source)

(* Whatever is no option is a setting, for the server to know.             *)
with_setting(options, name, kind, value, important) ==
  [options EXCEPT !.settings = [other \in DOMAIN @ \cup {name} |->
     IF other = name THEN [kind |-> kind, value |-> value, important |-> important]
     ELSE @[other]]]

set_param(options, param) ==
  LET x == parse_param(param[1], param[2])
  IN  IF Wrong(options) \/ (param[1] \in Keys /\ Wrong(x)) THEN UrlError
      ELSE IF param[1] \in Keys THEN [options EXCEPT ![param[1]] = x.ok]
      ELSE with_setting(options, param[1], "String", param[2], 1)
set_params(options, query) ==
  LET after[i \in 0..Len(query)] ==
        IF i = 0 THEN options ELSE set_param(after[i - 1], query[i])
  IN  after[Len(query)]

-----------------------------------------------------------------------------
(* URLs                                                                    *)

percent_decode(text) == [i \in DOMAIN text |-> [piece |-> text[i].piece, escaped |-> FALSE]]
get_username_from_url_raw(url) == url.username
get_username_from_url(url)     == percent_decode(url.username)
get_password_from_url(url)     == percent_decode(url.password)

(* The first segment of the path, as it is written; there may be no other. *)
get_database_from_url(url) ==
  IF Len(url.path) > 1 THEN UrlError
  ELSE Ok(IF url.path = <<>> THEN <<>> ELSE url.path[1])

Given(text, default) == IF text = <<>> THEN default ELSE text
from_url(url) ==
  IF \/ url.port = BadPort \/ url.scheme # "tcp" \/ url.host = ""
     \/ Wrong(get_database_from_url(url))
  THEN UrlError
  ELSE set_params(
         [DefaultOptions EXCEPT
            !.username = Given(get_username_from_url(url), @),
            !.password = get_password_from_url(url),
            !.addr = Address(url.host, IF url.port = Absent THEN 9000 ELSE url.port),
            !.database = Given(get_database_from_url(url).ok, @)],
         url.query)

(* OptionsSource: a URL that cannot be parsed is as wrong the next time.   *)
get(source) == IF "url" \in DOMAIN source THEN from_url(source.url) ELSE source.raw

(* Pool::new: the hosts to deal out, none when the options are wrong.      *)
pool_hosts(options) ==
  IF Wrong(options) THEN <<>> ELSE <<options.addr>> \o options.alt_hosts

-----------------------------------------------------------------------------
(* What a URL means, whichever way it is parsed                            *)

(* The options that a URL spells out: the last pair of a name counts, and  *)
(* a name that is none of the options is a setting.                        *)
Spelled(text, word) == IF text = <<>> THEN Plain(word) ELSE text
LastPair(query, name) == query[CHOOSE i \in DOMAIN query :
  query[i][1] = name /\ \A j \in i + 1..Len(query) : query[j][1] # name][2]
Names(query) == {query[i][1] : i \in DOMAIN query}
MeantBy(url) ==
  [database |-> Spelled(IF url.path = <<>> THEN <<>>
                          ELSE [i \in DOMAIN url.path[1] |-> Plain(url.path[1][i].piece)[1]], "default"),
   user |-> Spelled([i \in DOMAIN url.username |-> Plain(url.username[i].piece)[1]], "default"),
   password |-> [i \in DOMAIN url.password |-> Plain(url.password[i].piece)[1]],
   compress |-> "compression" \in Names(url.query) /\ LastPair(url.query, "compression") = Word("lz4"),
   settings |-> [name \in Names(url.query) \ Keys |-> LastPair(url.query, name)]]
=============================================================================
