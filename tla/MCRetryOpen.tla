---------------------------- MODULE MCRetryOpen ----------------------------
(***************************************************************************)
(* RetryOpen.tla for TLC.  Pools with more hosts than attempts, one of     *)
(* them without a port, and with more attempts than hosts; the opens of    *)
(* one with a wrong URL fail.                                              *)
(***************************************************************************)
EXTENDS RetryOpen

Url(port, query) ==
  [scheme |-> "tcp", username |-> <<>>, password |-> <<>>, host |-> "host1", port |-> port,
   path |-> <<>>, query |-> query]
Retries(n) == <<"send_retries", Number(n)>>

MCSources ==
  {[url |-> Url(9440,
     <<Retries(1), <<"secure", Word("true")>>,
       <<"alt_hosts", HostList(<<Address("host2", 9440), Address("host3", 9440)>>)>> >>)],
   [url |-> Url(Absent,
     << <<"send_retries", EscapedTwice(Plus(2))>>,
        <<"alt_hosts", HostList(<<Address("host2", 9000)>>)>> >>)],
   [url |-> Url(9000, <<Retries(1), <<"alt_hosts", Word("host2")>> >>)],
   [url |-> Url(9000, << <<"send_retries", Number(TooLarge)>>, <<"secure", Word("true")>> >>)]}
MCPlain == {[url |-> Url(Absent, <<Retries(2)>>)]}

=============================================================================
