---------------------------- MODULE MCDnsServer ----------------------------
(* Zone files and questions for the runs of DnsServer, after the demo's.   *)
EXTENDS DnsServer

One == <<"demo1", "org">>
Two == <<"demo2", "org">>
L(label, type, rdata) == [label |-> label, type |-> type, rdata |-> rdata]

Zones == <<
  [root |-> One, lines |-> <<
     L(At, "SOA", <<"soa1">>), L(At, "NS", <<"dns">> \o One),
     L(At, "MX", <<"mail">> \o One), L(At, "NS", <<"www">> \o One),
     L(<<"dns">>, "A", <<"1">>), L(<<"www">>, "A", <<"2">>),
     L(<<"www">>, "AAAA", <<"3">>), L(<<"mail">>, "A", <<"4">>)>>],
  [root |-> Two, lines |-> <<
     L(At, "SOA", <<"soa2">>), L(At, "NS", <<"dns">> \o Two),
     L(At, "MX", <<"mail", "net">>), L(<<"dns">>, "A", <<"5">>),
     L(<<"www">>, "CNAME", <<"dns">> \o Two)>>]>>

Asked == {<<One, "MX">>, <<One, "NS">>, <<One, "SOA">>, <<<<"www">> \o One, "AAAA">>,
          <<<<"www">> \o Two, "CNAME">>, <<<<"www">> \o Two, "A">>, <<Two, "MX">>,
          <<<<"1", "1", "1", "1">> \o Two, "A">>, <<<<"org">>, "NS">>,
          <<<<"ftp", "net">>, "A">>, <<<<>>, "NS">>}

(* The hypotheses of the theorems about DnsServer.                         *)
ASSUME FilesAssumption == WellWritten /\ RootsLong /\ Apart
=============================================================================
