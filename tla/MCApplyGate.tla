---------------------------- MODULE MCApplyGate ----------------------------
\* Three nodes on three machines, and configurations of every kind: right, with another
\* port, with crossed aliases, with the network's address, with one address twice.
EXTENDS ApplyGate

MCLeads == [a |-> "m1", b |-> "m2", c |-> "m3"]
MCHome == [m1 |-> "ip1", m2 |-> "ip2", m3 |-> "ip3"]
Right ==
  [names |-> "usual", alias |-> <<"a", "b", "c">>, expects |-> <<"m1", "m2", "m3">>,
   address |-> <<"ip1", "ip2", "ip3">>, sources |-> {1}, api |-> 1, distributed |-> 2]
MCContents ==
  {Right, [Right EXCEPT !.api = 3], [Right EXCEPT !.alias = <<"b", "a", "c">>],
   [Right EXCEPT !.address[2] = "ip0"], [Right EXCEPT !.address[2] = "ip1"],
   [Right EXCEPT !.names = "other"]}
=============================================================================
