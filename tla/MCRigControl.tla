----------------------------- MODULE MCRigControl -----------------------------
(* RigControl for TLC: one board port, the polls of server.py on it. *)
EXTENDS RigControl

\* Of the items of a poll: the PC's own port, the link the tests change, spanning tree.
OnePollOrder ==
  <<<<"link", <<"switch1", "Gi 1/6">>>>,
    <<"link", <<"switch2", "Gi 1/1">>>>, <<"stp", <<"switch2", "Gi 1/2">>>>>>

Port(sw, p, value) == [kind |-> "port", slot |-> <<sw, p>>, value |-> value]

\* Shutting and opening the two ring links, shutting the PC's own port, spanning tree.
SomeRequests ==
  {Port("switch2", "Gi 1/1", FALSE), Port("switch2", "Gi 1/2", TRUE),
   Port("switch1", "Gi 1/6", TRUE),
   [kind |-> "stp", slot |-> <<"switch2", "Gi 1/2">>, value |-> FALSE],
   [kind |-> "frer", slot |-> <<"switch2", "Gi 1/2">>, value |-> TRUE]}
=============================================================================
