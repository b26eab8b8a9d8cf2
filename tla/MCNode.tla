------------------------------- MODULE MCNode -------------------------------
(***************************************************************************)
(* Programs of a few entities, for which the peer has the other ends.      *)
(***************************************************************************)
EXTENDS Node

AB == <<"/", "a", ".", "b">>
Also_AB == <<"a", "_", "b", "_">>

Of(kind, name, reliability) == [kind |-> kind, name |-> name, reliability |-> reliability]
Program(creates, keeps, peer) == [creates |-> creates, keeps |-> keeps, peer |-> peer]

Topic(kind) == Of(kind, <<"t">>, BEST_EFFORT)
Service(reliability) == Of("service", AB, reliability)
Client(reliability) == Of("client", AB, reliability)

\* The endpoints of a client of the peer, and of a Service there that has already
\* answered the first client of this Node.
PeerClient(name, reliability) ==
  EndpointsOf(Of("client", name, reliability), client_id(<<"n">>, "q", "0"))
PeerService(reliability) ==
  EndpointsOf(Service(reliability), <<>>)
    \o <<EndpointInfo("PUBLISHER", rpc_reply_topic(AB, client_id(Node_name, "p", "0")), "RpcReply",
                     "", reliability)>>

SomeName == <<"m">>

Served(reliability, keeps) ==
  Program(<<Service(reliability)>>, keeps, PeerClient(AB, reliability))

SomePrograms ==
  {Program(<<Topic("subscriber"), Topic("publisher")>>, {},
           EndpointsOf(Topic("publisher"), <<>>)),
   Served(RELIABLE, {}), Served(BEST_EFFORT, {Service(BEST_EFFORT)}),
   Program(<<Client(RELIABLE)>>, {}, PeerService(RELIABLE))}

\* A client that spells the name of the Service in another way.
OtherName == {Program(<<Service(RELIABLE)>>, {}, PeerClient(Also_AB, RELIABLE))}

\* A client that asks for less than the Service offers.
OtherReliability == {Program(<<Service(RELIABLE)>>, {}, PeerClient(AB, BEST_EFFORT))}
=============================================================================
