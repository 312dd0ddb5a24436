----------------------------- MODULE MCClients ------------------------------
(* The ways to the engines, each on its own: the server's tables, the library, *)
(* and, for one table of a server, the hub and the remote clients.             *)
EXTENDS MCAwaLocal, Service, MCHubProxy, MCRemoteClient

MCTableNames == {<<"a">>, <<"b">>, <<"a", "b">>}
MCCreateLists ==
  {<< >>, <<<<"a">>>>, <<<<"a", "b">>>>, <<<<"a">>, <<"b">>>>, <<<<"b">>, << >>>>}

VARIABLE part  \* the component of this behaviour

OnlyService ==
  /\ part = "service"
  /\ UNCHANGED <<part, localVars, tableVars, hubVars, remoteVars>>
OnlyLocal ==
  /\ part = "local"
  /\ UNCHANGED <<part, serviceVars, tableVars, hubVars, remoteVars>>
OnlyHub ==
  /\ part = "hub"
  /\ UNCHANGED <<part, serviceVars, localVars, remoteVars>>
OnlyRemote ==
  /\ part = "remote"
  /\ UNCHANGED <<part, serviceVars, localVars, hubVars>>

ClientsInit ==
  /\ ServiceInit /\ LocalInit /\ ServerInit /\ HubInit /\ RemoteInit
  /\ part \in {"service", "local", "hub", "remote"}

ClientsNext ==
  \/ OnlyService /\ ServiceNext
  \/ OnlyLocal /\ LocalNext
  \/ OnlyHub /\ HubNext
  \/ OnlyRemote /\ RemoteNext

ClientsSpec ==
  /\ ClientsInit
  /\ [][ClientsNext]_<<part, serviceVars, localVars, tableVars, hubVars,
                       remoteVars>>
  /\ ServiceFairness

\* The server goes on: with the tables it had, and to the answer of a request.
ServiceGoesOn ==
  /\ RestartKeepsTables
  /\ RequestsGetAnswered
=============================================================================
