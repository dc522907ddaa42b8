------------------------------ MODULE MCMaria ------------------------------
(***************************************************************************)
(* Instances for TLC, with two databases: MariaConnectorTls, and its twin  *)
(* OtlConnectorTls with the users OtlUsers.                                *)
(***************************************************************************)
EXTENDS MariaConnectorTls

CONSTANT OtlUsers

VARIABLE driver

TwoDatabases == <<"db1", "db2">>

Otl == INSTANCE OtlConnectorTls WITH Users <- OtlUsers

Either(mariaStep, otlStep) == /\ \/ driver = "maria" /\ mariaStep
                                 \/ driver = "otl" /\ otlStep
                              /\ UNCHANGED driver

BothInit == \/ driver = "maria" /\ Init
            \/ driver = "otl" /\ Otl!Init

BothNext == Either(Next, Otl!OtlNext)
OneUser(t) == Either(UserProgress(t), t \in OtlUsers /\ Otl!OtlUserProgress(t))
Recovers == up = {} /\ \E d \in Dbs : DbRecovers(d)
OtlRecovers == up = {} /\ \E d \in Dbs : Otl!DbRecovers(d)

bothVars == <<vars, driver>>
BothSpec == /\ BothInit
            /\ [][BothNext]_bothVars
            /\ \A t \in Users : WF_bothVars(OneUser(t))
            /\ WF_bothVars(Either(Run, Otl!OtlRun))
            /\ WF_bothVars(Either(Recovers, OtlRecovers))
=============================================================================
