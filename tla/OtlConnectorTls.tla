-------------------------- MODULE OtlConnectorTls --------------------------
(***************************************************************************)
(* OtlConnectorTls of filter-ground/extra, the twin of MariaConnectorTls   *)
(* for Oracle.  It differs in three things: the connection string is one   *)
(* object, stored at once; a broken connection stays in the thread's       *)
(* AtomicConn until another one is stored over it; and nothing stands      *)
(* between its users and the connection: they register a connector         *)
(* themselves, with register_disconn(), if they do.                        *)
(*                                                                         *)
(* The state is that of MariaConnectorTls, with url and props together for *)
(* rlogon_str_, and so are the steps that are the same.                    *)
(***************************************************************************)
EXTENDS MariaConnectorTls

\* "failed": idle, and the last call has thrown.
\* A null connection is stored once more, whatever run() has stored in between.
OtlCall(t) == /\ user[t].pc \in {"idle", "failed"} /\ HasConn(t)
              /\ user' = [user EXCEPT ![t].pc = IF conn[t] = Null THEN "forget" ELSE "test",
                                      ![t].conn = conn[t]]
              /\ UNCHANGED <<dbVars, errors, infoVars, conn, disconns, manager, alarm>>

\* test(): a connection that is broken stays until another one is stored over it.
OtlTest(t) == /\ UserGoto(t, "test", IF user[t].conn = Broken THEN "read" ELSE "use")
              /\ UNCHANGED <<dbVars, errors, infoVars, conn, disconns, manager, alarm>>

\* connect(rlogon_str_.load()): one string, which works if its database answers.
OtlConnect(t) ==
    /\ user[t].pc = "connect"
    /\ user' = IF Connects(user[t].url)
               THEN [user EXCEPT ![t] = [pc |-> "store", conn |-> user[t].url, url |-> "none"]]
               ELSE [user EXCEPT ![t] = [pc |-> "register", conn |-> Null, url |-> "none"]]
    /\ UNCHANGED <<dbVars, errors, infoVars, conn, disconns, manager, alarm>>

\* get_connector() registers the connector and throws.
OtlRegister(t) == /\ UserGoto(t, "register", "failed")
                  /\ AddDisconn(t)
                  /\ UNCHANGED <<dbVars, errors, infoVars, conn, manager, alarm>>

\* The caller's statement: on a broken connection it fails, on a good one it may.
OtlUse(t) == /\ user[t].pc = "use"
             /\ \E pc \in {"failed"} \cup (IF user[t].conn = Broken THEN {} ELSE {"idle"}) :
                   user' = [user EXCEPT ![t] = [IdleUser EXCEPT !.pc = pc]]
             /\ UNCHANGED <<dbVars, errors, infoVars, conn, disconns, manager, alarm>>

\* register_disconn(), which the caller may call when a statement has failed.
RegisterDisconn(t) == /\ user[t].pc = "failed" /\ errors < MaxErrors
                      /\ errors' = errors + 1
                      /\ AddDisconn(t)
                      /\ UNCHANGED <<dbVars, infoVars, conn, user, manager, alarm>>

OtlUserProgress(t) == \/ OtlTest(t) \/ Forget(t) \/ ReadUrl(t) \/ OtlConnect(t)
                      \/ Store(t) \/ OtlRegister(t) \/ OtlUse(t)

\* reset_connection_info() and set_connection_info(): one store.
NextLogon == /\ ManagerGoto("next", "each")
             /\ url' = NextDb(url)
             /\ props' = url'
             /\ UNCHANGED <<dbVars, errors, conn, disconns, user, alarm>>

\* run()
OtlRun == \/ PopNothing \/ PopSome \/ NextLogon
          \/ Reconnect \/ StoreNew \/ Del \/ RoundEnds
-----------------------------------------------------------------------------
OtlNext == \/ \E d \in Dbs : DbFails(d) \/ DbRecovers(d)
           \/ \E t \in Users : FirstCall(t) \/ OtlCall(t) \/ OtlUserProgress(t) \/ RegisterDisconn(t)
           \/ OtlRun
=============================================================================
