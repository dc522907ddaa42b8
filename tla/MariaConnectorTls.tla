------------------------- MODULE MariaConnectorTls -------------------------
(***************************************************************************)
(* MariaConnectorTls of filter-ground/extra: every thread keeps its own    *)
(* connection; a thread whose connection broke tries to connect again, and *)
(* if that fails registers its connector in disconns_, from which run()    *)
(* reconnects it, after moving on to the next configured database.         *)
(*                                                                         *)
(* The threads use it through MariaStatement, which registers the          *)
(* connector once more whatever the error was.  waiter_ only wakes run()   *)
(* before its second is over, so that a round may begin at any time.       *)
(* stop() is left out: main calls it when the other threads have ended.    *)
(***************************************************************************)
EXTENDS Naturals, FiniteSets, Sequences, SequencesExt, FiniteSetsExt

CONSTANTS Users,       \* the threads that use the database
          Databases,   \* db_configs of app_conf, in order
          MaxOutages,  \* bound: how often a database breaks down
          MaxErrors    \* bound: how often a statement fails for its own reasons

Dbs == ToSet(Databases)

ASSUME MariaAssumption == /\ Len(Databases) > 0
                          /\ IsInjective(Databases)
                          /\ MaxOutages \in Nat
                          /\ MaxErrors \in Nat

VARIABLES up,        \* the databases that answer
          outages,   \* how often a database broke down
          errors,    \* statements that failed on a good connection
          url,       \* url_, as the database it is the url of
          props,     \* properties_, as the database they belong to
          conn,      \* conn_tls_: each thread's AtomicConn, or Absent
          disconns,  \* disconns_: the threads whose connector is registered
          user,      \* where each thread is in MariaStatement, and its locals
          manager,   \* where run() is, and its locals
          alarm      \* err_toggle

dbVars == <<up, outages>>
infoVars == <<url, props>>
vars == <<dbVars, errors, infoVars, conn, disconns, user, manager, alarm>>

\* A connection is the database it is to, until that one breaks down.
Null == "null"
Broken == "broken"
Conns == {Null, Broken} \cup Dbs
BreaksWith(d, c) == IF c = d THEN Broken ELSE c

\* TlInstance::set and has: a thread's first call finds no AtomicConn, and puts
\* an empty one there before it connects.
Absent == "absent"
HasConn(t) == conn[t] # Absent
SetEmpty(t) == conn' = [conn EXCEPT ![t] = Null]

\* AtomicSptr::store and operator=
StoreConn(t, c) == conn' = [conn EXCEPT ![t] = c]

\* disconns_t::add
AddDisconn(t) == disconns' = disconns \cup {t}

ErrToggle == INSTANCE Toggle WITH on <- alarm

\* connect(): with the properties of another database it may or may not work.
Connects(u) == u \in up
Refused(u, p) == u \notin up \/ u # p

IdleUser == [pc |-> "idle", conn |-> Null, url |-> "none"]
IdleManager == [pc |-> "pop", todo |-> {}, at |-> "none", conn |-> Null]

\* test_connection(), without which setup_cnapsdb does not go on.
Tested == {answering \in SUBSET Dbs : Databases[1] \in answering}

Init == /\ up \in Tested
        /\ outages = 0
        /\ errors = 0
        /\ url = Databases[1]
        /\ props = Databases[1]
        /\ conn = [t \in Users |-> Absent]
        /\ disconns = {}
        /\ user = [t \in Users |-> IdleUser]
        /\ manager = IdleManager
        /\ ErrToggle!Init
-----------------------------------------------------------------------------
(* The databases *)

DbFails(d) == /\ outages < MaxOutages
              /\ d \in up
              /\ up' = up \ {d}
              /\ outages' = outages + 1
              /\ conn' = [t \in Users |-> BreaksWith(d, conn[t])]
              /\ user' = [t \in Users |-> [user[t] EXCEPT !.conn = BreaksWith(d, @)]]
              /\ manager' = [manager EXCEPT !.conn = BreaksWith(d, @)]
              /\ UNCHANGED <<errors, infoVars, disconns, alarm>>

DbRecovers(d) == /\ d \notin up
                 /\ up' = up \cup {d}
                 /\ UNCHANGED <<outages, errors, infoVars, conn, disconns, user, manager, alarm>>
-----------------------------------------------------------------------------
(* get_connector() and the statement that called it *)

UserGoto(t, from, to) == user[t].pc = from /\ user' = [user EXCEPT ![t].pc = to]

FirstCall(t) == /\ ~HasConn(t)
                /\ UserGoto(t, "idle", "read")
                /\ SetEmpty(t)
                /\ UNCHANGED <<dbVars, errors, infoVars, disconns, manager, alarm>>

Call(t) == /\ user[t].pc = "idle" /\ HasConn(t)
           /\ user' = [user EXCEPT ![t].pc = IF conn[t] = Null THEN "read" ELSE "test",
                                   ![t].conn = conn[t]]
           /\ UNCHANGED <<dbVars, errors, infoVars, conn, disconns, manager, alarm>>

\* test()
Test(t) == /\ UserGoto(t, "test", IF user[t].conn = Broken THEN "forget" ELSE "use")
           /\ UNCHANGED <<dbVars, errors, infoVars, conn, disconns, manager, alarm>>

\* store(nullptr), whatever run() has stored in between.
Forget(t) == /\ user[t].pc = "forget"
             /\ user' = [user EXCEPT ![t].pc = "read", ![t].conn = Null]
             /\ StoreConn(t, Null)
             /\ UNCHANGED <<dbVars, errors, infoVars, disconns, manager, alarm>>

\* connect() is given url_ and properties_, which are read one after the other.
ReadUrl(t) == /\ user[t].pc = "read"
              /\ user' = [user EXCEPT ![t].pc = "connect", ![t].url = url]
              /\ UNCHANGED <<dbVars, errors, infoVars, conn, disconns, manager, alarm>>

Connect(t) == /\ user[t].pc = "connect"
              /\ \/ /\ Connects(user[t].url)
                    /\ user' = [user EXCEPT ![t] = [pc |-> "store", conn |-> user[t].url, url |-> "none"]]
                 \/ /\ Refused(user[t].url, props)
                    /\ user' = [user EXCEPT ![t].pc = "register", ![t].url = "none"]
              /\ UNCHANGED <<dbVars, errors, infoVars, conn, disconns, manager, alarm>>

Store(t) == /\ UserGoto(t, "store", "use")
            /\ StoreConn(t, user[t].conn)
            /\ UNCHANGED <<dbVars, errors, infoVars, disconns, manager, alarm>>

\* The connection failed: get_connector() registers the connector and throws.
Register(t) == /\ UserGoto(t, "register", "report")
               /\ AddDisconn(t)
               /\ UNCHANGED <<dbVars, errors, infoVars, conn, manager, alarm>>

\* prepareStatement() and the execute() that follows: they succeed, fail with
\* the connection, or one of them for its own reasons.
Use(t) == /\ user[t].pc = "use"
          /\ \/ /\ user[t].conn # Broken
                /\ user' = [user EXCEPT ![t] = IdleUser]
                /\ UNCHANGED errors
             \/ /\ user' = [user EXCEPT ![t] = [IdleUser EXCEPT !.pc = "report"]]
                /\ \/ user[t].conn = Broken /\ UNCHANGED errors
                   \/ errors < MaxErrors /\ errors' = errors + 1
          /\ UNCHANGED <<dbVars, infoVars, conn, disconns, manager, alarm>>

\* exception_proc() takes every error for one of the connection.
Report(t) == /\ user[t].pc = "report"
             /\ user' = [user EXCEPT ![t] = IdleUser]
             /\ AddDisconn(t)
             /\ UNCHANGED <<dbVars, errors, infoVars, conn, manager, alarm>>

UserProgress(t) == \/ Test(t) \/ Forget(t) \/ ReadUrl(t) \/ Connect(t)
                   \/ Store(t) \/ Register(t) \/ Use(t) \/ Report(t)
-----------------------------------------------------------------------------
(* run() *)

ManagerGoto(from, to) == manager.pc = from /\ manager' = [manager EXCEPT !.pc = to]

\* Seeded bug: the error is not cleared.
PopNothing_Silent == /\ disconns = {}
                     /\ ManagerGoto("pop", "pop")
                     /\ UNCHANGED <<dbVars, errors, infoVars, conn, disconns, user, alarm>>

\* A round over an empty copy of disconns_: the error is cleared.
PopNothing == /\ disconns = {}
              /\ ManagerGoto("pop", "pop")
              /\ ErrToggle!TurnOff
              /\ UNCHANGED <<dbVars, errors, infoVars, conn, disconns, user>>

PopSome == /\ disconns # {}
           /\ manager.pc = "pop"
           /\ manager' = [manager EXCEPT !.pc = "next", !.todo = disconns]
           /\ UNCHANGED <<dbVars, errors, infoVars, conn, disconns, user, alarm>>

\* Seeded bug: after the last database there is none.
NextDb_Stays(d) == LET i == CHOOSE i \in 1..Len(Databases) : Databases[i] = d
                   IN  IF i = Len(Databases) THEN d ELSE Databases[i + 1]

\* get_next_db_config()
NextDb(d) == LET i == CHOOSE i \in 1..Len(Databases) : Databases[i] = d
             IN  Databases[(i % Len(Databases)) + 1]

\* reset_connection_info() and set_connection_info(): url_ and then properties_.
NextUrl == /\ ManagerGoto("next", "props")
           /\ url' = NextDb(url)
           /\ UNCHANGED <<dbVars, errors, props, conn, disconns, user, alarm>>

NextProps == /\ ManagerGoto("props", "each")
             /\ props' = url
             /\ UNCHANGED <<dbVars, errors, url, conn, disconns, user, alarm>>

\* The next connector of the copy: connected, or left for the next round.
Reconnect == /\ manager.pc = "each"
             /\ \E t \in manager.todo :
                   manager' =
                      IF Connects(url)
                      THEN [manager EXCEPT !.pc = "store", !.at = t, !.conn = url]
                      ELSE [manager EXCEPT !.todo = @ \ {t}]
             /\ ErrToggle!TurnOn
             /\ UNCHANGED <<dbVars, errors, infoVars, conn, disconns, user>>

StoreNew == /\ manager.pc = "store"
            /\ manager' = [manager EXCEPT !.pc = "del", !.conn = Null]
            /\ StoreConn(manager.at, manager.conn)
            /\ UNCHANGED <<dbVars, errors, infoVars, disconns, user, alarm>>

Del == /\ manager.pc = "del"
       /\ manager' = [manager EXCEPT !.pc = "each", !.todo = @ \ {manager.at}, !.at = "none"]
       /\ disconns' = disconns \ {manager.at}
       /\ UNCHANGED <<dbVars, errors, infoVars, conn, user, alarm>>

RoundEnds == /\ manager.todo = {}
             /\ ManagerGoto("each", "pop")
             /\ UNCHANGED <<dbVars, errors, infoVars, conn, disconns, user, alarm>>

Run == \/ PopNothing \/ PopSome \/ NextUrl \/ NextProps
       \/ Reconnect \/ StoreNew \/ Del \/ RoundEnds
-----------------------------------------------------------------------------
Next == \/ \E d \in Dbs : DbFails(d) \/ DbRecovers(d)
        \/ \E t \in Users : FirstCall(t) \/ Call(t) \/ UserProgress(t)
        \/ Run

\* Threads run, nobody has to make a call, and there is not for ever no
\* database at all: one of them may stay away for good.
Fairness == /\ \A t \in Users : WF_vars(UserProgress(t))
            /\ WF_vars(Run)
            /\ WF_vars(up = {} /\ \E d \in Dbs : DbRecovers(d))

SafeSpec == Init /\ [][Next]_vars
Spec == SafeSpec /\ Fairness
-----------------------------------------------------------------------------
UserPlaces == {"idle", "test", "forget", "read", "connect",
               "store", "register", "use", "report"}
ManagerPlaces == {"pop", "next", "props", "each", "store", "del"}

TypeOK == /\ up \subseteq Dbs
          /\ outages \in 0..MaxOutages
          /\ errors \in 0..MaxErrors
          /\ url \in Dbs /\ props \in Dbs
          /\ conn \in [Users -> Conns \cup {Absent}]
          /\ disconns \in SUBSET Users
          /\ user \in [Users -> [pc : UserPlaces, conn : Conns, url : Dbs \cup {"none"}]]
          /\ manager \in [pc : ManagerPlaces, todo : SUBSET Users,
                          at : Users \cup {"none"}, conn : Conns]
          /\ alarm \in BOOLEAN

(***************************************************************************)
(* A registered connector does not stay so: run() comes to a database that *)
(* answers, even if one of the configured ones is down for good.           *)
(***************************************************************************)
RegisteredIsServed == \A t \in Users : t \in disconns ~> t \notin disconns

(***************************************************************************)
(* clear_connect_error follows every occur_connect_error, once the         *)
(* databases no longer break down.                                         *)
(***************************************************************************)
AlarmClears == alarm ~> ~alarm
=============================================================================
