--------------------------- MODULE ConnectionPool ---------------------------
(***************************************************************************)
(* What the database connection pool promises its callers                  *)
(* (bserv/include/bserv/database.hpp, 108-110): a call that finds an idle  *)
(* connection gets it for itself, a call that finds none waits, and a      *)
(* connection whose handler is done is idle again.  No lock appears here:  *)
(* DbConnectionManager is the code, and implements this specification.     *)
(***************************************************************************)

CONSTANTS Threads,   \* the callers
          Conns,     \* the open connections of the pool
          NoConn     \* the mark of a caller that has none, not one of Conns

VARIABLES idle,      \* the connections nobody has
          asking,    \* the callers inside get_or_block
          held       \* the connection each caller has, or NoConn

poolVars == <<idle, asking, held>>

PoolInit == /\ idle = Conns
            /\ asking = {}
            /\ held = [t \in Threads |-> NoConn]

Ask(t) == /\ t \notin asking
          /\ held[t] = NoConn
          /\ asking' = asking \cup {t}
          /\ UNCHANGED <<idle, held>>

Grant(t) == /\ t \in asking
            /\ \E c \in idle : /\ held' = [held EXCEPT ![t] = c]
                               /\ idle' = idle \ {c}
            /\ asking' = asking \ {t}

GiveBack(t) == /\ held[t] # NoConn
               /\ idle' = idle \cup {held[t]}
               /\ held' = [held EXCEPT ![t] = NoConn]
               /\ UNCHANGED asking

PoolNext == \E t \in Threads : Ask(t) \/ Grant(t) \/ GiveBack(t)

PoolSafety == PoolInit /\ [][PoolNext]_poolVars

(***************************************************************************)
(* Somebody is served as long as somebody asks and a connection is idle,   *)
(* and somebody gives back as long as somebody holds.  Not who: mutexes    *)
(* are not fair, and one unlucky caller may wait for ever.                 *)
(***************************************************************************)
PoolFairness == /\ WF_poolVars(\E t \in Threads : Grant(t))
                /\ WF_poolVars(\E t \in Threads : GiveBack(t))

PoolSpec == PoolSafety /\ PoolFairness
=============================================================================
