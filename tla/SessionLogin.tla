----------------------------- MODULE SessionLogin -----------------------------
(* Who is bound to whom: the login handler ties a gateway session, the Player  *)
(* it has loaded, its actor and the player map together, while the timer on    *)
(* the main thread takes timed-out sessions apart (LoginService,               *)
(* SessionManager, Session, PlayerManager and the packet callback of main).    *)
(* One account logs in again and again, on the same or on other sessions of    *)
(* its gateways.  The handlers of one gateway connection run one after the     *)
(* other, those of two connections at the same time; CheckTimeout has a thread *)
(* of its own.  Every login brings a Player object of its own, named by the    *)
(* login.  The progress in it is PlayerLoading's and PlayerPersistence's.      *)
EXTENDS Integers, FiniteSets

CONSTANTS Sids,         \* session ids that the gateways give their clients
          Conns,        \* connections to gateways
          Logins,       \* bound: login requests, and their Player objects
          Objects,      \* bound: Session objects
          MaxPackets,   \* bound: packets of the clients, logins and other requests
          None

ASSUME LoginAssumption ==
  /\ Sids # {} /\ Conns # {} /\ MaxPackets \in Nat
  /\ None \notin Sids \cup Conns \cup Logins \cup Objects

VARIABLES
  container,          \* SessionManager::buckets_: the Session object of a sid
  sess,               \* each Session object: its sid, connection, player and actor
  index,              \* player_to_session_ of the account
  mapped,             \* PlayerManager: the Player object of the account
  marked, saved,      \* Player objects: logging out; history: that a save was asked for
  packets,            \* packets so far
  closed,             \* connections that the server has closed
  pc, sidOf, via,     \* each login: where it is, its sid and its connection
  mine, found,        \* ... the Session it binds to, the Player that Logout found
  rpc, rvia, rsess, rplayer, ractor,  \* a request: where it is, what it has read
  tpc, stale, cleaning, collected  \* CheckTimeout: where it is, to_remove, its element;
                                   \* history: Sessions that were in to_remove

bindVars == <<container, sess, index>>
mapVars == <<mapped, marked, saved>>
loginVars == <<pc, sidOf, via, mine, found>>
requestVars == <<rpc, rvia, rsess, rplayer, ractor>>
timerVars == <<tpc, stale, cleaning, collected>>
netVars == <<closed, packets>>
vars == <<bindVars, mapVars, netVars, loginVars, requestVars, timerVars>>

NoSession == [sid |-> None, conn |-> None, player |-> None, actor |-> None]

Init ==
  /\ container = [s \in Sids |-> None] /\ sess = [o \in Objects |-> NoSession] /\ index = None
  /\ mapped = None /\ marked = {} /\ saved = {} /\ closed = {}
  /\ pc = [n \in Logins |-> "idle"] /\ sidOf = [n \in Logins |-> None]
  /\ via = [n \in Logins |-> None] /\ mine = [n \in Logins |-> None]
  /\ found = [n \in Logins |-> None]
  /\ rpc = "idle" /\ rvia = None /\ rsess = None /\ rplayer = None /\ ractor = None /\ packets = 0
  /\ tpc = "scan" /\ stale = {} /\ cleaning = None /\ collected = {}

InHandler(n) == pc[n] \notin {"idle", "load", "done"}
\* A connection's executor runs one handler at a time.
Executes(c) == ~(\E n \in Logins : InHandler(n) /\ via[n] = c) /\ ~(rpc # "idle" /\ rvia = c)
Go(n, from, to) == pc[n] = from /\ pc' = [pc EXCEPT ![n] = to]
GoR(from, to) == rpc = from /\ rpc' = to
GoT(from, to) == tpc = from /\ tpc' = to

-----------------------------------------------------------------------------
(* SessionManager and the packet callback *)

\* A weak pointer to a Session gives it as long as somebody holds it.
Held(o) ==
  \/ \E s \in Sids : container[s] = o
  \/ o \in stale \cup {cleaning, rsess}
  \/ \E n \in Logins : InHandler(n) /\ mine[n] = o

\* CreateSessionWithId for a sid without a Session, and BindConnection: object o.
NewSession(o, s, c) ==
  /\ sess[o] = NoSession
  /\ sess' = [sess EXCEPT ![o] = [sid |-> s, conn |-> c, player |-> None, actor |-> None]]
  /\ container' = [container EXCEPT ![s] = o]

\* The packet callback's beginning: the Session of the sid, made if there is none,
\* gets the connection that the packet came by.
Packet(o, s, c) ==
  /\ c \notin closed /\ Executes(c) /\ packets < MaxPackets /\ packets' = packets + 1
  /\ \/ container[s] = o /\ sess' = [sess EXCEPT ![o].conn = c] /\ UNCHANGED container
     \/ container[s] = None /\ NewSession(o, s, c)

-----------------------------------------------------------------------------
(* LoginService::HandleLogin *)

\* A login's packet; the handler hands it to the database pool, which loads the
\* new Player.
ReceiveLogin(n, s, c) ==
  /\ Go(n, "idle", "load")
  /\ \E o \in Objects : Packet(o, s, c)
  /\ sidOf' = [sidOf EXCEPT ![n] = s] /\ via' = [via EXCEPT ![n] = c]
  /\ UNCHANGED <<index, mapVars, closed, mine, found, requestVars, timerVars>>

\* The rest is posted to the connection's executor, closed or not.
GetSession(n) ==
  LET o == container[sidOf[n]]
  IN /\ pc[n] = "load" /\ Executes(via[n])
     /\ \/ o # None /\ Go(n, "load", "kick") /\ mine' = [mine EXCEPT ![n] = o]
        \/ o = None /\ Go(n, "load", "create") /\ UNCHANGED mine
     /\ UNCHANGED <<bindVars, mapVars, netVars, sidOf, via, found, requestVars, timerVars>>

\* Mutant: the Session is not looked for again under the lock.
CreateSession_Blind(n) ==
  /\ Go(n, "create", "kick")
  /\ \E o \in Objects : NewSession(o, sidOf[n], via[n]) /\ mine' = [mine EXCEPT ![n] = o]
  /\ UNCHANGED <<index, mapVars, netVars, sidOf, via, found, requestVars, timerVars>>

\* CreateSessionWithId and BindConnection.
CreateSession(n) ==
  LET s == sidOf[n]
  IN /\ Go(n, "create", "kick")
     /\ \E o \in Objects :
          /\ mine' = [mine EXCEPT ![n] = o]
          /\ \/ container[s] = o /\ sess' = [sess EXCEPT ![o].conn = via[n]] /\ UNCHANGED container
             \/ container[s] = None /\ NewSession(o, s, via[n])
     /\ UNCHANGED <<index, mapVars, netVars, sidOf, via, found, requestVars, timerVars>>

\* KickPlayer closes the whole gateway connection of the old Session, which
\* keeps its player and actor.
Kick(n) ==
  /\ Go(n, "kick", "find")
  /\ closed' = closed \cup
       (IF index # None /\ Held(index) /\ sess[index].sid # sidOf[n] THEN {sess[index].conn} ELSE {})
  /\ UNCHANGED <<bindVars, mapVars, packets, sidOf, via, mine, found, requestVars, timerVars>>

\* Logout: GetPlayer, TryMarkLoggingOut, erase, and the save.
FindPlayer(n) ==
  /\ \/ mapped = None /\ Go(n, "find", "insert")
     \/ mapped # None /\ Go(n, "find", "mark")
  /\ found' = [found EXCEPT ![n] = mapped]
  /\ UNCHANGED <<bindVars, mapVars, netVars, sidOf, via, mine, requestVars, timerVars>>

MarkLoggingOut(n) ==
  /\ \/ found[n] \notin marked /\ Go(n, "mark", "erase") /\ UNCHANGED found
     \/ found[n] \in marked /\ Go(n, "mark", "insert") /\ found' = [found EXCEPT ![n] = None]
  /\ marked' = marked \cup {found[n]}
  /\ UNCHANGED <<bindVars, mapped, saved, netVars, sidOf, via, mine, requestVars, timerVars>>

\* Mutant: the last save is forgotten.
ErasePlayer_Only(n) ==
  /\ Go(n, "erase", "insert")
  /\ mapped' = None
  /\ UNCHANGED <<bindVars, marked, saved, netVars, sidOf, via, mine, found, requestVars,
                 timerVars>>

\* The account's entry is erased, whichever Player it holds now.
ErasePlayer(n) ==
  /\ Go(n, "erase", "save")
  /\ mapped' = None
  /\ UNCHANGED <<bindVars, marked, saved, netVars, sidOf, via, mine, found, requestVars,
                 timerVars>>

SaveLoggedOut(n) ==
  /\ Go(n, "save", "insert")
  /\ saved' = saved \cup {found[n]} /\ found' = [found EXCEPT ![n] = None]
  /\ UNCHANGED <<bindVars, mapped, marked, netVars, sidOf, via, mine, requestVars, timerVars>>

\* PlayerManager::Login replaces whatever Player the map holds.
InsertPlayer(n) ==
  /\ Go(n, "insert", "bindPlayer")
  /\ mapped' = n
  /\ UNCHANGED <<bindVars, marked, saved, netVars, sidOf, via, mine, found, requestVars, timerVars>>

BindPlayer(n) ==
  /\ Go(n, "bindPlayer", "bindActor")
  /\ sess' = [sess EXCEPT ![mine[n]].player = n]
  /\ UNCHANGED <<container, index, mapVars, netVars, sidOf, via, mine, found, requestVars, timerVars>>

\* Mutant: a Session keeps its first actor.
BindActor_Once(n) ==
  /\ Go(n, "bindActor", "bindIndex")
  /\ sess' = [sess EXCEPT ![mine[n]].actor = IF @ = None THEN n ELSE @]
  /\ UNCHANGED <<container, index, mapVars, netVars, sidOf, via, mine, found, requestVars, timerVars>>

BindActor(n) ==
  /\ Go(n, "bindActor", "bindIndex")
  /\ sess' = [sess EXCEPT ![mine[n]].actor = n]
  /\ UNCHANGED <<container, index, mapVars, netVars, sidOf, via, mine, found, requestVars, timerVars>>

\* Mutant: emplace, which keeps the entry that is there.
BindPlayerToSession_Once(n) ==
  /\ Go(n, "bindIndex", "done")
  /\ index' = IF index = None THEN mine[n] ELSE index
  /\ UNCHANGED <<container, sess, mapVars, netVars, sidOf, via, mine, found, requestVars, timerVars>>

\* BindPlayerToSession, and the response.
BindPlayerToSession(n) ==
  /\ Go(n, "bindIndex", "done")
  /\ index' = mine[n]
  /\ UNCHANGED <<container, sess, mapVars, netVars, sidOf, via, mine, found, requestVars, timerVars>>

Login(n) ==
  \/ GetSession(n) \/ CreateSession(n) \/ Kick(n) \/ FindPlayer(n) \/ MarkLoggingOut(n)
  \/ ErasePlayer(n) \/ SaveLoggedOut(n) \/ InsertPlayer(n)
  \/ BindPlayer(n) \/ BindActor(n) \/ BindPlayerToSession(n)

-----------------------------------------------------------------------------
(* Any other request: the callback reads the player, Dispatch the actor *)

ReceiveRequest(s, c) ==
  /\ GoR("idle", "player")
  /\ \E o \in Objects : Packet(o, s, c) /\ rsess' = o
  /\ rvia' = c
  /\ UNCHANGED <<index, mapVars, closed, loginVars, rplayer, ractor, timerVars>>

ReadPlayer ==
  /\ GoR("player", "actor")
  /\ rplayer' = sess[rsess].player
  /\ UNCHANGED <<bindVars, mapVars, netVars, loginVars, rvia, rsess, ractor, timerVars>>

\* Without an actor the handler runs at once, on the network thread.
Dispatch ==
  /\ GoR("actor", "run")
  /\ ractor' = sess[rsess].actor
  /\ UNCHANGED <<bindVars, mapVars, netVars, loginVars, rvia, rsess, rplayer, timerVars>>

EndRequest ==
  /\ GoR("run", "idle")
  /\ rsess' = None /\ rplayer' = None /\ ractor' = None /\ rvia' = None
  /\ UNCHANGED <<bindVars, mapVars, netVars, loginVars, timerVars>>

Request == ReadPlayer \/ Dispatch \/ EndRequest

-----------------------------------------------------------------------------
(* CheckTimeout.  A handler takes microseconds and a timeout three minutes since *)
(* the last packet: a Session that a login's handler has found is not collected  *)
(* before the handler ends; while the Player loads it may be.                    *)

Collect(s) ==
  /\ tpc = "scan" /\ container[s] # None
  /\ \A n \in Logins : InHandler(n) => sidOf[n] # s
  /\ container' = [container EXCEPT ![s] = None]
  /\ stale' = stale \cup {container[s]} /\ collected' = collected \cup {container[s]}
  /\ UNCHANGED <<sess, index, mapVars, netVars, loginVars, requestVars, tpc, cleaning>>

\* The next element of to_remove, and its player.
CleanSession(o) ==
  /\ tpc \in {"scan", "next"} /\ o \in stale
  /\ cleaning' = o /\ stale' = stale \ {o}
  /\ tpc' = IF sess[o].player # None THEN "save" ELSE "actor"
  /\ UNCHANGED <<bindVars, mapVars, netVars, loginVars, requestVars, collected>>

\* Mutant: the Player is logged out, by its account.
SaveTimedOut_LogsOut ==
  /\ GoT("save", "index")
  /\ mapped' = None
  /\ saved' = saved \cup {sess[cleaning].player}
  /\ UNCHANGED <<bindVars, marked, netVars, loginVars, requestVars, stale, cleaning, collected>>

SaveTimedOut ==
  /\ GoT("save", "index")
  /\ saved' = saved \cup {sess[cleaning].player}
  /\ UNCHANGED <<bindVars, mapped, marked, netVars, loginVars, requestVars, stale, cleaning,
                 collected>>

\* UnbindPlayerFromSession goes by the account: it removes the entry of a newer
\* login's Session as well.
UnbindIndex ==
  /\ GoT("index", "actor")
  /\ index' = None
  /\ UNCHANGED <<container, sess, mapVars, netVars, loginVars, requestVars, stale, cleaning,
                 collected>>

UnbindActor ==
  /\ GoT("actor", "player")
  /\ sess' = [sess EXCEPT ![cleaning].actor = None]
  /\ UNCHANGED <<container, index, mapVars, netVars, loginVars, requestVars, stale, cleaning,
                 collected>>

UnbindPlayer ==
  /\ GoT("player", IF stale = {} THEN "scan" ELSE "next")
  /\ sess' = [sess EXCEPT ![cleaning].player = None]
  /\ cleaning' = None
  /\ UNCHANGED <<container, index, mapVars, netVars, loginVars, requestVars, stale, collected>>

CheckTimeout ==
  \/ \E s \in Sids : Collect(s)
  \/ \E o \in Objects : CleanSession(o)
  \/ SaveTimedOut \/ UnbindIndex \/ UnbindActor \/ UnbindPlayer

-----------------------------------------------------------------------------
Next == \/ \E n \in Logins, s \in Sids, c \in Conns : ReceiveLogin(n, s, c)
        \/ \E n \in Logins : Login(n)
        \/ \E s \in Sids, c \in Conns : ReceiveRequest(s, c)
        \/ Request \/ CheckTimeout

Spec == Init /\ [][Next]_vars

-----------------------------------------------------------------------------
(* What the bindings must satisfy *)

\* The variables keep their types.
TypeOK ==
  /\ container \in [Sids -> Objects \cup {None}]
  /\ sess \in [Objects -> [sid : Sids \cup {None}, conn : Conns \cup {None},
                          player : Logins \cup {None}, actor : Logins \cup {None}]]
  /\ index \in Objects \cup {None} /\ mapped \in Logins \cup {None}
  /\ marked \subseteq Logins /\ saved \subseteq Logins
  /\ closed \subseteq Conns \cup {None} /\ packets \in 0 .. MaxPackets
  /\ pc \in [Logins -> {"idle", "load", "create", "kick", "find", "mark", "erase", "save", "insert",
                        "bindPlayer", "bindActor", "bindIndex", "done"}]
  /\ sidOf \in [Logins -> Sids \cup {None}] /\ via \in [Logins -> Conns \cup {None}]
  /\ mine \in [Logins -> Objects \cup {None}] /\ found \in [Logins -> Logins \cup {None}]
  /\ rpc \in {"idle", "player", "actor", "run"} /\ rvia \in Conns \cup {None}
  /\ rsess \in Objects \cup {None}
  /\ rplayer \in Logins \cup {None} /\ ractor \in Logins \cup {None}
  /\ tpc \in {"scan", "next", "save", "index", "actor", "player"}
  /\ stale \subseteq Objects /\ collected \subseteq Objects /\ cleaning \in Objects \cup {None}

\* Did all logins come by one connection, so that their handlers did not overlap?
OneConnection == \A m, n \in Logins : None \notin {via[m], via[n]} => via[m] = via[n]
Inserted == {n \in Logins : pc[n] \in {"bindPlayer", "bindActor", "bindIndex", "done"}}
Quiet == \A n \in Logins : ~InHandler(n)

\* Although Logout erases by account, and so the Player of a newer login as well,
\* the account has a Player in the map that is not logging out, whenever no login is
\* on its way from marking it to its own insertion: the autosave finds the Player
\* that is played (PlayerManager.cpp:58, :69).
LoggedInIsMapped ==
  /\ Inserted # {} /\ mapped = None => \E n \in Logins : pc[n] \in {"save", "insert"}
  /\ mapped \in marked => \E n \in Logins : pc[n] = "erase" /\ found[n] = mapped

\* When the handlers do not overlap, no Player leaves the map without a save:
\* Logout finds each one before its successor is inserted (LoginService.cpp:116).
ReplacedIsSaved ==
  OneConnection => \A n \in Inserted :
    n = mapped \/ n \in saved \/ \E m \in Logins : pc[m] = "save" /\ found[m] = n

\* When the handlers do not overlap, the index leads to the Session of the Player
\* in the map or nowhere, and nowhere only if a Session has timed out: the next
\* login closes the right connection or none (SessionManager.cpp:61, :169).
IndexIsCurrent ==
  OneConnection /\ Quiet /\ Inserted # {} =>
    /\ index # None => sess[index].player = mapped
    /\ index = None => collected # {}

\* The Session that a login was bound to is the one that packets of its sid find,
\* until it times out, although packets and handlers make Sessions at the same time
\* (SessionManager.cpp:25).
LoginIsReachable ==
  \A n \in Logins : pc[n] = "done" => container[sidOf[n]] = mine[n] \/ mine[n] \in collected

\* A request that finds a player is run by that player's actor, unless its Session
\* has timed out meanwhile, or logins of its Session come by another connection:
\* no handler works on a Player beside the Player's actor (main.cpp:145,
\* MessageDispatcher.cpp:57).
RequestRunsInItsActor ==
  rpc = "run" /\ rplayer # None /\ rsess \notin collected
    /\ (\A n \in Logins : sidOf[n] = sess[rsess].sid => via[n] = rvia)
  => ractor = rplayer
=============================================================================
