------------------------- MODULE SessionLoginProofs -------------------------
(* Theorems about SessionLogin, for any number of sids, connections, logins    *)
(* and packets.                                                                *)
EXTENDS SessionLogin, TLAPS

-----------------------------------------------------------------------------
(* Type correctness *)

\* The places of a handler that has its Session, and those at which it has found a
\* Player to log out.
HasSession == {"kick", "find", "mark", "erase", "save", "insert",
               "bindPlayer", "bindActor", "bindIndex", "done"}
HasFound == {"mark", "erase", "save"}

\* Each thread has what it works with where it needs it.
LocalsFit ==
  /\ \A n \in Logins :
       /\ pc[n] = "idle" => via[n] = None
       /\ pc[n] # "idle" => via[n] # None /\ sidOf[n] # None
       /\ pc[n] \in HasSession => mine[n] # None
       /\ pc[n] \in HasFound => found[n] # None
  /\ rpc # "idle" => rsess # None
  /\ tpc \in {"save", "index", "actor", "player"} => cleaning # None
  /\ tpc = "save" => sess[cleaning].player # None

TypeInv == TypeOK /\ LocalsFit

Bindings == [sid : Sids \cup {None}, conn : Conns \cup {None},
             player : Logins \cup {None}, actor : Logins \cup {None}]

\* A new Session has no player.
LEMMA NewSessionType ==
  ASSUME TypeInv, NEW s \in Sids, NEW c \in Conns, NEW o \in Objects, NewSession(o, s, c)
  PROVE  /\ container' \in [Sids -> Objects \cup {None}]
         /\ sess' \in [Objects -> Bindings]
         /\ \A q \in Objects : sess'[q].player = sess[q].player
  <1> DEFINE new == [sid |-> s, conn |-> c, player |-> None, actor |-> None]
  <1>1. new \in Bindings /\ new.player = None  BY DEF Bindings
  <1>2. sess[o].player = None  BY DEF NewSession, NoSession
  <1>3. sess \in [Objects -> Bindings] /\ container \in [Sids -> Objects \cup {None}]
    BY DEF TypeInv, TypeOK, Bindings
  <1>4. sess' = [sess EXCEPT ![o] = new] /\ container' = [container EXCEPT ![s] = o]
    BY DEF NewSession
  <1> HIDE DEF new
  <1> QED  BY <1>1, <1>2, <1>3, <1>4

\* A Session's connection is set anew.
LEMMA ConnectType ==
  ASSUME TypeInv, NEW c \in Conns, NEW o \in Objects, sess' = [sess EXCEPT ![o].conn = c]
  PROVE  /\ sess' \in [Objects -> Bindings]
         /\ \A q \in Objects : sess'[q].player = sess[q].player
  BY DEF TypeInv, TypeOK, Bindings

\* A packet gives its sid's Session a connection, or makes that Session.
LEMMA PacketType ==
  ASSUME TypeInv, NEW s \in Sids, NEW c \in Conns, NEW o \in Objects, Packet(o, s, c)
  PROVE  /\ container' \in [Sids -> Objects \cup {None}]
         /\ sess' \in [Objects -> Bindings]
         /\ packets' \in 0 .. MaxPackets
         /\ \A q \in Objects : sess'[q].player = sess[q].player
  <1>1. packets' \in 0 .. MaxPackets  BY LoginAssumption DEF TypeInv, TypeOK, Packet
  <1>2. CASE NewSession(o, s, c)  BY <1>1, <1>2, NewSessionType
  <1>3. CASE sess' = [sess EXCEPT ![o].conn = c] /\ UNCHANGED container
    BY <1>1, <1>3, ConnectType DEF TypeInv, TypeOK
  <1> QED  BY <1>2, <1>3 DEF Packet

\* The type invariant is kept by the steps of a login.
LEMMA LoginType == ASSUME TypeInv, NEW n \in Logins, Login(n) PROVE TypeInv'
  <1> USE LoginAssumption DEF TypeInv, TypeOK, LocalsFit, HasSession, HasFound, Go, bindVars,
          mapVars, netVars, requestVars, timerVars
  <1>1. CASE GetSession(n)  BY <1>1 DEF GetSession
  <1>2. CASE CreateSession(n)
    <2>1. sidOf[n] \in Sids /\ via[n] \in Conns  BY <1>2 DEF CreateSession
    <2>2. PICK o \in Objects :
            /\ mine' = [mine EXCEPT ![n] = o]
            /\ \/ sess' = [sess EXCEPT ![o].conn = via[n]] /\ UNCHANGED container
               \/ NewSession(o, sidOf[n], via[n])
      BY <1>2 DEF CreateSession
    <2>3. /\ container' \in [Sids -> Objects \cup {None}]
          /\ sess' \in [Objects -> Bindings]
          /\ \A q \in Objects : sess'[q].player = sess[q].player
      BY <2>1, <2>2, NewSessionType, ConnectType
    <2> QED  BY <1>2, <2>2, <2>3 DEF CreateSession, Bindings
  <1>3. CASE Kick(n)
    <2>1. closed' \subseteq Conns \cup {None}  BY <1>3 DEF Kick
    <2> QED  BY <1>3, <2>1 DEF Kick
  <1>4. CASE FindPlayer(n)  BY <1>4 DEF FindPlayer
  <1>5. CASE MarkLoggingOut(n)  BY <1>5 DEF MarkLoggingOut
  <1>6. CASE ErasePlayer(n)  BY <1>6 DEF ErasePlayer
  <1>7. CASE SaveLoggedOut(n)  BY <1>7 DEF SaveLoggedOut
  <1>8. CASE InsertPlayer(n)  BY <1>8 DEF InsertPlayer
  <1>9. CASE BindPlayer(n)  BY <1>9, SMTT(30) DEF BindPlayer
  <1>10. CASE BindActor(n)  BY <1>10, SMTT(30) DEF BindActor
  <1>11. CASE BindPlayerToSession(n)  BY <1>11 DEF BindPlayerToSession
  <1> QED
    BY <1>1, <1>2, <1>3, <1>4, <1>5, <1>6, <1>7, <1>8, <1>9, <1>10, <1>11 DEF Login

\* The type invariant is kept by every step.
LEMMA TypeStep == ASSUME TypeInv, [Next]_vars PROVE TypeInv'
  <1> USE LoginAssumption DEF TypeInv, TypeOK, LocalsFit, HasSession, HasFound, Go, GoR, GoT,
          bindVars, mapVars, netVars, loginVars, requestVars, timerVars
  <1>1. ASSUME NEW n \in Logins, NEW s \in Sids, NEW c \in Conns, ReceiveLogin(n, s, c)
        PROVE  TypeInv'
    <2>1. PICK o \in Objects : Packet(o, s, c)  BY <1>1 DEF ReceiveLogin
    <2> QED  BY <1>1, <2>1, PacketType DEF Bindings, ReceiveLogin
  <1>2. ASSUME NEW n \in Logins, Login(n) PROVE TypeInv'  BY <1>2, LoginType
  <1>3. ASSUME NEW s \in Sids, NEW c \in Conns, ReceiveRequest(s, c) PROVE TypeInv'
    <2>1. PICK o \in Objects : Packet(o, s, c) /\ rsess' = o  BY <1>3 DEF ReceiveRequest
    <2> QED  BY <1>3, <2>1, PacketType DEF Bindings, ReceiveRequest
  <1>4. CASE Request
    BY <1>4 DEF Request, ReadPlayer, Dispatch, EndRequest
  <1>5. CASE CheckTimeout
    <2>1. ASSUME NEW s \in Sids, Collect(s) PROVE TypeInv'  BY <1>5, <2>1 DEF Collect
    <2>2. ASSUME NEW o \in Objects, CleanSession(o) PROVE TypeInv'  BY <2>2 DEF CleanSession
    <2>3. CASE SaveTimedOut  BY <2>3 DEF SaveTimedOut
    <2>4. CASE UnbindIndex  BY <2>4 DEF UnbindIndex
    <2>5. CASE UnbindActor  BY <2>5 DEF UnbindActor
    <2>6. CASE UnbindPlayer  BY <2>6 DEF UnbindPlayer
    <2> QED  BY <1>5, <2>1, <2>2, <2>3, <2>4, <2>5, <2>6 DEF CheckTimeout
  <1>6. CASE UNCHANGED vars  BY <1>6 DEF vars
  <1> QED  BY <1>1, <1>2, <1>3, <1>4, <1>5, <1>6 DEF Next

LEMMA InitType == Init => TypeInv
  BY LoginAssumption DEF Init, TypeInv, TypeOK, LocalsFit, HasSession, HasFound, NoSession

LEMMA TypeInvariant == Spec => []TypeInv
  BY InitType, TypeStep, PTL DEF Spec

\* The variables keep their types.
THEOREM TypeCorrect == Spec => []TypeOK
  <1>1. TypeInv => TypeOK  BY DEF TypeInv
  <1> QED  BY <1>1, TypeInvariant, PTL

-----------------------------------------------------------------------------
(* Which steps change what *)

loginPlaces == <<pc, via, found, mapped, marked>>

\* A step that is not a login's leaves logins and the player map alone, or receives a
\* login; saves are never taken back.
LEMMA OtherSteps ==
  ASSUME TypeInv, [Next]_vars
  PROVE  /\ \/ \E n \in Logins : Login(n)
            \/ \E n \in Logins, c \in Conns :
                 /\ Go(n, "idle", "load") /\ via' = [via EXCEPT ![n] = c]
                 /\ UNCHANGED <<found, mapped, marked, saved>>
            \/ UNCHANGED loginPlaces
         /\ saved \subseteq saved'
  <1> USE DEF loginPlaces, bindVars, mapVars, netVars, loginVars, requestVars, timerVars
  <1>1. ASSUME NEW n \in Logins, NEW s \in Sids, NEW c \in Conns, ReceiveLogin(n, s, c)
        PROVE  /\ Go(n, "idle", "load") /\ via' = [via EXCEPT ![n] = c]
               /\ UNCHANGED <<found, mapped, marked, saved>>
    BY <1>1 DEF ReceiveLogin
  <1>2. ASSUME NEW n \in Logins, Login(n) PROVE saved \subseteq saved'
    BY <1>2 DEF Login, GetSession, CreateSession, Kick, FindPlayer, MarkLoggingOut, ErasePlayer,
                SaveLoggedOut, InsertPlayer, BindPlayer, BindActor, BindPlayerToSession
  <1>3. ASSUME NEW s \in Sids, NEW c \in Conns, ReceiveRequest(s, c)
        PROVE  UNCHANGED loginPlaces /\ saved \subseteq saved'
    BY <1>3 DEF ReceiveRequest
  <1>4. CASE Request
    BY <1>4 DEF Request, ReadPlayer, Dispatch, EndRequest
  <1>5. CASE CheckTimeout
    BY <1>5 DEF CheckTimeout, Collect, CleanSession, SaveTimedOut, UnbindIndex, UnbindActor,
                UnbindPlayer
  <1>6. CASE UNCHANGED vars  BY <1>6 DEF vars
  <1> QED  BY <1>1, <1>2, <1>3, <1>4, <1>5, <1>6 DEF Next

-----------------------------------------------------------------------------
(* The player that is played is in the map *)

\* Only inserted Players are in the map, are found there, and are marked.
OnlyInserted ==
  /\ mapped \in Inserted \cup {None} /\ marked \subseteq Inserted
  /\ \A n \in Logins : found[n] \in Inserted \cup {None}

MapInv == TypeInv /\ OnlyInserted /\ LoggedInIsMapped

\* A login's steps keep what is said of the map.
LEMMA LoginKeepsMap ==
  ASSUME MapInv, NEW n \in Logins, Login(n)
  PROVE  OnlyInserted' /\ LoggedInIsMapped'
  <1> USE LoginAssumption DEF MapInv, TypeInv, TypeOK, LocalsFit, HasFound, OnlyInserted, Inserted,
          LoggedInIsMapped, Go, mapVars
  <1>1. CASE GetSession(n) \/ CreateSession(n) \/ Kick(n)
    BY <1>1 DEF GetSession, CreateSession, Kick
  <1>2. CASE FindPlayer(n)  BY <1>2 DEF FindPlayer
  <1>3. CASE MarkLoggingOut(n)  BY <1>3, SMTT(30) DEF MarkLoggingOut
  <1>4. CASE ErasePlayer(n)  BY <1>4 DEF ErasePlayer
  <1>5. CASE SaveLoggedOut(n)  BY <1>5 DEF SaveLoggedOut
  <1>6. CASE InsertPlayer(n)  BY <1>6 DEF InsertPlayer
  <1>7. CASE BindPlayer(n) \/ BindActor(n) \/ BindPlayerToSession(n)
    <2>1. /\ UNCHANGED <<mapped, marked, found>>
          /\ \A m \in Logins : m # n => pc'[m] = pc[m]
          /\ {pc[n], pc'[n]} \subseteq {"bindPlayer", "bindActor", "bindIndex", "done"}
      BY <1>7 DEF BindPlayer, BindActor, BindPlayerToSession
    <2> QED  BY <2>1
  <1> QED  BY <1>1, <1>2, <1>3, <1>4, <1>5, <1>6, <1>7 DEF Login

LEMMA MapStep == ASSUME MapInv, [Next]_vars PROVE MapInv'
  <1>1. TypeInv'  BY TypeStep DEF MapInv
  <1>2. CASE \E n \in Logins : Login(n)  BY <1>1, <1>2, LoginKeepsMap DEF MapInv
  <1>3. ASSUME NEW n \in Logins, Go(n, "idle", "load"), UNCHANGED <<found, mapped, marked>>
        PROVE  OnlyInserted' /\ LoggedInIsMapped'
    BY <1>3 DEF MapInv, TypeInv, TypeOK, OnlyInserted, Inserted, LoggedInIsMapped, Go
  <1>4. CASE UNCHANGED loginPlaces
    BY <1>1, <1>4 DEF MapInv, OnlyInserted, Inserted, LoggedInIsMapped, loginPlaces
  <1> QED  BY <1>1, <1>2, <1>3, <1>4, OtherSteps DEF MapInv

LEMMA MapInvariant == Spec => []MapInv
  <1>1. Init => MapInv
    BY LoginAssumption, InitType DEF Init, MapInv, OnlyInserted, Inserted, LoggedInIsMapped
  <1> QED  BY <1>1, MapStep, PTL DEF Spec

\* However logins and timeouts of the account overlap, its Player is in the map, and not
\* logging out, whenever no login is between its mark and its insertion
\* (PlayerManager.cpp:58, :69).
THEOREM PlayerStaysMapped == Spec => []LoggedInIsMapped
  <1>1. MapInv => LoggedInIsMapped  BY DEF MapInv
  <1> QED  BY <1>1, MapInvariant, PTL

-----------------------------------------------------------------------------
(* With one connection, replaced Players are saved *)

\* The handlers of one connection do not overlap.
OneHandler ==
  OneConnection => \A m, n \in Logins : InHandler(m) /\ InHandler(n) => m = n

\* What the only handler has found is what the map holds, until it erases it.
FoundIsMapped ==
  OneConnection => \A n \in Logins :
    /\ pc[n] \in {"mark", "erase"} => found[n] = mapped
    /\ pc[n] \in {"save", "insert"} => mapped = None

SaveInv == MapInv /\ OneHandler /\ FoundIsMapped /\ ReplacedIsSaved

\* A login's steps keep the handlers apart.
LEMMA LoginKeepsApart ==
  ASSUME TypeInv, OneHandler, OneConnection, NEW n \in Logins, Login(n)
  PROVE  /\ OneConnection' = OneConnection /\ via' = via
         /\ OneHandler'
  <1> USE DEF TypeInv, TypeOK, LocalsFit, Go
  <1>1. via' = via
    BY DEF Login, GetSession, CreateSession, Kick, FindPlayer, MarkLoggingOut, ErasePlayer,
           SaveLoggedOut, InsertPlayer, BindPlayer, BindActor, BindPlayerToSession
  <1>2. CASE GetSession(n)
    <2>1. \A m \in Logins : ~InHandler(m)
      <3>1. Executes(via[n]) /\ via[n] # None  BY <1>2 DEF GetSession
      <3>2. \A m \in Logins : InHandler(m) => via[m] = via[n]
        BY <3>1 DEF OneConnection, InHandler
      <3> QED  BY <3>1, <3>2 DEF Executes
    <2>2. \A m \in Logins \ {n} : pc'[m] = pc[m]  BY <1>2 DEF GetSession
    <2> QED  BY <1>1, <2>1, <2>2 DEF OneHandler, OneConnection, InHandler
  <1>3. CASE InHandler(n)
    <2>1. \A m \in Logins \ {n} : pc'[m] = pc[m]
      BY DEF Login, GetSession, CreateSession, Kick, FindPlayer, MarkLoggingOut, ErasePlayer,
             SaveLoggedOut, InsertPlayer, BindPlayer, BindActor, BindPlayerToSession
    <2> QED  BY <1>1, <1>3, <2>1 DEF OneHandler, OneConnection, InHandler
  <1>4. GetSession(n) \/ InHandler(n)
    BY DEF InHandler, Login, CreateSession, Kick, FindPlayer, MarkLoggingOut, ErasePlayer,
           SaveLoggedOut, InsertPlayer, BindPlayer, BindActor, BindPlayerToSession
  <1> QED  BY <1>1, <1>2, <1>3, <1>4 DEF OneConnection

\* A login's steps keep what is found, mapped and saved together.
LEMMA LoginKeepsSaved ==
  ASSUME SaveInv, OneConnection, NEW n \in Logins, Login(n)
  PROVE  FoundIsMapped' /\ ReplacedIsSaved'
  <1>1. OneConnection' = OneConnection /\ via' = via
    BY LoginKeepsApart DEF SaveInv, MapInv
  <1>2. InHandler(n) => \A m \in Logins \ {n} : ~InHandler(m)  BY DEF SaveInv, OneHandler
  <1> USE LoginAssumption DEF SaveInv, MapInv, TypeInv, TypeOK, LocalsFit, HasFound, OnlyInserted,
          Inserted, LoggedInIsMapped, FoundIsMapped, ReplacedIsSaved, Go, mapVars, InHandler
  <1>3. CASE GetSession(n) \/ CreateSession(n) \/ Kick(n)
    BY <1>1, <1>3 DEF GetSession, CreateSession, Kick
  <1>4. CASE FindPlayer(n)  BY <1>1, <1>2, <1>4 DEF FindPlayer
  <1>5. CASE MarkLoggingOut(n)
    <2>1. found[n] \notin marked  BY <1>2, <1>5 DEF MarkLoggingOut
    <2> QED  BY <1>1, <1>2, <1>5, <2>1 DEF MarkLoggingOut
  <1>6. CASE ErasePlayer(n)  BY <1>1, <1>2, <1>6 DEF ErasePlayer
  <1>7. CASE SaveLoggedOut(n)  BY <1>1, <1>2, <1>7 DEF SaveLoggedOut
  <1>8. CASE InsertPlayer(n)  BY <1>1, <1>2, <1>8 DEF InsertPlayer
  <1>9. CASE BindPlayer(n) \/ BindActor(n) \/ BindPlayerToSession(n)
    BY <1>1, <1>9 DEF BindPlayer, BindActor, BindPlayerToSession
  <1> QED  BY <1>3, <1>4, <1>5, <1>6, <1>7, <1>8, <1>9 DEF Login

LEMMA SaveStep == ASSUME SaveInv, [Next]_vars PROVE SaveInv'
  <1>1. MapInv'  BY MapStep DEF SaveInv
  <1>2. SUFFICES OneHandler' /\ FoundIsMapped' /\ ReplacedIsSaved'  BY <1>1 DEF SaveInv
  <1>3. saved \subseteq saved'  BY OtherSteps DEF SaveInv, MapInv
  <1>4. ASSUME NEW n \in Logins, Login(n)
        PROVE  OneHandler' /\ FoundIsMapped' /\ ReplacedIsSaved'
    <2>1. CASE OneConnection  BY <1>4, <2>1, LoginKeepsApart, LoginKeepsSaved DEF SaveInv, MapInv
    <2>2. CASE ~OneConnection
      <3>1. via' = via
        BY <1>4 DEF Login, GetSession, CreateSession, Kick, FindPlayer, MarkLoggingOut, ErasePlayer,
               SaveLoggedOut, InsertPlayer, BindPlayer, BindActor, BindPlayerToSession
      <3> QED  BY <2>2, <3>1 DEF OneConnection, OneHandler, FoundIsMapped, ReplacedIsSaved
    <2> QED  BY <2>1, <2>2
  <1>5. ASSUME NEW n \in Logins, NEW c \in Conns, Go(n, "idle", "load"),
               via' = [via EXCEPT ![n] = c], UNCHANGED <<found, mapped, marked, saved>>
        PROVE  OneHandler' /\ FoundIsMapped' /\ ReplacedIsSaved'
    <2>1. via[n] = None /\ \A m \in Logins \ {n} : via'[m] = via[m] /\ pc'[m] = pc[m]
      BY <1>5 DEF SaveInv, MapInv, TypeInv, LocalsFit, TypeOK, Go
    <2>2. OneConnection' => OneConnection  BY <2>1 DEF OneConnection
    <2>3. \A m \in Logins : InHandler(m)' => InHandler(m)  BY <1>5, <2>1 DEF InHandler, Go
    <2>4. OneHandler'  BY <2>2, <2>3 DEF OneHandler, SaveInv
    <2>5. Inserted' = Inserted  BY <1>5, <2>1 DEF Inserted, Go, SaveInv, MapInv, TypeInv, TypeOK
    <2> QED
      BY <1>5, <2>1, <2>2, <2>4, <2>5
      DEF SaveInv, MapInv, TypeInv, TypeOK, FoundIsMapped, ReplacedIsSaved, Go
  <1>6. CASE UNCHANGED loginPlaces
    BY <1>3, <1>6 DEF SaveInv, OneHandler, OneConnection, InHandler, FoundIsMapped, ReplacedIsSaved,
                      Inserted, loginPlaces
  <1> QED  BY <1>4, <1>5, <1>6, OtherSteps DEF SaveInv, MapInv

LEMMA SaveInit == Init => SaveInv
  <1> SUFFICES ASSUME Init PROVE SaveInv  OBVIOUS
  <1>1. MapInv
    BY LoginAssumption, InitType DEF Init, MapInv, OnlyInserted, Inserted, LoggedInIsMapped
  <1> QED
    BY <1>1 DEF Init, SaveInv, OneHandler, InHandler, FoundIsMapped, ReplacedIsSaved, Inserted

\* When an account's logins come by one connection, no Player leaves the map without a
\* save: each login finds its predecessor before it inserts its own
\* (LoginService.cpp:116).
THEOREM ReplacedPlayersAreSaved == Spec => []ReplacedIsSaved
  <1>1. SaveInv => ReplacedIsSaved  BY DEF SaveInv
  <1> QED  BY <1>1, SaveInit, SaveStep, PTL DEF Spec

-----------------------------------------------------------------------------
(* The Session of a login is the one that packets find *)

\* A handler's Session is in its bucket while the handler runs.
HandlerIsReachable == \A n \in Logins :
  InHandler(n) /\ pc[n] \in HasSession => container[sidOf[n]] = mine[n]

ReachInv == TypeInv /\ HandlerIsReachable /\ LoginIsReachable

\* A Session that is in its bucket stays there.
BucketsGrow == \A s \in Sids : container[s] # None => container'[s] = container[s]

\* A step that keeps the Sessions in their buckets and changes no handler's place, sid
\* or Session, except to begin a login.
LEMMA ReachFrame ==
  ASSUME ReachInv, BucketsGrow, mine' = mine, collected' = collected,
         \A n \in Logins : pc'[n] = "load" \/ (pc'[n] = pc[n] /\ sidOf'[n] = sidOf[n])
  PROVE  HandlerIsReachable' /\ LoginIsReachable'
  BY LoginAssumption DEF ReachInv, TypeInv, TypeOK, LocalsFit, HandlerIsReachable, LoginIsReachable,
                         BucketsGrow, InHandler, HasSession

\* A packet leaves the Sessions in their buckets.
LEMMA PacketKeepsBuckets ==
  ASSUME TypeInv, NEW s \in Sids, NEW c \in Conns, NEW o \in Objects, Packet(o, s, c)
  PROVE  BucketsGrow
  BY DEF TypeInv, TypeOK, Packet, NewSession, BucketsGrow

LEMMA ReachStep == ASSUME ReachInv, [Next]_vars PROVE ReachInv'
  <1>1. TypeInv'  BY TypeStep DEF ReachInv
  <1>2. SUFFICES HandlerIsReachable' /\ LoginIsReachable'  BY <1>1 DEF ReachInv
  <1> USE DEF bindVars, mapVars, netVars, loginVars, requestVars, timerVars
  <1>3. ASSUME NEW n \in Logins, NEW s \in Sids, NEW c \in Conns, ReceiveLogin(n, s, c)
        PROVE  HandlerIsReachable' /\ LoginIsReachable'
    <2>1. BucketsGrow  BY <1>3, PacketKeepsBuckets DEF ReceiveLogin, ReachInv
    <2>2. \A m \in Logins : pc'[m] = "load" \/ (pc'[m] = pc[m] /\ sidOf'[m] = sidOf[m])
      <3>1. pc' = [pc EXCEPT ![n] = "load"] /\ sidOf' = [sidOf EXCEPT ![n] = s]
        BY <1>3 DEF ReceiveLogin, Go
      <3>2. DOMAIN pc = Logins /\ DOMAIN sidOf = Logins  BY DEF ReachInv, TypeInv, TypeOK
      <3> QED  BY <3>1, <3>2
    <2> QED  BY <1>3, <2>1, <2>2, ReachFrame DEF ReceiveLogin
  <1>4. ASSUME NEW n \in Logins, Login(n)
        PROVE  HandlerIsReachable' /\ LoginIsReachable'
    <2> USE LoginAssumption DEF ReachInv, TypeInv, TypeOK, LocalsFit, HandlerIsReachable,
            LoginIsReachable, InHandler, HasSession, Go
    <2>1. CASE GetSession(n)  BY <2>1 DEF GetSession
    <2>2. CASE CreateSession(n)
      <3>1. sidOf[n] \in Sids  BY <2>2 DEF CreateSession
      <3>2. BucketsGrow  BY <2>2, <3>1 DEF CreateSession, NewSession, BucketsGrow
      <3>3. mine'[n] # None /\ container'[sidOf[n]] = mine'[n]
        BY <2>2, <3>1 DEF CreateSession, NewSession
      <3>4. \A m \in Logins \ {n} : pc'[m] = pc[m] /\ mine'[m] = mine[m]
        BY <2>2 DEF CreateSession
      <3>5. sidOf' = sidOf /\ collected' = collected /\ pc'[n] = "kick"
        BY <2>2 DEF CreateSession
      <3> QED  BY <3>2, <3>3, <3>4, <3>5 DEF BucketsGrow
    <2>3. CASE Kick(n)  BY <2>3 DEF Kick
    <2>4. CASE FindPlayer(n) \/ MarkLoggingOut(n)
      <3>1. /\ UNCHANGED <<container, sidOf, mine, collected>>
            /\ \A m \in Logins : m # n => pc'[m] = pc[m]
            /\ {pc[n], pc'[n]} \subseteq {"find", "mark", "erase", "insert"}
        BY <2>4 DEF FindPlayer, MarkLoggingOut
      <3> QED  BY <3>1
    <2>5. CASE ErasePlayer(n) \/ SaveLoggedOut(n) \/ InsertPlayer(n)
      BY <2>5 DEF ErasePlayer, SaveLoggedOut, InsertPlayer
    <2>6. CASE BindPlayer(n) \/ BindActor(n) \/ BindPlayerToSession(n)
      BY <2>6, SMTT(30) DEF BindPlayer, BindActor, BindPlayerToSession
    <2> QED  BY <1>4, <2>1, <2>2, <2>3, <2>4, <2>5, <2>6 DEF Login
  <1>5. ASSUME NEW s \in Sids, NEW c \in Conns, ReceiveRequest(s, c)
        PROVE  HandlerIsReachable' /\ LoginIsReachable'
    <2>1. BucketsGrow  BY <1>5, PacketKeepsBuckets DEF ReceiveRequest, ReachInv
    <2> QED  BY <1>5, <2>1, ReachFrame DEF ReceiveRequest
  <1>6. CASE Request
    <2>1. BucketsGrow  BY <1>6 DEF Request, ReadPlayer, Dispatch, EndRequest, BucketsGrow
    <2> QED  BY <1>6, <2>1, ReachFrame DEF Request, ReadPlayer, Dispatch, EndRequest
  <1>7. ASSUME NEW s \in Sids, Collect(s)
        PROVE  HandlerIsReachable' /\ LoginIsReachable'
    <2>1. container' = [container EXCEPT ![s] = None]
          /\ collected' = collected \cup {container[s]} /\ UNCHANGED loginVars
      BY <1>7 DEF Collect
    <2>2. \A n \in Logins : InHandler(n) => sidOf[n] # s  BY <1>7 DEF Collect
    <2> QED
      BY <2>1, <2>2 DEF ReachInv, TypeInv, TypeOK, LocalsFit, HandlerIsReachable, LoginIsReachable,
                        InHandler, HasSession
  <1>8. CASE (\E o \in Objects : CleanSession(o)) \/ SaveTimedOut \/ UnbindIndex
               \/ UnbindActor \/ UnbindPlayer
    <2>1. UNCHANGED <<container, loginVars, collected>>
      BY <1>8 DEF CleanSession, SaveTimedOut, UnbindIndex, UnbindActor, UnbindPlayer
    <2>2. BucketsGrow  BY <2>1 DEF BucketsGrow
    <2> QED  BY <2>1, <2>2, ReachFrame
  <1>9. CASE UNCHANGED vars
    <2>1. BucketsGrow  BY <1>9 DEF BucketsGrow, vars
    <2> QED  BY <1>9, <2>1, ReachFrame DEF vars
  <1> QED  BY <1>3, <1>4, <1>5, <1>6, <1>7, <1>8, <1>9 DEF Next, CheckTimeout

LEMMA ReachInit == Init => ReachInv
  BY InitType DEF Init, ReachInv, HandlerIsReachable, LoginIsReachable, InHandler

\* However packets, logins and timeouts overlap, a login's packets find the Session that
\* it was bound to, until that has timed out (SessionManager.cpp:25).
THEOREM LoginsAreReachable == Spec => []LoginIsReachable
  <1>1. ReachInv => LoginIsReachable  BY DEF ReachInv
  <1> QED  BY <1>1, ReachInit, ReachStep, PTL DEF Spec

-----------------------------------------------------------------------------
(* Sessions and players stay together *)

\* A Session object belongs to one sid and is in its bucket only; CheckTimeout works on
\* Sessions that have left theirs.
SessionsFit ==
  /\ \A s \in Sids : container[s] # None =>
       sess[container[s]].sid = s /\ container[s] \notin collected
  /\ \A o \in collected : sess[o].sid # None
  /\ stale \subseteq collected /\ cleaning \in collected \cup {None}
  /\ rsess # None => sess[rsess].sid # None
  /\ \A n \in Logins : pc[n] = "idle" => sidOf[n] = None

\* The executor of a connection runs one handler at a time.
Exclusive ==
  /\ \A m, n \in Logins : InHandler(m) /\ InHandler(n) /\ via[m] = via[n] => m = n
  /\ rpc # "idle" => \A n \in Logins : InHandler(n) => via[n] # rvia

\* Is o a Session in use, the logins of which come by connection c?
Through(o, c) ==
  /\ sess[o].sid # None /\ o \notin collected
  /\ \A n \in Logins : sidOf[n] = sess[o].sid => via[n] = c

\* Such a Session has the actor of its player, or its only handler is about to bind it.
BoundTogether ==
  \A o \in Objects, c \in Conns \cup {None} : Through(o, c) =>
    /\ sess[o].player # sess[o].actor => \E n \in Logins : pc[n] = "bindActor" /\ mine[n] = o
    /\ \A n \in Logins : pc[n] = "bindActor" /\ mine[n] = o => sess[o].player = n

\* A request that has read the player still sees him, and then has his actor.
RequestInOrder ==
  rplayer # None /\ Through(rsess, rvia) =>
    /\ rpc = "actor" => sess[rsess].player = rplayer
    /\ rpc = "run" => ractor = rplayer

Rebinding == {"save", "insert", "bindPlayer", "bindActor", "bindIndex"}

\* The index leads to a Session with a player, which CheckTimeout has not begun to
\* unbind.
IndexHasPlayer ==
  /\ index # None => sess[index].player # None
  /\ tpc \in {"actor", "player"} => index # cleaning
  /\ \A n \in Logins : pc[n] \in {"bindActor", "bindIndex"} => sess[mine[n]].player # None

\* With one connection the index follows the map, while no login changes them.
IndexFollows == OneConnection =>
  /\ \A n \in Logins :
       /\ pc[n] \in {"bindPlayer", "bindActor", "bindIndex"} => mapped = n
       /\ pc[n] \in {"bindActor", "bindIndex"} => sess[mine[n]].player = n
  /\ Inserted # {} /\ (\A n \in Logins : pc[n] \notin Rebinding) =>
       /\ index # None => sess[index].player = mapped
       /\ index = None => collected # {}

\* A packet or a login finds the Session of its sid, or makes one.
Connects(o, s, c) ==
  \/ container[s] = o /\ sess' = [sess EXCEPT ![o].conn = c] /\ UNCHANGED container
  \/ container[s] = None /\ NewSession(o, s, c)

LEMMA ConnectsFits ==
  ASSUME TypeInv, SessionsFit, NEW o \in Objects, NEW s \in Sids, NEW c \in Conns, Connects(o, s, c)
  PROVE  /\ \A q \in Objects : sess[q].sid # None => sess'[q].sid = sess[q].sid
         /\ \A q \in Objects : sess'[q].player = sess[q].player /\ sess'[q].actor = sess[q].actor
         /\ \A q \in Objects : sess[q].sid = None /\ sess'[q].sid # None =>
              sess[q].player = None /\ sess[q].actor = None
         /\ \A t \in Sids : container'[t] = IF t = s THEN o ELSE container[t]
         /\ sess'[o].sid = s /\ o \notin collected
  <1> USE LoginAssumption DEF TypeInv, TypeOK, SessionsFit
  <1>1. CASE container[s] = o /\ sess' = [sess EXCEPT ![o].conn = c] /\ UNCHANGED container
    <2>1. \A q \in Objects : /\ sess'[q].sid = sess[q].sid /\ sess'[q].player = sess[q].player
                             /\ sess'[q].actor = sess[q].actor
      BY <1>1
    <2>2. sess[o].sid = s /\ o \notin collected  BY <1>1
    <2> QED  BY <1>1, <2>1, <2>2
  <1>2. CASE container[s] = None /\ NewSession(o, s, c)
    <2>1. /\ sess[o] = NoSession
          /\ sess'[o] = [sid |-> s, conn |-> c, player |-> None, actor |-> None]
          /\ \A q \in Objects : q # o => sess'[q] = sess[q]
          /\ container' = [container EXCEPT ![s] = o]
      BY <1>2 DEF NewSession
    <2>2. sess[o].sid = None /\ sess[o].player = None /\ sess[o].actor = None
      BY <2>1 DEF NoSession
    <2>3. sess'[o].sid = s /\ sess'[o].player = None /\ sess'[o].actor = None  BY <2>1
    <2>4. o \notin collected  BY <2>2
    <2> QED  BY <2>1, <2>2, <2>3, <2>4
  <1> QED  BY <1>1, <1>2 DEF Connects

\* What a step leaves alone of Sessions and logins.
LEMMA SessionsStay ==
  ASSUME TypeInv, SessionsFit, [Next]_vars
  PROVE  /\ \A q \in Objects : sess[q].sid # None => sess'[q].sid = sess[q].sid
         /\ \A q \in Objects : sess[q].sid = None /\ sess'[q].sid # None =>
              sess'[q].player = None /\ sess'[q].actor = None
         /\ \A n \in Logins : pc[n] # "idle" => sidOf'[n] = sidOf[n] /\ via'[n] = via[n]
         /\ collected \subseteq collected'
  <1> USE DEF bindVars, mapVars, netVars, loginVars, requestVars, timerVars, Go, GoR, GoT
  <1>1. ASSUME NEW n \in Logins, NEW s \in Sids, NEW c \in Conns, ReceiveLogin(n, s, c)
        PROVE  /\ \E o \in Objects : Connects(o, s, c)
               /\ pc[n] = "idle" /\ \A m \in Logins : m # n => sidOf'[m] = sidOf[m] /\ via'[m] = via[m]
               /\ collected' = collected
    BY <1>1 DEF ReceiveLogin, Packet, Connects, TypeInv, TypeOK
  <1>2. ASSUME NEW n \in Logins, CreateSession(n)
        PROVE  /\ \E o \in Objects : Connects(o, sidOf[n], via[n])
               /\ sidOf[n] \in Sids /\ via[n] \in Conns
               /\ UNCHANGED <<sidOf, via, collected>>
    BY <1>2 DEF CreateSession, Connects, TypeInv, TypeOK, LocalsFit
  <1>3. ASSUME NEW s \in Sids, NEW c \in Conns, ReceiveRequest(s, c)
        PROVE  /\ \E o \in Objects : Connects(o, s, c)
               /\ UNCHANGED <<sidOf, via, collected>>
    BY <1>3 DEF ReceiveRequest, Packet, Connects
  <1>4. ASSUME NEW n \in Logins, Login(n), ~CreateSession(n)
        PROVE  /\ \A q \in Objects : sess'[q].sid = sess[q].sid
               /\ UNCHANGED <<sidOf, via, collected>>
    BY <1>4 DEF TypeInv, TypeOK, Login, GetSession, Kick, FindPlayer, MarkLoggingOut, ErasePlayer,
                SaveLoggedOut, InsertPlayer, BindPlayer, BindActor, BindPlayerToSession
  <1>5. ASSUME Request \/ UNCHANGED vars
        PROVE  UNCHANGED <<sess, sidOf, via, collected>>
    BY <1>5 DEF Request, ReadPlayer, Dispatch, EndRequest, vars
  <1>6. ASSUME CheckTimeout
        PROVE  /\ \A q \in Objects : sess'[q].sid = sess[q].sid
               /\ UNCHANGED <<sidOf, via>> /\ collected \subseteq collected'
    BY <1>6 DEF TypeInv, TypeOK, CheckTimeout, Collect, CleanSession, SaveTimedOut, UnbindIndex,
                UnbindActor, UnbindPlayer
  <1>7. ASSUME NEW n \in Logins, NEW s \in Sids, NEW c \in Conns, ReceiveLogin(n, s, c)
        PROVE  /\ \A q \in Objects : sess[q].sid # None => sess'[q].sid = sess[q].sid
               /\ \A q \in Objects : sess[q].sid = None /\ sess'[q].sid # None =>
                    sess'[q].player = None /\ sess'[q].actor = None
    BY <1>1, <1>7, ConnectsFits
  <1>8. ASSUME NEW n \in Logins, CreateSession(n)
        PROVE  /\ \A q \in Objects : sess[q].sid # None => sess'[q].sid = sess[q].sid
               /\ \A q \in Objects : sess[q].sid = None /\ sess'[q].sid # None =>
                    sess'[q].player = None /\ sess'[q].actor = None
    BY <1>2, <1>8, ConnectsFits
  <1>9. ASSUME NEW s \in Sids, NEW c \in Conns, ReceiveRequest(s, c)
        PROVE  /\ \A q \in Objects : sess[q].sid # None => sess'[q].sid = sess[q].sid
               /\ \A q \in Objects : sess[q].sid = None /\ sess'[q].sid # None =>
                    sess'[q].player = None /\ sess'[q].actor = None
    BY <1>3, <1>9, ConnectsFits
  <1>10. CASE \E n \in Logins, s \in Sids, c \in Conns : ReceiveLogin(n, s, c)
    <2>1. PICK n \in Logins, s \in Sids, c \in Conns : ReceiveLogin(n, s, c)  BY <1>10
    <2>2. \A m \in Logins : pc[m] # "idle" => sidOf'[m] = sidOf[m] /\ via'[m] = via[m]
      BY <1>1, <2>1
    <2>3. collected' = collected  BY <1>1, <2>1
    <2> QED  BY <1>7, <2>1, <2>2, <2>3
  <1>11. CASE \E n \in Logins : Login(n)
    <2>1. PICK n \in Logins : Login(n)  BY <1>11
    <2>2. CASE CreateSession(n)  BY <1>2, <1>8, <2>2
    <2>3. CASE ~CreateSession(n)  BY <1>4, <2>1, <2>3
    <2> QED  BY <2>2, <2>3
  <1>12. CASE \E s \in Sids, c \in Conns : ReceiveRequest(s, c)
    <2>1. PICK s \in Sids, c \in Conns : ReceiveRequest(s, c)  BY <1>12
    <2>2. UNCHANGED <<sidOf, via, collected>>  BY <1>3, <2>1
    <2> QED  BY <1>9, <2>1, <2>2
  <1> QED  BY <1>5, <1>6, <1>10, <1>11, <1>12 DEF Next

\* Where a handler's Session stands.
LEMMA HandlersSession ==
  ASSUME ReachInv, SessionsFit, NEW n \in Logins, InHandler(n), pc[n] \in HasSession
  PROVE  /\ mine[n] \in Objects /\ sidOf[n] \in Sids /\ container[sidOf[n]] = mine[n]
         /\ sess[mine[n]].sid = sidOf[n] /\ mine[n] \notin collected
  <1>1. mine[n] # None /\ mine[n] \in Objects /\ sidOf[n] \in Sids
    BY DEF ReachInv, TypeInv, TypeOK, LocalsFit, InHandler
  <1>2. container[sidOf[n]] = mine[n]  BY DEF ReachInv, HandlerIsReachable
  <1> QED  BY <1>1, <1>2 DEF SessionsFit

\* Every step keeps the Sessions in one place.
LEMMA FitStep ==
  ASSUME ReachInv, SessionsFit, [Next]_vars, TypeInv'
  PROVE  SessionsFit'
  <1> USE LoginAssumption DEF bindVars, mapVars, netVars, loginVars, requestVars, timerVars, Go, GoR, GoT
  <1>1. /\ \A q \in Objects : sess[q].sid # None => sess'[q].sid = sess[q].sid
        /\ collected \subseteq collected'
        /\ container \in [Sids -> Objects \cup {None}] /\ collected \subseteq Objects
        /\ rsess \in Objects \cup {None}
    BY SessionsStay DEF ReachInv, TypeInv, TypeOK
  <1>2. ASSUME NEW o \in Objects, NEW s \in Sids, NEW c \in Conns, Connects(o, s, c),
               UNCHANGED <<stale, cleaning, collected>>, rsess' \in {rsess, o},
               \A n \in Logins : pc'[n] = "idle" => pc[n] = "idle" /\ sidOf'[n] = sidOf[n]
        PROVE  SessionsFit'
    <2>1. /\ \A t \in Sids : container'[t] = IF t = s THEN o ELSE container[t]
          /\ sess'[o].sid = s /\ o \notin collected
      BY <1>2, ConnectsFits DEF ReachInv
    <2>2. \A t \in Sids : container'[t] # None =>
            sess'[container'[t]].sid = t /\ container'[t] \notin collected'
      BY <1>1, <1>2, <2>1 DEF SessionsFit
    <2>3. \A q \in collected' : sess'[q].sid # None  BY <1>1, <1>2 DEF SessionsFit
    <2>4. rsess' # None => sess'[rsess'].sid # None  BY <1>1, <1>2, <2>1 DEF SessionsFit
    <2> QED  BY <1>2, <2>2, <2>3, <2>4 DEF SessionsFit
  <1>3. ASSUME UNCHANGED <<container, stale, cleaning, collected>>, rsess' \in {rsess, None},
               \A n \in Logins : pc'[n] = "idle" => pc[n] = "idle" /\ sidOf'[n] = sidOf[n]
        PROVE  SessionsFit'
    <2>1. \A t \in Sids : container'[t] # None =>
            sess'[container'[t]].sid = t /\ container'[t] \notin collected'
      BY <1>1, <1>3 DEF SessionsFit
    <2>2. \A q \in collected' : sess'[q].sid # None  BY <1>1, <1>3 DEF SessionsFit
    <2>3. rsess' # None => sess'[rsess'].sid # None  BY <1>1, <1>3 DEF SessionsFit
    <2> QED  BY <1>3, <2>1, <2>2, <2>3 DEF SessionsFit
  <1>4. ASSUME NEW n \in Logins, NEW s \in Sids, NEW c \in Conns, ReceiveLogin(n, s, c)
        PROVE  SessionsFit'
    <2>1. PICK o \in Objects : Connects(o, s, c)  BY <1>4 DEF ReceiveLogin, Packet, Connects
    <2>2. \A m \in Logins : pc'[m] = "idle" => pc[m] = "idle" /\ sidOf'[m] = sidOf[m]
      BY <1>4 DEF ReceiveLogin, ReachInv, TypeInv, TypeOK
    <2>3. UNCHANGED <<stale, cleaning, collected, rsess>>  BY <1>4 DEF ReceiveLogin
    <2> QED  BY <1>2, <2>1, <2>2, <2>3
  <1>5. ASSUME NEW n \in Logins, Login(n) PROVE SessionsFit'
    <2>1. \A m \in Logins : pc'[m] = "idle" => pc[m] = "idle" /\ sidOf'[m] = sidOf[m]
      BY <1>5 DEF ReachInv, TypeInv, TypeOK, Login, GetSession, CreateSession, Kick, FindPlayer,
                  MarkLoggingOut, ErasePlayer, SaveLoggedOut, InsertPlayer, BindPlayer, BindActor,
                  BindPlayerToSession
    <2>2. UNCHANGED <<stale, cleaning, collected, rsess>>
      BY <1>5 DEF Login, GetSession, CreateSession, Kick, FindPlayer, MarkLoggingOut, ErasePlayer,
                  SaveLoggedOut, InsertPlayer, BindPlayer, BindActor, BindPlayerToSession
    <2>3. CASE CreateSession(n)
      <3>1. sidOf[n] \in Sids /\ via[n] \in Conns
        BY <2>3 DEF CreateSession, ReachInv, TypeInv, TypeOK, LocalsFit
      <3>2. PICK o \in Objects : Connects(o, sidOf[n], via[n])
        BY <2>3 DEF CreateSession, Connects
      <3> QED  BY <1>2, <2>1, <2>2, <3>1, <3>2
    <2>4. CASE ~CreateSession(n)
      <3>1. UNCHANGED container
        BY <1>5, <2>4 DEF Login, GetSession, Kick, FindPlayer, MarkLoggingOut, ErasePlayer,
                  SaveLoggedOut, InsertPlayer, BindPlayer, BindActor, BindPlayerToSession
      <3> QED  BY <1>3, <2>1, <2>2, <3>1
    <2> QED  BY <2>3, <2>4
  <1>6. ASSUME NEW s \in Sids, NEW c \in Conns, ReceiveRequest(s, c) PROVE SessionsFit'
    <2>1. PICK o \in Objects : Connects(o, s, c) /\ rsess' = o
      BY <1>6 DEF ReceiveRequest, Packet, Connects
    <2>2. UNCHANGED <<stale, cleaning, collected, pc, sidOf>>  BY <1>6 DEF ReceiveRequest
    <2> QED  BY <1>2, <2>1, <2>2
  <1>7. CASE Request \/ UNCHANGED vars
    <2>1. UNCHANGED <<container, stale, cleaning, collected, pc, sidOf>> /\ rsess' \in {rsess, None}
      BY <1>7 DEF Request, ReadPlayer, Dispatch, EndRequest, vars
    <2> QED  BY <1>3, <2>1
  <1>8. ASSUME NEW s \in Sids, Collect(s) PROVE SessionsFit'
    <2>1. /\ container[s] \in Objects /\ container[s] # None
          /\ container' = [container EXCEPT ![s] = None]
          /\ stale' = stale \cup {container[s]} /\ collected' = collected \cup {container[s]}
          /\ UNCHANGED <<sess, pc, sidOf, cleaning, rsess>>
      BY <1>1, <1>8 DEF Collect
    <2>2. \A t \in Sids : container'[t] # None =>
            sess[container'[t]].sid = t /\ container'[t] \notin collected'
      <3> SUFFICES ASSUME NEW t \in Sids, container'[t] # None
                   PROVE  sess[container'[t]].sid = t /\ container'[t] \notin collected'
        OBVIOUS
      <3>1. t # s /\ container'[t] = container[t]  BY <1>1, <2>1
      <3>2. /\ sess[container[t]].sid = t /\ container[t] \notin collected
            /\ sess[container[s]].sid = s
        BY <2>1, <3>1 DEF SessionsFit
      <3> QED  BY <2>1, <3>1, <3>2
    <2>3. \A q \in collected' : sess[q].sid # None  BY <2>1 DEF SessionsFit
    <2> QED  BY <2>1, <2>2, <2>3 DEF SessionsFit
  <1>9. ASSUME NEW o \in Objects, CleanSession(o) PROVE SessionsFit'
    BY <1>9 DEF CleanSession, SessionsFit
  <1>10. CASE SaveTimedOut \/ UnbindIndex \/ UnbindActor
    <2>1. UNCHANGED <<container, stale, cleaning, collected, pc, sidOf, rsess>>
      BY <1>10 DEF SaveTimedOut, UnbindIndex, UnbindActor
    <2> QED  BY <1>3, <2>1
  <1>11. CASE UnbindPlayer
    <2>1. UNCHANGED <<container, stale, collected, pc, sidOf, rsess>> /\ cleaning' = None
      BY <1>11 DEF UnbindPlayer
    <2>2. \A t \in Sids : container'[t] # None =>
            sess'[container'[t]].sid = t /\ container'[t] \notin collected'
      BY <1>1, <2>1 DEF SessionsFit
    <2>3. \A q \in collected' : sess'[q].sid # None  BY <1>1, <2>1 DEF SessionsFit
    <2>4. rsess' # None => sess'[rsess'].sid # None  BY <1>1, <2>1 DEF SessionsFit
    <2> QED  BY <2>1, <2>2, <2>3, <2>4 DEF SessionsFit
  <1> QED  BY <1>4, <1>5, <1>6, <1>7, <1>8, <1>9, <1>10, <1>11 DEF Next, CheckTimeout

\* Every step keeps the handlers of a connection apart.
LEMMA ExclusiveStep ==
  ASSUME TypeInv, Exclusive, [Next]_vars
  PROVE  Exclusive'
  <1> USE DEF TypeInv, TypeOK, LocalsFit, Go, GoR, bindVars, mapVars, netVars, loginVars, requestVars,
          timerVars
  <1>1. ASSUME UNCHANGED <<via, rvia>>, rpc' # "idle" => rpc # "idle",
               \A n \in Logins : InHandler(n)' => InHandler(n)
        PROVE  Exclusive'
    BY <1>1 DEF Exclusive
  <1>2. ASSUME NEW n \in Logins, NEW s \in Sids, NEW c \in Conns, ReceiveLogin(n, s, c)
        PROVE  Exclusive'
    <2>1. /\ \A m \in Logins : m # n => pc'[m] = pc[m] /\ via'[m] = via[m]
          /\ pc'[n] = "load" /\ UNCHANGED <<rpc, rvia>>
      BY <1>2 DEF ReceiveLogin
    <2>2. ~InHandler(n)'  BY <2>1 DEF InHandler
    <2>3. \A m \in Logins : InHandler(m)' => InHandler(m) /\ m # n  BY <2>1, <2>2 DEF InHandler
    <2> QED  BY <2>1, <2>3 DEF Exclusive
  <1>3. ASSUME NEW n \in Logins, GetSession(n) PROVE Exclusive'
    <2>1. /\ \A m \in Logins : m # n => pc'[m] = pc[m]
          /\ UNCHANGED <<via, rpc, rvia>> /\ Executes(via[n])
      BY <1>3 DEF GetSession
    <2>2. \A m \in Logins : m # n => InHandler(m)' = InHandler(m)  BY <2>1 DEF InHandler
    <2> QED  BY <2>1, <2>2 DEF Exclusive, Executes
  <1>4. ASSUME NEW n \in Logins, Login(n), ~GetSession(n) PROVE Exclusive'
    <2>1. /\ \A m \in Logins : m # n => pc'[m] = pc[m]
          /\ UNCHANGED <<via, rpc, rvia>> /\ InHandler(n)
      BY <1>4 DEF InHandler, Login, CreateSession, Kick, FindPlayer, MarkLoggingOut, ErasePlayer,
                  SaveLoggedOut, InsertPlayer, BindPlayer, BindActor, BindPlayerToSession
    <2>2. \A m \in Logins : InHandler(m)' => InHandler(m)  BY <2>1 DEF InHandler
    <2> QED  BY <1>1, <2>1, <2>2
  <1>5. ASSUME NEW s \in Sids, NEW c \in Conns, ReceiveRequest(s, c) PROVE Exclusive'
    <2>1. UNCHANGED <<pc, via>> /\ rvia' = c /\ Executes(c)  BY <1>5 DEF ReceiveRequest, Packet
    <2> QED  BY <2>1 DEF Exclusive, Executes, InHandler
  <1>6. CASE ReadPlayer \/ Dispatch
    <2>1. UNCHANGED <<pc, via, rvia>> /\ rpc # "idle"  BY <1>6 DEF ReadPlayer, Dispatch
    <2> QED  BY <1>1, <2>1 DEF InHandler
  <1>7. CASE EndRequest
    <2>1. UNCHANGED <<pc, via>> /\ rpc' = "idle"  BY <1>7 DEF EndRequest
    <2> QED  BY <2>1 DEF Exclusive, InHandler
  <1>8. CASE CheckTimeout \/ UNCHANGED vars
    <2>1. UNCHANGED <<pc, via, rvia, rpc>>
      BY <1>8 DEF CheckTimeout, Collect, CleanSession, SaveTimedOut, UnbindIndex, UnbindActor,
                  UnbindPlayer, vars
    <2> QED  BY <1>1, <2>1 DEF InHandler
  <1> QED  BY <1>2, <1>3, <1>4, <1>5, <1>6, <1>7, <1>8 DEF Next, Request

\* A Session that a step leaves in use, with its logins on one connection, was so.
LEMMA ThroughShrinks ==
  ASSUME TypeInv, SessionsFit, [Next]_vars, NEW o \in Objects, NEW c, sess[o].sid # None, Through(o, c)'
  PROVE  Through(o, c)
  <1>1. /\ sess'[o].sid = sess[o].sid /\ o \notin collected
        /\ \A n \in Logins : pc[n] # "idle" => sidOf'[n] = sidOf[n] /\ via'[n] = via[n]
    BY SessionsStay DEF Through
  <1>2. \A n \in Logins : sidOf[n] = sess[o].sid => pc[n] # "idle"  BY DEF SessionsFit
  <1> QED  BY <1>1, <1>2 DEF Through

\* Who changes a Session's player and actor.
LEMMA BindingsStay ==
  ASSUME TypeInv, SessionsFit, [Next]_vars
  PROVE  /\ \/ \E n \in Logins : BindPlayer(n)
            \/ UnbindPlayer
            \/ \A q \in Objects : sess'[q].player = sess[q].player
         /\ \/ \E n \in Logins : BindActor(n)
            \/ UnbindActor
            \/ \A q \in Objects : sess'[q].actor = sess[q].actor
  <1> DEFINE Same == \A q \in Objects : sess'[q].player = sess[q].player /\ sess'[q].actor = sess[q].actor
  <1> USE DEF bindVars, mapVars, netVars, loginVars, requestVars, timerVars
  <1>1. ASSUME NEW n \in Logins, NEW s \in Sids, NEW c \in Conns, ReceiveLogin(n, s, c) PROVE Same
    <2>1. \E o \in Objects : Connects(o, s, c)  BY <1>1 DEF ReceiveLogin, Packet, Connects
    <2> QED  BY <2>1, ConnectsFits
  <1>2. ASSUME NEW s \in Sids, NEW c \in Conns, ReceiveRequest(s, c) PROVE Same
    <2>1. \E o \in Objects : Connects(o, s, c)  BY <1>2 DEF ReceiveRequest, Packet, Connects
    <2> QED  BY <2>1, ConnectsFits
  <1>3. ASSUME NEW n \in Logins, CreateSession(n) PROVE Same
    <2>1. \E o \in Objects : Connects(o, sidOf[n], via[n])  BY <1>3 DEF CreateSession, Connects
    <2>2. sidOf[n] \in Sids /\ via[n] \in Conns
      BY <1>3 DEF CreateSession, Go, TypeInv, TypeOK, LocalsFit
    <2> QED  BY <2>1, <2>2, ConnectsFits
  <1>4. ASSUME NEW n \in Logins, Login(n), ~CreateSession(n), ~BindPlayer(n), ~BindActor(n)
        PROVE  Same
    BY <1>4 DEF Login, GetSession, Kick, FindPlayer, MarkLoggingOut, ErasePlayer, SaveLoggedOut,
                InsertPlayer, BindPlayerToSession
  <1>5. ASSUME NEW n \in Logins, BindPlayer(n)
        PROVE  \A q \in Objects : sess'[q].actor = sess[q].actor
    BY <1>5 DEF BindPlayer, TypeInv, TypeOK
  <1>6. ASSUME NEW n \in Logins, BindActor(n)
        PROVE  \A q \in Objects : sess'[q].player = sess[q].player
    BY <1>6 DEF BindActor, TypeInv, TypeOK
  <1>7. CASE Request \/ UNCHANGED vars
    BY <1>7 DEF Request, ReadPlayer, Dispatch, EndRequest, vars
  <1>8. ASSUME CheckTimeout, ~UnbindActor, ~UnbindPlayer PROVE Same
    BY <1>8 DEF CheckTimeout, Collect, CleanSession, SaveTimedOut, UnbindIndex
  <1>9. CASE UnbindActor  BY <1>9 DEF UnbindActor, TypeInv, TypeOK
  <1>10. CASE UnbindPlayer  BY <1>10 DEF UnbindPlayer, TypeInv, TypeOK
  <1> QED  BY <1>1, <1>2, <1>3, <1>4, <1>5, <1>6, <1>7, <1>8, <1>9, <1>10 DEF Next, Login

\* Who changes the places of the handlers that bind, and their Sessions.
LEMMA BindersStay ==
  ASSUME TypeInv, [Next]_vars, NEW n \in Logins
  PROVE  /\ pc[n] = "bindActor" => BindActor(n) \/ (pc'[n] = "bindActor" /\ mine'[n] = mine[n])
         /\ pc'[n] = "bindActor" => BindPlayer(n) \/ (pc[n] = "bindActor" /\ mine'[n] = mine[n])
         /\ pc'[n] \in {"bindActor", "bindIndex"} =>
              BindPlayer(n) \/ (pc[n] \in {"bindActor", "bindIndex"} /\ mine'[n] = mine[n])
  <1> USE DEF bindVars, mapVars, netVars, loginVars, requestVars, timerVars, Go
  <1>1. DOMAIN pc = Logins /\ DOMAIN mine = Logins  BY DEF TypeInv, TypeOK
  <1>2. ASSUME NEW m \in Logins, Login(m), m # n PROVE pc'[n] = pc[n] /\ mine'[n] = mine[n]
    BY <1>1, <1>2 DEF Login, GetSession, CreateSession, Kick, FindPlayer, MarkLoggingOut, ErasePlayer,
                SaveLoggedOut, InsertPlayer, BindPlayer, BindActor, BindPlayerToSession
  <1>3. CASE Login(n)
    BY <1>1, <1>3 DEF Login, GetSession, CreateSession, Kick, FindPlayer, MarkLoggingOut, ErasePlayer,
                SaveLoggedOut, InsertPlayer, BindPlayer, BindActor, BindPlayerToSession
  <1>4. ASSUME NEW m \in Logins, NEW s \in Sids, NEW c \in Conns, ReceiveLogin(m, s, c)
        PROVE  mine' = mine /\ (pc'[n] = pc[n] \/ (pc[n] = "idle" /\ pc'[n] = "load"))
    BY <1>1, <1>4 DEF ReceiveLogin
  <1>5. ASSUME NEW s \in Sids, NEW c \in Conns, ReceiveRequest(s, c) PROVE UNCHANGED <<pc, mine>>
    BY <1>5 DEF ReceiveRequest
  <1>6. CASE Request \/ CheckTimeout \/ UNCHANGED vars
    <2>1. UNCHANGED <<pc, mine>>
      BY <1>6 DEF Request, ReadPlayer, Dispatch, EndRequest, CheckTimeout, Collect, CleanSession,
                  SaveTimedOut, UnbindIndex, UnbindActor, UnbindPlayer, vars
    <2> QED  BY <2>1
  <1> QED  BY <1>2, <1>3, <1>4, <1>5, <1>6 DEF Next

\* What the bindings' invariants rest on.
BindInv == SaveInv /\ ReachInv /\ SessionsFit /\ Exclusive

\* Every step keeps the player and the actor of a Session together.
LEMMA BoundStep ==
  ASSUME BindInv, BindInv', BoundTogether, [Next]_vars
  PROVE  BoundTogether'
  <1> SUFFICES ASSUME NEW o \in Objects, NEW c \in Conns \cup {None}, Through(o, c)'
               PROVE  /\ sess'[o].player # sess'[o].actor =>
                           \E n \in Logins : pc'[n] = "bindActor" /\ mine'[n] = o
                      /\ \A n \in Logins : pc'[n] = "bindActor" /\ mine'[n] = o => sess'[o].player = n
    BY DEF BoundTogether
  <1>1. TypeInv /\ SessionsFit /\ ReachInv /\ Exclusive  BY DEF BindInv, ReachInv
  <1>2. o \notin collected /\ (o # cleaning \/ cleaning = None)
    BY <1>1, SessionsStay DEF Through, SessionsFit
  <1>3. /\ \A n \in Logins : pc[n] = "bindActor" =>
             BindActor(n) \/ (pc'[n] = "bindActor" /\ mine'[n] = mine[n])
        /\ \A n \in Logins : pc'[n] = "bindActor" =>
             BindPlayer(n) \/ (pc[n] = "bindActor" /\ mine'[n] = mine[n])
    BY <1>1, BindersStay
  <1>4. ASSUME NEW n \in Logins, pc[n] \in {"bindPlayer", "bindActor"}, mine[n] = o
        PROVE  InHandler(n) /\ sess[o].sid = sidOf[n] /\ sess[o].sid # None
    <2>1. InHandler(n) /\ pc[n] \in HasSession  BY <1>4 DEF InHandler, HasSession
    <2> QED  BY <1>1, <1>4, <2>1, HandlersSession, LoginAssumption
  <1>5. CASE sess[o].sid = None
    <2>1. sess'[o].player = None /\ sess'[o].actor = None
      BY <1>1, <1>5, SessionsStay DEF Through
    <2>2. \A n \in Logins : pc'[n] = "bindActor" => mine'[n] # o
      <3> SUFFICES ASSUME NEW n \in Logins, pc'[n] = "bindActor", mine'[n] = o PROVE FALSE  OBVIOUS
      <3>1. CASE BindPlayer(n)
        BY <1>4, <1>5, <3>1 DEF BindPlayer, Go
      <3>2. CASE ~BindPlayer(n)  BY <1>3, <1>4, <1>5, <3>2
      <3> QED  BY <3>1, <3>2
    <2> QED  BY <2>1, <2>2
  <1>6. CASE sess[o].sid # None
    <2>1. Through(o, c)  BY <1>1, <1>6, ThroughShrinks
    <2>2. /\ sess[o].player # sess[o].actor => \E n \in Logins : pc[n] = "bindActor" /\ mine[n] = o
          /\ \A n \in Logins : pc[n] = "bindActor" /\ mine[n] = o => sess[o].player = n
      BY <2>1 DEF BoundTogether
    <2>3. \A m, n \in Logins :
            /\ pc[m] \in {"bindPlayer", "bindActor"} /\ mine[m] = o
            /\ pc[n] \in {"bindPlayer", "bindActor"} /\ mine[n] = o
            => m = n
      BY <1>1, <1>4, <2>1 DEF Through, Exclusive
    <2>4. o \notin collected  BY <2>1 DEF Through
    <2>5. CASE \E n \in Logins : BindPlayer(n)
      <3>1. PICK n \in Logins : BindPlayer(n)  BY <2>5
      <3>2. /\ pc[n] = "bindPlayer" /\ pc' = [pc EXCEPT ![n] = "bindActor"] /\ mine' = mine
            /\ sess' = [sess EXCEPT ![mine[n]].player = n]
        BY <3>1 DEF BindPlayer, Go, loginVars
      <3>3. /\ sess \in [Objects -> Bindings] /\ pc'[n] = "bindActor"
            /\ \A m \in Logins : m # n => pc'[m] = pc[m]
        BY <1>1, <3>2 DEF TypeInv, TypeOK, Bindings
      <3>4. CASE mine[n] = o
        <4>1. sess'[o].player = n  BY <3>2, <3>3, <3>4 DEF Bindings
        <4>2. \A m \in Logins : m # n /\ pc'[m] = "bindActor" => mine'[m] # o
          BY <2>3, <3>2, <3>3, <3>4
        <4> QED  BY <3>2, <3>3, <3>4, <4>1, <4>2
      <3>5. CASE mine[n] # o
        <4>1. sess'[o] = sess[o]  BY <3>2, <3>3, <3>5
        <4> QED  BY <2>2, <3>2, <3>3, <3>5, <4>1
      <3> QED  BY <3>4, <3>5
    <2>6. CASE \E n \in Logins : BindActor(n)
      <3>1. PICK n \in Logins : BindActor(n)  BY <2>6
      <3>2. /\ pc[n] = "bindActor" /\ pc' = [pc EXCEPT ![n] = "bindIndex"] /\ mine' = mine
            /\ sess' = [sess EXCEPT ![mine[n]].actor = n]
        BY <3>1 DEF BindActor, Go, loginVars
      <3>3. /\ sess \in [Objects -> Bindings] /\ pc'[n] = "bindIndex"
            /\ \A m \in Logins : m # n => pc'[m] = pc[m]
        BY <1>1, <3>2 DEF TypeInv, TypeOK, Bindings
      <3>4. CASE mine[n] = o
        <4>1. sess'[o].player = sess[o].player /\ sess'[o].actor = n
          BY <3>2, <3>3, <3>4 DEF Bindings
        <4>2. sess[o].player = n  BY <2>2, <3>2, <3>4
        <4> QED  BY <2>2, <3>2, <3>3, <4>1, <4>2
      <3>5. CASE mine[n] # o
        <4>1. sess'[o] = sess[o]  BY <3>2, <3>3, <3>5
        <4> QED  BY <2>2, <3>2, <3>3, <3>5, <4>1
      <3> QED  BY <3>4, <3>5
    <2>7. CASE ~(\E n \in Logins : BindPlayer(n) \/ BindActor(n))
      <3>1. sess'[o].player = sess[o].player
        <4>1. CASE UnbindPlayer
          <5>1. cleaning # None /\ sess' = [sess EXCEPT ![cleaning].player = None]
            BY <1>1, <4>1 DEF UnbindPlayer, GoT, TypeInv, LocalsFit
          <5>2. o # cleaning  BY <1>2, <5>1
          <5> QED  BY <1>1, <5>1, <5>2 DEF TypeInv, TypeOK
        <4> QED  BY <1>1, <2>7, <4>1, BindingsStay
      <3>2. sess'[o].actor = sess[o].actor
        <4>1. CASE UnbindActor
          <5>1. cleaning # None /\ sess' = [sess EXCEPT ![cleaning].actor = None]
            BY <1>1, <4>1 DEF UnbindActor, GoT, TypeInv, LocalsFit
          <5>2. o # cleaning  BY <1>2, <5>1
          <5> QED  BY <1>1, <5>1, <5>2 DEF TypeInv, TypeOK
        <4> QED  BY <1>1, <2>7, <4>1, BindingsStay
      <3> QED  BY <1>3, <2>2, <2>7, <3>1, <3>2
    <2> QED  BY <2>5, <2>6, <2>7
  <1> QED  BY <1>5, <1>6

\* A handler that binds a Session works while no other of the Session's connection does.
LEMMA BinderIsAlone ==
  ASSUME BindInv, NEW n \in Logins, pc[n] \in {"bindPlayer", "bindActor"}, Through(mine[n], rvia)
  PROVE  rpc = "idle"
  <1>1. InHandler(n) /\ pc[n] \in HasSession  BY DEF InHandler, HasSession
  <1>2. sess[mine[n]].sid = sidOf[n]  BY <1>1, HandlersSession DEF BindInv
  <1>3. via[n] = rvia  BY <1>2 DEF Through
  <1> QED  BY <1>1, <1>3 DEF BindInv, Exclusive

\* Every step keeps the request's readings in order.
LEMMA RequestStep ==
  ASSUME BindInv, BindInv', BoundTogether, RequestInOrder, [Next]_vars
  PROVE  RequestInOrder'
  <1>1. TypeInv /\ SessionsFit /\ ReachInv /\ Exclusive /\ TypeInv'  BY DEF BindInv, ReachInv
  <1> USE DEF bindVars, mapVars, netVars, loginVars, requestVars, timerVars
  <1> SUFFICES ASSUME NEW o \in Objects, NEW c \in Conns \cup {None}, rsess' = o, rvia' = c,
                      Through(o, c)', rplayer' # None, rpc' \in {"actor", "run"}
               PROVE  /\ rpc' = "actor" => sess'[o].player = rplayer'
                      /\ rpc' = "run" => ractor' = rplayer'
    <2>1. rpc' \in {"actor", "run"} => rsess' \in Objects
      BY <1>1 DEF TypeInv, TypeOK, LocalsFit
    <2>2. rvia' \in Conns \cup {None}  BY <1>1 DEF TypeInv, TypeOK
    <2> QED  BY <2>1, <2>2 DEF RequestInOrder, Through
  <1>2. CASE ReadPlayer  BY <1>2 DEF ReadPlayer, GoR
  <1>3. CASE Dispatch
    <2>1. /\ rpc = "actor" /\ ractor' = sess[rsess].actor /\ rpc' = "run"
          /\ rsess = o /\ rvia = c /\ rplayer' = rplayer
          /\ UNCHANGED <<bindVars, loginVars, timerVars>>
      BY <1>3 DEF Dispatch, GoR
    <2>2. Through(o, c)  BY <2>1 DEF Through
    <2>3. sess[o].player = rplayer  BY <2>1, <2>2 DEF RequestInOrder
    <2>4. ~(\E n \in Logins : pc[n] = "bindActor" /\ mine[n] = o)  BY <2>1, <2>2, BinderIsAlone
    <2>5. sess[o].player = sess[o].actor  BY <2>2, <2>4 DEF BoundTogether
    <2> QED  BY <2>1, <2>3, <2>5
  <1>4. CASE EndRequest  BY <1>4 DEF EndRequest
  <1>5. CASE \E s \in Sids, q \in Conns : ReceiveRequest(s, q)  BY <1>5 DEF ReceiveRequest, GoR
  <1>6. CASE UNCHANGED requestVars
    <2>1. sess[o].sid # None  BY <1>1, <1>6, LoginAssumption DEF SessionsFit
    <2>2. Through(o, c)  BY <1>1, <2>1, ThroughShrinks
    <2>3. /\ rpc = "actor" => sess[o].player = rplayer
          /\ rpc = "run" => ractor = rplayer
      BY <1>6, <2>2 DEF RequestInOrder
    <2>4. CASE rpc = "actor"
      <3>1. CASE \E n \in Logins : BindPlayer(n)
        <4>1. PICK n \in Logins : BindPlayer(n)  BY <3>1
        <4>2. pc[n] = "bindPlayer" /\ sess' = [sess EXCEPT ![mine[n]].player = n]
          BY <4>1 DEF BindPlayer, Go
        <4>3. mine[n] # o  BY <1>6, <2>2, <2>4, <4>2, BinderIsAlone
        <4>4. sess'[o] = sess[o]  BY <1>1, <4>2, <4>3 DEF TypeInv, TypeOK
        <4> QED  BY <1>6, <2>3, <2>4, <4>4
      <3>2. CASE UnbindPlayer
        <4>1. sess' = [sess EXCEPT ![cleaning].player = None] /\ cleaning # None
          BY <1>1, <3>2 DEF UnbindPlayer, GoT, TypeInv, LocalsFit
        <4>2. cleaning # o  BY <1>1, <2>2, <4>1 DEF SessionsFit, Through
        <4>3. sess'[o] = sess[o]  BY <1>1, <4>1, <4>2 DEF TypeInv, TypeOK
        <4> QED  BY <1>6, <2>3, <2>4, <4>3
      <3>3. CASE sess'[o].player = sess[o].player  BY <1>6, <2>3, <2>4, <3>3
      <3> QED  BY <1>1, <3>1, <3>2, <3>3, BindingsStay
    <2> QED  BY <1>6, <2>3, <2>4
  <1>7. \/ ReadPlayer \/ Dispatch \/ EndRequest
        \/ \E s \in Sids, q \in Conns : ReceiveRequest(s, q)
        \/ UNCHANGED requestVars
    <2>1. ASSUME NEW n \in Logins, NEW s \in Sids, NEW q \in Conns, ReceiveLogin(n, s, q)
          PROVE  UNCHANGED requestVars
      BY <2>1 DEF ReceiveLogin
    <2>2. ASSUME NEW n \in Logins, Login(n) PROVE UNCHANGED requestVars
      BY <2>2 DEF Login, GetSession, CreateSession, Kick, FindPlayer, MarkLoggingOut, ErasePlayer,
                  SaveLoggedOut, InsertPlayer, BindPlayer, BindActor, BindPlayerToSession
    <2>3. CASE CheckTimeout \/ UNCHANGED vars
      BY <2>3 DEF CheckTimeout, Collect, CleanSession, SaveTimedOut, UnbindIndex, UnbindActor,
                  UnbindPlayer, vars
    <2> QED  BY <2>1, <2>2, <2>3 DEF Next, Request
  <1> QED  BY <1>2, <1>3, <1>4, <1>5, <1>6, <1>7

\* Sessions, players and actors stay together, and what a request has read of them.
RequestInv == BindInv /\ BoundTogether /\ RequestInOrder

LEMMA RequestInvStep == ASSUME RequestInv, [Next]_vars PROVE RequestInv'
  <1>1. BindInv'
    BY SaveStep, ReachStep, FitStep, ExclusiveStep DEF RequestInv, BindInv, ReachInv
  <1> QED  BY <1>1, BoundStep, RequestStep DEF RequestInv

LEMMA RequestInvInit == Init => RequestInv
  <1> SUFFICES ASSUME Init PROVE SessionsFit /\ Exclusive /\ BoundTogether /\ RequestInOrder
    BY SaveInit, ReachInit DEF RequestInv, BindInv
  <1>1. SessionsFit /\ Exclusive  BY DEF Init, SessionsFit, Exclusive, InHandler
  <1>2. BoundTogether /\ RequestInOrder
    BY DEF Init, BoundTogether, RequestInOrder, Through, NoSession
  <1> QED  BY <1>1, <1>2

LEMMA RequestInvariant == Spec => []RequestInv
  BY RequestInvInit, RequestInvStep, PTL DEF Spec

\* However logins, requests and timeouts overlap, a request is run by the actor of the
\* player it found, unless its Session has timed out or has logins of another
\* connection (main.cpp:145, MessageDispatcher.cpp:57).
THEOREM RequestsRunInTheirActors == Spec => []RequestRunsInItsActor
  <1>1. RequestInv => RequestRunsInItsActor
    <2> SUFFICES ASSUME RequestInv, rpc = "run", rplayer # None, rsess \notin collected,
                        \A n \in Logins : sidOf[n] = sess[rsess].sid => via[n] = rvia
                 PROVE  ractor = rplayer
      BY DEF RequestRunsInItsActor
    <2>1. sess[rsess].sid # None
      BY DEF RequestInv, BindInv, ReachInv, TypeInv, LocalsFit, SessionsFit
    <2>2. Through(rsess, rvia)  BY <2>1 DEF Through
    <2> QED  BY <2>2 DEF RequestInv, RequestInOrder
  <1> QED  BY <1>1, RequestInvariant, PTL

-----------------------------------------------------------------------------
(* The index of Sessions *)

\* Every step but those named keeps the index and the place of CheckTimeout.
LEMMA IndexStays ==
  ASSUME [Next]_vars
  PROVE  \/ \E n \in Logins : BindPlayerToSession(n)
         \/ \E o \in Objects : CleanSession(o)
         \/ SaveTimedOut \/ UnbindIndex \/ UnbindActor \/ UnbindPlayer
         \/ UNCHANGED <<index, tpc, cleaning>>
  <1> USE DEF bindVars, mapVars, netVars, loginVars, requestVars, timerVars
  <1>1. ASSUME NEW n \in Logins, NEW s \in Sids, NEW c \in Conns, ReceiveLogin(n, s, c)
        PROVE  UNCHANGED <<index, tpc, cleaning>>
    BY <1>1 DEF ReceiveLogin
  <1>2. ASSUME NEW n \in Logins, Login(n), ~BindPlayerToSession(n)
        PROVE  UNCHANGED <<index, tpc, cleaning>>
    BY <1>2 DEF Login, GetSession, CreateSession, Kick, FindPlayer, MarkLoggingOut, ErasePlayer,
                SaveLoggedOut, InsertPlayer, BindPlayer, BindActor
  <1>3. ASSUME NEW s \in Sids, NEW c \in Conns, ReceiveRequest(s, c)
        PROVE  UNCHANGED <<index, tpc, cleaning>>
    BY <1>3 DEF ReceiveRequest
  <1>4. CASE Request \/ (\E s \in Sids : Collect(s)) \/ UNCHANGED vars
    BY <1>4 DEF Request, ReadPlayer, Dispatch, EndRequest, Collect, vars
  <1> QED  BY <1>1, <1>2, <1>3, <1>4 DEF Next, CheckTimeout

\* A Session that a handler is binding has not been collected.
LEMMA BoundIsNotCollected ==
  ASSUME BindInv, NEW n \in Logins, pc[n] \in {"bindActor", "bindIndex"}
  PROVE  mine[n] \in Objects /\ mine[n] \notin collected
  <1>1. InHandler(n) /\ pc[n] \in HasSession  BY DEF InHandler, HasSession
  <1> QED  BY <1>1, HandlersSession DEF BindInv

\* Every step keeps the index at Sessions that have a player.
LEMMA IndexHasPlayerStep ==
  ASSUME BindInv, BindInv', IndexHasPlayer, [Next]_vars
  PROVE  IndexHasPlayer'
  <1>1. TypeInv /\ SessionsFit /\ TypeInv'  BY DEF BindInv, ReachInv
  <1>2. /\ sess \in [Objects -> Bindings] /\ None \notin Logins \cup Objects
        /\ index \in Objects \cup {None} /\ mine \in [Logins -> Objects \cup {None}]
        /\ cleaning \in collected \cup {None} /\ collected \subseteq Objects
    BY <1>1, LoginAssumption DEF TypeInv, TypeOK, SessionsFit, Bindings
  <1>3. tpc \in {"save", "index", "actor", "player"} => cleaning # None
    BY <1>1 DEF TypeInv, LocalsFit
  <1>4. \A n \in Logins : pc[n] \in {"bindActor", "bindIndex"} => mine[n] \in Objects \ collected
    BY BoundIsNotCollected
  <1>5. \A n \in Logins : pc'[n] \in {"bindActor", "bindIndex"} =>
          BindPlayer(n) \/ (pc[n] \in {"bindActor", "bindIndex"} /\ mine'[n] = mine[n])
    BY <1>1, BindersStay
  <1> USE DEF bindVars, mapVars, netVars, loginVars, requestVars, timerVars, GoT
  <1>6. ASSUME NEW n \in Logins, BindPlayer(n) PROVE IndexHasPlayer'
    <2>1. /\ sess' = [sess EXCEPT ![mine[n]].player = n] /\ pc[n] = "bindPlayer"
          /\ pc' = [pc EXCEPT ![n] = "bindActor"] /\ UNCHANGED <<index, tpc, cleaning, mine>>
      BY <1>6 DEF BindPlayer, Go
    <2>2. /\ mine[n] \in Objects /\ sess'[mine[n]].player = n
          /\ \A q \in Objects : sess[q].player # None => sess'[q].player # None
      BY <1>1, <1>2, <2>1 DEF TypeInv, LocalsFit, HasSession, Bindings
    <2>3. \A m \in Logins : m # n => pc'[m] = pc[m]
      BY <1>1, <2>1 DEF TypeInv, TypeOK
    <2>4. \A m \in Logins : pc'[m] \in {"bindActor", "bindIndex"} => sess'[mine[m]].player # None
      BY <1>2, <1>4, <2>2, <2>3 DEF IndexHasPlayer
    <2> QED  BY <1>2, <2>1, <2>2, <2>4 DEF IndexHasPlayer
  <1>7. CASE UnbindPlayer
    <2>1. /\ tpc = "player" /\ tpc' \in {"scan", "next"} /\ UNCHANGED <<index, pc, mine>>
          /\ sess' = [sess EXCEPT ![cleaning].player = None]
      BY <1>7 DEF UnbindPlayer
    <2>2. \A q \in Objects : q # cleaning => sess'[q] = sess[q]  BY <1>2, <2>1
    <2>3. index # cleaning  BY <2>1 DEF IndexHasPlayer
    <2>4. \A n \in Logins : pc[n] \in {"bindActor", "bindIndex"} =>
            sess'[mine[n]].player = sess[mine[n]].player
      BY <1>2, <1>4, <2>2
    <2> QED  BY <1>2, <2>1, <2>2, <2>3, <2>4 DEF IndexHasPlayer
  <1>8. ASSUME \A q \in Objects : sess'[q].player = sess[q].player,
               ~(\E n \in Logins : BindPlayer(n)), ~UnbindPlayer
        PROVE  IndexHasPlayer'
    <2>1. \A n \in Logins : pc'[n] \in {"bindActor", "bindIndex"} => sess'[mine'[n]].player # None
      BY <1>4, <1>5, <1>8 DEF IndexHasPlayer
    <2>2. SUFFICES /\ index' # None => sess'[index'].player # None
                   /\ tpc' \in {"actor", "player"} => index' # cleaning'
      BY <2>1 DEF IndexHasPlayer
    <2>3. ASSUME NEW n \in Logins, BindPlayerToSession(n)
          PROVE  /\ index' # None => sess'[index'].player # None
                 /\ tpc' \in {"actor", "player"} => index' # cleaning'
      <3>1. pc[n] = "bindIndex" /\ index' = mine[n] /\ UNCHANGED <<tpc, cleaning>>
        BY <2>3 DEF BindPlayerToSession, Go
      <3>2. mine[n] \in Objects \ collected /\ sess[mine[n]].player # None
        BY <1>4, <3>1 DEF IndexHasPlayer
      <3> QED  BY <1>2, <1>8, <3>1, <3>2
    <2>4. ASSUME NEW o \in Objects, CleanSession(o)
          PROVE  /\ index' # None => sess'[index'].player # None
                 /\ tpc' \in {"actor", "player"} => index' # cleaning'
      <3>1. /\ index' = index /\ cleaning' = o
            /\ tpc' \in {"actor", "player"} => sess[o].player = None
        BY <2>4 DEF CleanSession
      <3> QED  BY <1>2, <1>8, <3>1 DEF IndexHasPlayer
    <2>5. CASE SaveTimedOut  BY <1>2, <1>8, <2>5 DEF SaveTimedOut, IndexHasPlayer
    <2>6. CASE UnbindIndex
      <3>1. index' = None /\ cleaning' = cleaning /\ tpc = "index"  BY <2>6 DEF UnbindIndex
      <3> QED  BY <1>3, <3>1
    <2>7. CASE UnbindActor
      <3>1. tpc = "actor" /\ UNCHANGED <<index, cleaning>>  BY <2>7 DEF UnbindActor
      <3> QED  BY <1>2, <1>8, <3>1 DEF IndexHasPlayer
    <2>8. CASE UNCHANGED <<index, tpc, cleaning>>  BY <1>2, <1>8, <2>8 DEF IndexHasPlayer
    <2> QED  BY <1>8, <2>3, <2>4, <2>5, <2>6, <2>7, <2>8, IndexStays
  <1> QED  BY <1>1, <1>6, <1>7, <1>8, BindingsStay

\* A step that does not rebind the account leaves the map to what the index says.
LEMMA IndexFrame ==
  ASSUME BindInv, IndexFollows, OneConnection, mapped' = mapped, index' = index,
         collected \subseteq collected',
         \A q \in Objects : sess'[q].player = sess[q].player,
         \A n \in Logins :
           /\ pc'[n] \in {"bindPlayer", "bindActor", "bindIndex"} <=>
                pc[n] \in {"bindPlayer", "bindActor", "bindIndex"}
           /\ pc'[n] = "done" <=> pc[n] = "done"
           /\ pc'[n] \in {"bindActor", "bindIndex"} =>
                pc[n] \in {"bindActor", "bindIndex"} /\ mine'[n] = mine[n]
           /\ pc[n] \in Rebinding => pc'[n] \in Rebinding
  PROVE  IndexFollows'
  <1>1. index \in Objects \cup {None}  BY DEF BindInv, ReachInv, TypeInv, TypeOK
  <1>2. \A n \in Logins : pc[n] \in {"bindActor", "bindIndex"} => mine[n] \in Objects
    BY BoundIsNotCollected
  <1>3. Inserted' # {} => Inserted # {}  BY DEF Inserted
  <1>4. \A n \in Logins :
          /\ pc'[n] \in {"bindPlayer", "bindActor", "bindIndex"} => mapped' = n
          /\ pc'[n] \in {"bindActor", "bindIndex"} => sess'[mine'[n]].player = n
    BY <1>2 DEF IndexFollows
  <1>5. Inserted' # {} /\ (\A n \in Logins : pc'[n] \notin Rebinding) =>
          /\ index' # None => sess'[index'].player = mapped'
          /\ index' = None => collected' # {}
    BY <1>1, <1>3 DEF IndexFollows
  <1> QED  BY <1>4, <1>5 DEF IndexFollows

\* When the handlers do not overlap, every step of a login keeps the index at the map's
\* Player.
LEMMA LoginKeepsIndex ==
  ASSUME BindInv, IndexFollows, OneConnection, NEW n \in Logins, Login(n), [Next]_vars
  PROVE  IndexFollows'
  <1>1. /\ sess \in [Objects -> Bindings] /\ mine \in [Logins -> Objects \cup {None}]
        /\ DOMAIN pc = Logins /\ TypeInv /\ SessionsFit
    BY DEF BindInv, ReachInv, TypeInv, TypeOK, Bindings
  <1>2. InHandler(n) => \A m \in Logins : m # n => pc[m] \in {"idle", "load", "done"}
    BY DEF BindInv, SaveInv, OneHandler, InHandler
  <1> USE DEF bindVars, mapVars, netVars, loginVars, requestVars, timerVars, Go
  <1>3. ASSUME pc[n] # "load", pc' = [pc EXCEPT ![n] = pc'[n]], pc'[n] \in Rebinding,
               InHandler(n),
               pc'[n] \in {"bindPlayer", "bindActor", "bindIndex"} => mapped' = n,
               pc'[n] \in {"bindActor", "bindIndex"} => sess'[mine'[n]].player = n
        PROVE  IndexFollows'
    <2>1. \A m \in Logins : m # n => pc'[m] \in {"idle", "load", "done"}
      BY <1>1, <1>2, <1>3
    <2> QED  BY <1>3, <2>1 DEF IndexFollows
  <1>4. ASSUME mapped' = mapped, index' = index, collected' = collected,
               \A q \in Objects : sess'[q].player = sess[q].player,
               pc' = [pc EXCEPT ![n] = pc'[n]], \A m \in Logins : m # n => mine'[m] = mine[m],
               pc[n] \notin Rebinding \cup {"done"}, pc'[n] \notin Rebinding \cup {"done"}
        PROVE  IndexFollows'
    BY <1>1, <1>4, IndexFrame DEF Rebinding
  <1>5. CASE GetSession(n)
    BY <1>1, <1>4, <1>5 DEF GetSession, Rebinding
  <1>6. CASE CreateSession(n)
    <2>1. sidOf[n] \in Sids /\ via[n] \in Conns
      BY <1>1, <1>6 DEF CreateSession, TypeInv, TypeOK, LocalsFit
    <2>2. \E o \in Objects : Connects(o, sidOf[n], via[n])
      BY <1>6 DEF CreateSession, Connects
    <2>3. \A q \in Objects : sess'[q].player = sess[q].player
      BY <1>1, <2>1, <2>2, ConnectsFits
    <2> QED  BY <1>1, <1>4, <1>6, <2>3 DEF CreateSession, Rebinding
  <1>7. CASE Kick(n)
    BY <1>1, <1>4, <1>7 DEF Kick, Rebinding
  <1>8. CASE FindPlayer(n)
    <2>1. /\ pc[n] = "find" /\ pc' = [pc EXCEPT ![n] = pc'[n]] /\ pc'[n] \in {"insert", "mark"}
          /\ UNCHANGED <<sess, index, mapped, mine, collected>>
      BY <1>1, <1>8 DEF FindPlayer
    <2>2. CASE pc'[n] = "insert"  BY <1>3, <2>1, <2>2 DEF InHandler, Rebinding
    <2>3. CASE pc'[n] = "mark"  BY <1>4, <2>1, <2>3 DEF Rebinding
    <2> QED  BY <2>1, <2>2, <2>3
  <1>9. CASE MarkLoggingOut(n)
    <2>1. /\ pc[n] = "mark" /\ pc' = [pc EXCEPT ![n] = pc'[n]] /\ pc'[n] \in {"insert", "erase"}
          /\ UNCHANGED <<sess, index, mapped, mine, collected>>
      BY <1>1, <1>9 DEF MarkLoggingOut
    <2>2. CASE pc'[n] = "insert"  BY <1>3, <2>1, <2>2 DEF InHandler, Rebinding
    <2>3. CASE pc'[n] = "erase"  BY <1>4, <2>1, <2>3 DEF Rebinding
    <2> QED  BY <2>1, <2>2, <2>3
  <1>10. CASE ErasePlayer(n) \/ SaveLoggedOut(n) \/ InsertPlayer(n)
    <2>1. /\ pc[n] \in {"erase", "save", "insert"} /\ pc' = [pc EXCEPT ![n] = pc'[n]]
          /\ pc'[n] \in {"save", "insert", "bindPlayer"}
          /\ pc'[n] = "bindPlayer" => mapped' = n
      BY <1>1, <1>10 DEF ErasePlayer, SaveLoggedOut, InsertPlayer
    <2> QED  BY <1>3, <2>1 DEF InHandler, Rebinding
  <1>11. CASE BindPlayer(n)
    <2>1. /\ pc[n] = "bindPlayer" /\ pc' = [pc EXCEPT ![n] = "bindActor"]
          /\ sess' = [sess EXCEPT ![mine[n]].player = n] /\ UNCHANGED <<mapped, mine>>
      BY <1>11 DEF BindPlayer
    <2>2. mine[n] \in Objects
      BY <1>1, <2>1, LoginAssumption DEF TypeInv, LocalsFit, HasSession
    <2>3. sess'[mine[n]].player = n  BY <1>1, <2>1, <2>2 DEF Bindings
    <2>4. mapped = n  BY <2>1 DEF IndexFollows
    <2>5. pc'[n] = "bindActor"  BY <1>1, <2>1
    <2> QED  BY <1>3, <2>1, <2>3, <2>4, <2>5 DEF InHandler, Rebinding
  <1>12. CASE BindActor(n)
    <2>1. /\ pc[n] = "bindActor" /\ pc' = [pc EXCEPT ![n] = "bindIndex"]
          /\ sess' = [sess EXCEPT ![mine[n]].actor = n] /\ UNCHANGED <<mapped, mine>>
      BY <1>12 DEF BindActor
    <2>2. \A q \in Objects : sess'[q].player = sess[q].player  BY <1>1, <2>1 DEF Bindings
    <2>3. mine[n] \in Objects  BY <2>1, BoundIsNotCollected
    <2>4. mapped = n /\ sess[mine[n]].player = n  BY <2>1 DEF IndexFollows
    <2>5. pc'[n] = "bindIndex"  BY <1>1, <2>1
    <2> QED  BY <1>3, <2>1, <2>2, <2>3, <2>4, <2>5 DEF InHandler, Rebinding
  <1>13. CASE BindPlayerToSession(n)
    <2>1. /\ pc[n] = "bindIndex" /\ pc' = [pc EXCEPT ![n] = "done"] /\ index' = mine[n]
          /\ UNCHANGED <<sess, mapped, mine>>
      BY <1>13 DEF BindPlayerToSession
    <2>2. mine[n] \in Objects  BY <2>1, BoundIsNotCollected
    <2>3. mapped = n /\ sess[mine[n]].player = n  BY <2>1 DEF IndexFollows
    <2>4. \A m \in Logins : pc'[m] \in {"idle", "load", "done"}
      BY <1>1, <1>2, <2>1 DEF InHandler
    <2> QED  BY <2>1, <2>2, <2>3, <2>4, LoginAssumption DEF IndexFollows
  <1> QED  BY <1>5, <1>6, <1>7, <1>8, <1>9, <1>10, <1>11, <1>12, <1>13 DEF Login

\* Every step keeps the index at the map's Player, while the handlers do not overlap.
LEMMA IndexFollowsStep ==
  ASSUME BindInv, IndexHasPlayer, IndexFollows, [Next]_vars
  PROVE  IndexFollows'
  <1>1. TypeInv /\ SessionsFit  BY DEF BindInv, ReachInv
  <1>2. OneConnection' => OneConnection
    <2>1. \A n \in Logins : via[n] # None => via'[n] = via[n]
      BY <1>1, SessionsStay DEF TypeInv, LocalsFit
    <2> QED  BY <2>1 DEF OneConnection
  <1>3. SUFFICES ASSUME OneConnection PROVE IndexFollows'  BY <1>2 DEF IndexFollows
  <1>4. collected \subseteq collected'  BY <1>1, SessionsStay
  <1> USE DEF bindVars, mapVars, netVars, loginVars, requestVars, timerVars
  <1>5. ASSUME NEW n \in Logins, NEW s \in Sids, NEW c \in Conns, ReceiveLogin(n, s, c)
        PROVE  IndexFollows'
    <2>1. \E o \in Objects : Connects(o, s, c)  BY <1>5 DEF ReceiveLogin, Packet, Connects
    <2>2. \A q \in Objects : sess'[q].player = sess[q].player  BY <1>1, <2>1, ConnectsFits
    <2>3. /\ pc[n] = "idle" /\ pc'[n] = "load" /\ \A m \in Logins : m # n => pc'[m] = pc[m]
          /\ UNCHANGED <<index, mapped, mine>>
      BY <1>1, <1>5 DEF ReceiveLogin, Go, TypeInv, TypeOK
    <2> QED  BY <1>3, <1>4, <2>2, <2>3, IndexFrame DEF Rebinding
  <1>6. ASSUME NEW n \in Logins, Login(n) PROVE IndexFollows'  BY <1>3, <1>6, LoginKeepsIndex
  <1>7. ASSUME NEW s \in Sids, NEW c \in Conns, ReceiveRequest(s, c) PROVE IndexFollows'
    <2>1. \E o \in Objects : Connects(o, s, c)  BY <1>7 DEF ReceiveRequest, Packet, Connects
    <2>2. \A q \in Objects : sess'[q].player = sess[q].player  BY <1>1, <2>1, ConnectsFits
    <2>3. UNCHANGED <<index, mapped, pc, mine>>  BY <1>7 DEF ReceiveRequest
    <2> QED  BY <1>3, <1>4, <2>2, <2>3, IndexFrame
  <1>8. CASE Request \/ UNCHANGED vars
    <2>1. UNCHANGED <<sess, index, mapped, pc, mine>>
      BY <1>8 DEF Request, ReadPlayer, Dispatch, EndRequest, vars
    <2> QED  BY <1>3, <1>4, <2>1, IndexFrame
  <1>9. ASSUME CheckTimeout, ~UnbindIndex, ~UnbindPlayer PROVE IndexFollows'
    <2>1. UNCHANGED <<index, mapped, pc, mine>>
          /\ \A q \in Objects : sess'[q].player = sess[q].player
      BY <1>1, <1>9 DEF CheckTimeout, Collect, CleanSession, SaveTimedOut, UnbindActor, TypeInv, TypeOK
    <2> QED  BY <1>3, <1>4, <2>1, IndexFrame
  <1>10. CASE UnbindIndex
    <2>1. /\ tpc = "index" /\ index' = None /\ UNCHANGED <<sess, mapped, pc, mine, collected>>
      BY <1>10 DEF UnbindIndex, GoT
    <2>2. collected # {}  BY <1>1, <2>1 DEF TypeInv, LocalsFit, SessionsFit
    <2> QED  BY <1>3, <2>1, <2>2 DEF IndexFollows, Inserted
  <1>11. CASE UnbindPlayer
    <2>1. /\ tpc = "player" /\ sess' = [sess EXCEPT ![cleaning].player = None]
          /\ UNCHANGED <<index, mapped, pc, mine, collected>>
      BY <1>11 DEF UnbindPlayer, GoT
    <2>2. \A q \in Objects : q # cleaning => sess'[q] = sess[q]
      BY <1>1, <2>1 DEF TypeInv, TypeOK
    <2>3. index \in Objects \cup {None} /\ index # cleaning
      BY <1>1, <2>1 DEF IndexHasPlayer, TypeInv, TypeOK
    <2>4. cleaning \in collected
      BY <1>1, <2>1 DEF TypeInv, LocalsFit, SessionsFit
    <2>5. \A n \in Logins : pc[n] \in {"bindActor", "bindIndex"} => sess'[mine[n]] = sess[mine[n]]
      BY <2>2, <2>4, BoundIsNotCollected
    <2>6. index # None => sess'[index] = sess[index]  BY <2>2, <2>3
    <2>7. \A n \in Logins :
            /\ pc'[n] \in {"bindPlayer", "bindActor", "bindIndex"} => mapped' = n
            /\ pc'[n] \in {"bindActor", "bindIndex"} => sess'[mine'[n]].player = n
      BY <1>3, <2>1, <2>5 DEF IndexFollows
    <2> QED  BY <1>3, <2>1, <2>6, <2>7 DEF IndexFollows, Inserted
  <1> QED  BY <1>5, <1>6, <1>7, <1>8, <1>9, <1>10, <1>11 DEF Next, CheckTimeout

\* When an account's logins come by one connection, the index leads to the Session of its
\* Player in the map, or nowhere once a Session has timed out: the next login closes the
\* right connection or none (SessionManager.cpp:61, :169).
THEOREM IndexFollowsTheMap == Spec => []IndexIsCurrent
  <1> DEFINE IndexInv == RequestInv /\ IndexHasPlayer /\ IndexFollows
  <1>1. Init => IndexInv
    <2> SUFFICES ASSUME Init PROVE IndexHasPlayer /\ IndexFollows  BY RequestInvInit
    <2> QED  BY DEF Init, IndexHasPlayer, IndexFollows, Inserted
  <1>2. IndexInv /\ [Next]_vars => IndexInv'
    BY RequestInvStep, IndexHasPlayerStep, IndexFollowsStep DEF RequestInv
  <1>3. IndexInv => IndexIsCurrent
    <2> SUFFICES ASSUME IndexInv, OneConnection, Quiet, Inserted # {}
                 PROVE  /\ index # None => sess[index].player = mapped
                        /\ index = None => collected # {}
      BY DEF IndexIsCurrent
    <2>1. \A n \in Logins : pc[n] \notin Rebinding  BY DEF Quiet, InHandler, Rebinding
    <2> QED  BY <2>1 DEF IndexFollows
  <1> HIDE DEF IndexInv
  <1> QED  BY <1>1, <1>2, <1>3, PTL DEF Spec

=============================================================================
