------------------------------ MODULE GameCluster -------------------------------
(***************************************************************************)
(* The center server (network/gameserver/server_manager.hpp) and the       *)
(* servers that register with it and look for the db server through it     *)
(* (game_server.hpp, game_server_base.hpp).                                *)
(*                                                                         *)
(* A server keeps one tcp_connection to the center and, when it depends on *)
(* the db server, another one to it; each is connected again and again     *)
(* (module TcpConnection).  A link is a connection that the network has    *)
(* made, with the messages on their way in both directions.  Its two ends  *)
(* learn separately that it is broken.  A timer is on or off and may fire  *)
(* at any time while it is on (module TimerManager).  Handlers run on one  *)
(* thread of their process, so that each is a step.                        *)
(***************************************************************************)
EXTENDS Integers, Sequences, FiniteSets, SequencesExt

CONSTANTS
    DbServers,    \* the processes that register as db_server
    GameServers,  \* the other servers, each of a unique_id of its own
    Center, None,
    MaxLinks,     \* bound: links that one of the processes still knows of
    MaxDone,      \* bound: attempts to connect that have ended, not yet handled
    MaxFaults,    \* bound: broken links, failed attempts, restarts
    MaxLate       \* bound: attempts that take long

ASSUME ClusterAssumption ==
    /\ DbServers \intersect GameServers = {}
    /\ {Center, None} \intersect (DbServers \union GameServers) = {} /\ Center # None
    /\ IsFiniteSet(GameServers) /\ "db_server" \notin GameServers
    /\ {MaxLinks, MaxDone, MaxFaults, MaxLate} \subseteq Nat

Servers == DbServers \union GameServers
Uids == {"db_server"} \union GameServers
Uid(s) == IF s \in DbServers THEN "db_server" ELSE s

\* center_conn_ptr_ and db_conn_ptr_ of the servers.
ToCenter(s) == <<s, "center">>
ToDb(g) == <<g, "db">>
Conns == {ToCenter(s) : s \in Servers} \union {ToDb(g) : g \in GameServers}

VARIABLES
    running,     \* is_running_ of a connection
    sock,        \* the link its socket_ is connected by, or was: 0 for none
    attempt,     \* whom an async_connect in flight is for, None without one
    done,        \* the results of the async_connects whose handler has not run
    failed,      \* history: start() has failed after a success, and not succeeded since
    centerTimer, \* whether connect_center_timer_ is on
    dbTimer,     \* whether connect_db_timer_ is on
    infoTimer,   \* whether get_db_info_timer_ is on
    dbInfo,      \* db_info_: whose address it is
    link,        \* the links, see Link
    servers,     \* servers_ of the center: the links of the entries, by unique_id
    faults, late \* faults and late attempts so far

connVars == <<running, sock, attempt, done, failed>>
timerVars == <<centerTimer, dbTimer, infoTimer, dbInfo>>
vars == <<connVars, timerVars, link, servers, faults, late>>

Addresses == DbServers \union {None}
Requests == {"register", "get_info"}
Replies == [type : {"registered", "info", "connected"}, db : Addresses]

\* conn is the client's connection, peer the process at the other end and accepted
\* whether the connection that the center has accepted runs: what the db server does
\* with its connections is nothing to the others.  regs is a history.
Link == [conn : Conns, peer : DbServers \union {Center}, ok : BOOLEAN, accepted : BOOLEAN,
         up : Seq(Requests), down : Seq(Replies), regs : Nat]
NoLink == [peer |-> None]
Links == 1 .. MaxLinks

TypeOK ==
    /\ running \in [Conns -> BOOLEAN] /\ failed \in [Conns -> BOOLEAN]
    /\ sock \in [Conns -> 0 .. MaxLinks]
    /\ attempt \in [Conns -> DbServers \union {Center, None}]
    /\ done \in [Conns -> Seq(BOOLEAN)]
    /\ centerTimer \in [Servers -> BOOLEAN]
    /\ dbTimer \in [GameServers -> BOOLEAN] /\ infoTimer \in [GameServers -> BOOLEAN]
    /\ dbInfo \in [GameServers -> Addresses]
    /\ link \in [Links -> Link \union {NoLink}]
    /\ servers \in [Uids -> Seq(Links)]
    /\ faults \in 0 .. MaxFaults /\ late \in 0 .. MaxLate

\* init of every server: connect_center_timer_.start(true).
Init ==
    /\ running = [c \in Conns |-> FALSE] /\ failed = [c \in Conns |-> FALSE]
    /\ sock = [c \in Conns |-> 0] /\ done = [c \in Conns |-> <<>>]
    /\ attempt = [c \in Conns |-> IF c[2] = "center" THEN Center ELSE None]
    /\ centerTimer = [s \in Servers |-> TRUE]
    /\ dbTimer = [g \in GameServers |-> FALSE] /\ infoTimer = [g \in GameServers |-> FALSE]
    /\ dbInfo = [g \in GameServers |-> None]
    /\ link = [l \in Links |-> NoLink]
    /\ servers = [u \in Uids |-> <<>>]
    /\ faults = 0 /\ late = 0

-----------------------------------------------------------------------------
(* Links.  L stands for the links in the middle of a step. *)

\* A link that no process knows of any more is forgotten, and so are the messages on
\* their way to an end that is closed.
Kept(L) ==
    LET Used(l) == \E c \in Conns : sock'[c] = l IN
    [l \in Links |->
        IF L[l] # NoLink /\ (L[l].accepted \/ Used(l)
                              \/ \E u \in Uids : l \in Range(servers'[u]))
        THEN [L[l] EXCEPT !.up = IF L[l].accepted THEN @ ELSE <<>>,
                          !.down = IF Used(l) THEN @ ELSE <<>>]
        ELSE NoLink]

Broken(L, l) == IF l = 0 THEN L ELSE [L EXCEPT ![l].ok = FALSE]

\* What is written on a broken link is lost.
SentUp(L, l, m) == IF L[l].ok THEN [L EXCEPT ![l].up = Append(@, m)] ELSE L

Reply(type, d) == [type |-> type, db |-> d]

\* The message m is written `times' times to a connection the center has accepted.  A
\* server that does not depend on the db server does nothing with any of them.
SentDown(k, m, times) ==
    IF k # NoLink /\ k.ok /\ k.accepted /\ k.conn[1] \in GameServers
    THEN [k EXCEPT !.down = @ \o [i \in 1 .. times |-> m]] ELSE k

\* broadcast_msg of SC_ServerEvent: to every entry of the other unique_ids in the table T.
\* The servers only log the events of servers other than the db server.
Broadcast(L, T, s) ==
    [l \in Links |-> SentDown(L[l], Reply("connected", s),
        IF s \in DbServers
        THEN Cardinality(UNION {{<<u, i>> : i \in {j \in DOMAIN T[u] : T[u][j] = l}}
                                  : u \in Uids \ {Uid(s)}})
        ELSE 0)]

-----------------------------------------------------------------------------
(* A server *)

\* async_connect of a connection, to the process p: the socket is closed first.
AsyncConnect(c, p, L) ==
    IF running[c]
    THEN UNCHANGED <<sock, attempt, done>> /\ link' = Kept(L)
    ELSE /\ attempt[c] # None => Len(done[c]) < MaxDone
         /\ done' = IF attempt[c] = None THEN done ELSE [done EXCEPT ![c] = Append(@, FALSE)]
         /\ attempt' = [attempt EXCEPT ![c] = p]
         /\ sock' = [sock EXCEPT ![c] = 0]
         /\ link' = Kept(Broken(L, sock[c]))

\* Mutant: the center is not asked.
GetDbInfoSilent(g, L) ==
    /\ dbTimer' = [dbTimer EXCEPT ![g] = FALSE]
    /\ link' = Kept(L)

\* get_db_info_func of a server that is not connected with the db server: get_server_info,
\* if the center is connected.
GetDbInfo(g, L) ==
    /\ dbTimer' = [dbTimer EXCEPT ![g] = FALSE]
    /\ link' = Kept(IF running'[ToCenter(g)]
                    THEN SentUp(L, sock[ToCenter(g)], "get_info") ELSE L)

\* Mutant: the timer is not started.
ReconnectDbOnce(g, L) ==
    /\ UNCHANGED infoTimer
    /\ IF running'[ToDb(g)] THEN link' = Kept(L) /\ UNCHANGED dbTimer ELSE GetDbInfo(g, L)

\* reconnect_db: get_db_info_timer_.start(true).
ReconnectDb(g, L) ==
    /\ infoTimer' = [infoTimer EXCEPT ![g] = TRUE]
    /\ IF running'[ToDb(g)] THEN link' = Kept(L) /\ UNCHANGED dbTimer ELSE GetDbInfo(g, L)

\* on_get_db_info: connect_db_timer_.start(true).
OnGetDbInfo(g, d, L) ==
    /\ dbInfo' = [dbInfo EXCEPT ![g] = d]
    /\ dbTimer' = [dbTimer EXCEPT ![g] = TRUE]
    /\ AsyncConnect(ToDb(g), d, L)

\* The timers are slow, connect_interval being seconds: MaxLate of them fire during an
\* attempt, or before the handler of the attempt has run.
Timely(c) ==
    IF attempt[c] = None /\ done[c] = <<>> THEN UNCHANGED late
                                           ELSE late < MaxLate /\ late' = late + 1

CenterTimerFires(s) ==
    /\ centerTimer[s]
    /\ ~running[ToCenter(s)]
    /\ Timely(ToCenter(s))
    /\ UNCHANGED <<running, failed, timerVars, servers, faults>>
    /\ AsyncConnect(ToCenter(s), Center, link)

DbTimerFires(g) ==
    /\ dbTimer[g]
    /\ ~running[ToDb(g)]
    /\ Timely(ToDb(g))
    /\ UNCHANGED <<running, failed, timerVars, servers, faults>>
    /\ AsyncConnect(ToDb(g), dbInfo[g], link)

\* Bound: the messages of the link are not older than the 20 seconds of this timer.
InfoTimerFires(g) ==
    /\ infoTimer[g]
    /\ ~running[ToDb(g)]
    /\ running[ToCenter(g)] => LET k == link[sock[ToCenter(g)]] IN k.up = <<>> /\ k.down = <<>>
    /\ Timely(ToDb(g))
    /\ UNCHANGED <<connVars, centerTimer, infoTimer, dbInfo, servers, faults>>
    /\ GetDbInfo(g, link)

\* An attempt succeeds: the peer accepts the connection and starts it, nothing more.
AttemptSucceeds(c) ==
    /\ attempt[c] # None
    /\ Len(done[c]) < MaxDone
    /\ \E l \in Links :
          /\ link[l] = NoLink /\ \A k \in 1 .. l - 1 : link[k] # NoLink
          /\ sock' = [sock EXCEPT ![c] = l]
          /\ link' = [link EXCEPT ![l] =
                        [conn |-> c, peer |-> attempt[c], ok |-> TRUE,
                         accepted |-> attempt[c] = Center,
                         up |-> <<>>, down |-> <<>>, regs |-> 0]]
    /\ attempt' = [attempt EXCEPT ![c] = None]
    /\ done' = [done EXCEPT ![c] = Append(@, TRUE)]
    /\ UNCHANGED <<running, failed, timerVars, servers, faults, late>>

\* on_connect of a server when it is told of a success: the timers are stopped, whatever
\* start() returned, and the server registers with the center.
OnConnect(c) ==
    IF c = ToCenter(c[1])
    THEN /\ centerTimer' = [centerTimer EXCEPT ![c[1]] = FALSE]
         /\ link' = IF running'[c] THEN SentUp(link, sock[c], "register") ELSE link
         /\ UNCHANGED <<dbTimer, infoTimer>>
    ELSE /\ dbTimer' = [dbTimer EXCEPT ![c[1]] = FALSE]
         /\ infoTimer' = [infoTimer EXCEPT ![c[1]] = FALSE]
         /\ UNCHANGED <<centerTimer, link>>

\* handle_connect: start() whatever the result, and on_connect.  start() fails when the
\* socket has no remote endpoint: it is closed, connecting, or reset by the peer.
HandleConnect(c) ==
    /\ done[c] # <<>>
    /\ done' = [done EXCEPT ![c] = Tail(@)]
    /\ \E started \in BOOLEAN :
          /\ sock[c] = 0 => ~started
          /\ sock[c] # 0 /\ link[sock[c]].ok => started
          /\ running' = [running EXCEPT ![c] = @ \/ started]
          /\ failed' = [failed EXCEPT ![c] = (@ \/ Head(done[c])) /\ ~started]
    /\ IF Head(done[c]) THEN OnConnect(c) ELSE UNCHANGED <<centerTimer, dbTimer, infoTimer, link>>
    /\ UNCHANGED <<sock, attempt, dbInfo, servers, faults, late>>

\* on_error and on_disconnect of a server.  The socket stays open but is not read.
ConnectionLost(c) ==
    /\ running[c] /\ ~link[sock[c]].ok
    /\ running' = [running EXCEPT ![c] = FALSE]
    /\ UNCHANGED <<sock, servers>>
    /\ IF c = ToCenter(c[1])
       THEN /\ centerTimer' = [centerTimer EXCEPT ![c[1]] = TRUE]
            /\ link' = [link EXCEPT ![sock[c]].down = <<>>]
            /\ UNCHANGED <<dbTimer, infoTimer>>
       ELSE ReconnectDb(c[1], link) /\ UNCHANGED centerTimer
    /\ UNCHANGED <<attempt, done, failed, dbInfo, faults, late>>

\* on_receive of a server: on_sc_register_server, on_sc_get_server_info and
\* on_sc_server_event.
ServerReceives(g) ==
    LET l == sock[ToCenter(g)] IN
    /\ running[ToCenter(g)] /\ link[l].down # <<>>
    /\ LET m == Head(link[l].down)
           L == [link EXCEPT ![l].down = Tail(@)]
       IN
       /\ UNCHANGED <<running, failed, centerTimer, servers, faults, late>>
       /\ \/ /\ m.type = "registered"
             /\ UNCHANGED <<sock, attempt, done, dbInfo>>
             /\ ReconnectDb(g, L)
          \/ /\ m.db # None
             /\ OnGetDbInfo(g, m.db, L)
             /\ UNCHANGED infoTimer
          \/ /\ m.type = "info" /\ m.db = None
             /\ link' = L
             /\ UNCHANGED <<sock, attempt, done, dbTimer, infoTimer, dbInfo>>

-----------------------------------------------------------------------------
(* The center *)

\* on_cs_register_server.
OnRegister(l, L) ==
    LET s == link[l].conn[1]
        K == [L EXCEPT ![l] = [SentDown(L[l], Reply("registered", None), 1) EXCEPT
                                 !.regs = @ + 1]]
    IN
    /\ servers' = [servers EXCEPT ![Uid(s)] = Append(@, l)]
    /\ link' = Broadcast(K, servers', s)

\* on_cs_get_server_info, for the db server: of several the first entry.
OnGetInfo(l, L) ==
    LET entries == servers["db_server"]
        db == IF entries = <<>> THEN None ELSE link[Head(entries)].conn[1]
    IN
    /\ link' = [L EXCEPT ![l] = SentDown(L[l], Reply("info", db), 1)]
    /\ UNCHANGED servers

CenterReceives(l) ==
    /\ link[l].peer = Center /\ link[l].accepted /\ link[l].up # <<>>
    /\ LET L == [link EXCEPT ![l].up = Tail(@)] IN
       IF Head(link[l].up) = "register" THEN OnRegister(l, L) ELSE OnGetInfo(l, L)
    /\ UNCHANGED <<connVars, timerVars, faults, late>>

\* Mutant: all the entries of the unique_id are erased.
ErasedAll(entries, l) == <<>>

\* The first of the entries with this connection is erased.
Erased(entries, l) ==
    IF l \in Range(entries) THEN RemoveFirst(entries, l) ELSE entries

\* on_error and on_disconnect of the center.  A connection that did not register has
\* no unique_id.  The other servers only log the event they are sent.
CenterLoses(l) ==
    /\ link[l].peer = Center /\ link[l].accepted /\ ~link[l].ok
    /\ servers' = IF link[l].regs = 0 THEN servers
                  ELSE [servers EXCEPT ![Uid(link[l].conn[1])] = Erased(@, l)]
    /\ UNCHANGED <<connVars, timerVars, faults, late>>
    /\ link' = Kept([link EXCEPT ![l].accepted = FALSE])

-----------------------------------------------------------------------------
(* Faults *)

Fault == faults < MaxFaults /\ faults' = faults + 1 /\ UNCHANGED late

LinkBreaks(l) ==
    /\ Fault
    /\ link[l] # NoLink /\ link[l].ok
    /\ link' = Broken(link, l)
    /\ UNCHANGED <<connVars, timerVars, servers>>

AttemptFails(c) ==
    /\ Fault
    /\ attempt[c] # None /\ Len(done[c]) < MaxDone
    /\ attempt' = [attempt EXCEPT ![c] = None]
    /\ done' = [done EXCEPT ![c] = Append(@, FALSE)]
    /\ UNCHANGED <<running, sock, failed, timerVars, link, servers>>

\* A process ends and is started again: nothing is persistent.
CenterRestarts ==
    /\ Fault
    /\ servers' = [u \in Uids |-> <<>>]
    /\ UNCHANGED <<connVars, timerVars>>
    /\ link' = Kept([l \in Links |-> IF link[l].peer = Center
                       THEN [link[l] EXCEPT !.ok = FALSE, !.accepted = FALSE, !.regs = 0]
                       ELSE link[l]])

ServerRestarts(s) ==
    LET Own(c) == c[1] = s
        Reset(f, x) == [c \in Conns |-> IF Own(c) THEN x ELSE f[c]]
        Off(f) == [g \in GameServers |-> IF g = s THEN FALSE ELSE f[g]]
    IN
    /\ Fault
    /\ running' = Reset(running, FALSE) /\ failed' = Reset(failed, FALSE)
    /\ sock' = Reset(sock, 0) /\ done' = Reset(done, <<>>)
    /\ attempt' = [Reset(attempt, None) EXCEPT ![ToCenter(s)] = Center]
    /\ centerTimer' = [centerTimer EXCEPT ![s] = TRUE]
    /\ dbTimer' = Off(dbTimer) /\ infoTimer' = Off(infoTimer)
    /\ dbInfo' = [g \in GameServers |-> IF g = s THEN None ELSE dbInfo[g]]
    /\ UNCHANGED servers
    /\ link' = Kept([l \in Links |->
                  IF link[l] = NoLink THEN NoLink
                  ELSE IF link[l].peer = s \/ Own(link[l].conn)
                       THEN [link[l] EXCEPT !.ok = FALSE]
                  ELSE link[l]])

-----------------------------------------------------------------------------
ServerHandles(s) ==
    \/ \E c \in {ToCenter(s), ToDb(s)} \intersect Conns :
          HandleConnect(c) \/ ConnectionLost(c)
    \/ s \in GameServers /\ ServerReceives(s)

CenterHandles(l) == CenterReceives(l) \/ CenterLoses(l)

Timers ==
    \/ \E s \in Servers : CenterTimerFires(s)
    \/ \E g \in GameServers : DbTimerFires(g) \/ InfoTimerFires(g)

Next ==
    \/ \E s \in Servers : ServerHandles(s)
    \/ \E l \in Links : CenterHandles(l) \/ LinkBreaks(l)
    \/ Timers
    \/ \E c \in Conns : AttemptSucceeds(c) \/ AttemptFails(c)
    \/ CenterRestarts
    \/ \E s \in Servers : ServerRestarts(s)

Spec == Init /\ [][Next]_vars

\* The thread of each process runs its handlers, those of the center whatever the
\* connection; timers that are on fire, and attempts to connect end.
Fairness ==
    /\ \A s \in Servers : WF_vars(ServerHandles(s)) /\ WF_vars(CenterTimerFires(s))
    /\ \A l \in Links : WF_vars(CenterHandles(l))
    /\ \A g \in GameServers : WF_vars(DbTimerFires(g)) /\ WF_vars(InfoTimerFires(g))
    /\ \A c \in Conns : WF_vars(AttemptSucceeds(c))

FairSpec == Spec /\ Fairness

-----------------------------------------------------------------------------
(* Properties *)

\* The table of the center has one entry for a link on which a server has registered
\* while the center's end of it runs, and none afterwards: what a broken link, a
\* connection that overtakes the loss of the one before, and a restart leave behind is
\* erased.  A server that registers twice on a link leaves an entry, see regs.
TableExact ==
    \A l \in Links : link[l] # NoLink /\ link[l].peer = Center =>
        Cardinality({i \in DOMAIN servers[Uid(link[l].conn[1])] :
                        servers[Uid(link[l].conn[1])][i] = l})
          = IF link[l].accepted \/ link[l].regs = 0 THEN link[l].regs ELSE link[l].regs - 1

\* A server whose connection to the center does not run will try again.  One whose
\* connection to the db server does not run asks for its address again and again, or
\* will do so when the center answers its registration.  The exception is a start() that
\* failed after the connection was made: on_connect has stopped the timers then.
Registering(s) ==
    LET k == link[sock[ToCenter(s)]] IN
    \/ ~running[ToCenter(s)]
    \/ TRUE \in Range(done[ToCenter(s)])
    \/ ~k.ok
    \/ "register" \in Range(k.up)
    \/ Reply("registered", None) \in Range(k.down)
Retried ==
    /\ \A s \in Servers : running[ToCenter(s)] \/ centerTimer[s] \/ failed[ToCenter(s)]
    /\ \A g \in GameServers :
          running[ToDb(g)] \/ infoTimer[g] \/ failed[ToDb(g)] \/ Registering(g)

\* Faults being bounded, every server gets registered with the center and connected with
\* the db server in the end, unless a start() failed.
Connected ==
    /\ \A c \in Conns : running[c] /\ link[sock[c]].ok
    /\ \A s \in Servers : sock[ToCenter(s)] \in Range(servers[Uid(s)])
Converges == <>[](Connected \/ \E c \in Conns : failed[c])

=============================================================================
