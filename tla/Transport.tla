------------------------------ MODULE Transport ------------------------------
(***************************************************************************)
(* internal/transport: one TCP server and one client with its connection    *)
(* pool, and on top of it what client/client.go makes of an answer.         *)
(*                                                                         *)
(* The server has an acceptor (waitForConnections), a goroutine that starts *)
(* handlers (handleConns), and for every connection a handler (handleConn)  *)
(* and a closer, the goroutine that closes the connection when the server   *)
(* shuts down.  A connection has two ends and a queue of messages in each   *)
(* direction.  The pool and the sockets are libraries, modelled by what the *)
(* code relies on.                                                          *)
(***************************************************************************)
EXTENDS Integers, Sequences, FiniteSets

CONSTANTS Call,      \* calls of the client library, each used once
          Conn,      \* TCP connections, used once; bounds how many are dialled
          MaxConn,   \* capacity of a pool
          None,
          Setup      \* the settings a run covers: see MCTransport

ASSUME ConnFinite == IsFiniteSet(Conn)

Request == [call : Call, part : {"whole", "header", "body"}]
Answer  == [call : Call, status : {"ok", "error"}]

ASSUME NoneFresh == None \notin Call /\ None \notin Conn /\ \A a \in Answer : a # None
ASSUME SetupType == \A s \in Setup : /\ s.big \subseteq Call
                                     /\ s.pool \in Call \cup {None}
                                     /\ s.statuses \subseteq {"ok", "error"}

VARIABLES setup,
          \* server
          acceptor,  \* waitForConnections
          held,      \* the connection it has accepted and not handed over
          starter,   \* handleConns
          wg,        \* s.wg
          cancelled, \* s.ctx is done
          listening, \* s.listener is open
          backlog,   \* connections the kernel has for Accept
          handler,   \* handleConn, by connection
          req,       \* its variable req
          busy,      \* connStatus is busyConn
          closer,    \* the goroutine handleConn starts
          shutdown,  \* the call of Shutdown
          \* connections
          cli, srv,  \* the two ends
          c2s, s2c,  \* messages under way
          \* client
          pools,     \* c.pools[addr]: the pool, named by the call that made it
          idle,      \* the connections in each pool
          poolOpen,  \* pools that are not closed
          pc,        \* where a call is
          cpool,     \* its pool
          conn,      \* its connection
          resp,      \* the answer it has read, None when the request failed
          \* history
          ran,       \* the calls whose operation the server has executed
          graced     \* the calls whose connection was busy when Shutdown was called

servervars == <<acceptor, held, starter, wg, cancelled, listening, backlog,
                handler, req, busy, closer, shutdown>>
clientvars == <<pools, idle, poolOpen, pc, cpool, conn, resp>>
netvars == <<cli, srv, c2s, s2c>>
history == <<ran, graced>>
vars == <<setup, servervars, netvars, clientvars, history>>

Init == /\ setup \in Setup
        /\ acceptor = "new"
        /\ held = None
        /\ starter = "new"
        /\ wg = 0
        /\ cancelled = FALSE
        /\ listening = FALSE
        /\ backlog = <<>>
        /\ handler = [c \in Conn |-> "none"]
        /\ req = [c \in Conn |-> None]
        /\ busy = {}
        /\ closer = [c \in Conn |-> "none"]
        /\ shutdown = "no"
        /\ cli = [c \in Conn |-> "new"]
        /\ srv = [c \in Conn |-> "new"]
        /\ c2s = [c \in Conn |-> <<>>]
        /\ s2c = [c \in Conn |-> <<>>]
        /\ pools = setup.pool
        /\ idle = [p \in Call |-> <<>>]
        /\ poolOpen = {setup.pool} \ {None}
        /\ pc = [p \in Call |-> IF setup.kind[p] = "none" THEN "done" ELSE "start"]
        /\ cpool = [p \in Call |-> None]
        /\ conn = [p \in Call |-> None]
        /\ resp = [p \in Call |-> None]
        /\ ran = {}
        /\ graced = {}

-----------------------------------------------------------------------------
(* The messages: Message.Read and Message.Write. *)

request(p) == IF p \in setup.big THEN <<[call |-> p, part |-> "header"], [call |-> p, part |-> "body"]>>
              ELSE <<[call |-> p, part |-> "whole"]>>

\* Read gets a request, or fails: a value that is too big is left unread
\* behind its header, and what is left is no valid message.
readable(m) == m.part = "whole"

answer(m, status) == [call |-> m.call, status |-> status]

-----------------------------------------------------------------------------
(* waitForConnections and handleConns. *)

\* ListenAndServe: listen, start handleConns, close StartCh.
Listen == /\ acceptor = "new"
          /\ acceptor' = "accept"
          /\ starter' = "run"
          /\ wg' = wg + 1
          /\ listening' = TRUE
          /\ UNCHANGED <<setup, held, cancelled, backlog, handler, req, busy, closer, shutdown,
                         netvars, clientvars, history>>

Accept == /\ acceptor = "accept"
          /\ backlog # <<>>
          /\ held' = Head(backlog)
          /\ backlog' = Tail(backlog)
          /\ srv' = [srv EXCEPT ![Head(backlog)] = "open"]
          /\ acceptor' = "send"
          /\ UNCHANGED <<setup, starter, wg, cancelled, listening, handler, req, busy, closer, shutdown,
                         cli, c2s, s2c, clientvars, history>>

\* Accept fails when the listener is closed, which is after cancel().
AcceptFails == /\ acceptor = "accept"
               /\ ~listening
               /\ acceptor' = "returned"
               /\ UNCHANGED <<setup, held, starter, wg, cancelled, listening, backlog, handler, req,
                              busy, closer, shutdown, netvars, clientvars, history>>

\* Mutant: the closer is not counted.
HandOverUncounted ==
  /\ acceptor = "send"
  /\ starter = "run"
  /\ acceptor' = "accept"
  /\ held' = None
  /\ handler' = [handler EXCEPT ![held] = "read"]
  /\ closer' = [closer EXCEPT ![held] = "select"]
  /\ wg' = wg + 1
  /\ UNCHANGED <<setup, starter, cancelled, listening, backlog, req, busy, shutdown,
                 netvars, clientvars, history>>

\* s.connCh is unbuffered: the acceptor sends when handleConns receives, which
\* starts the handler, which starts the closer.
HandOver == /\ acceptor = "send"
            /\ starter = "run"
            /\ acceptor' = "accept"
            /\ held' = None
            /\ handler' = [handler EXCEPT ![held] = "read"]
            /\ closer' = [closer EXCEPT ![held] = "select"]
            /\ wg' = wg + 2
            /\ UNCHANGED <<setup, starter, cancelled, listening, backlog, req, busy, shutdown,
                           netvars, clientvars, history>>

\* case <-s.ctx.Done() of handleConns; the acceptor may be about to send.
StarterReturns == /\ starter = "run"
                  /\ cancelled
                  /\ starter' = "returned"
                  /\ wg' = wg - 1
                  /\ UNCHANGED <<setup, acceptor, held, cancelled, listening, backlog, handler, req,
                                 busy, closer, shutdown, netvars, clientvars, history>>

-----------------------------------------------------------------------------
(* handleConn and waitForRequest. *)

handlervars == <<setup, acceptor, held, starter, cancelled, listening, backlog, closer, shutdown,
                 cli, srv, clientvars>>

\* The handler has read a message.  The connection still counts as idle.
ReadRequest(c) ==
  LET m == Head(c2s[c])
  IN  /\ handler[c] = "read"
      /\ srv[c] = "open"
      /\ c2s[c] # <<>>
      /\ c2s' = [c2s EXCEPT ![c] = Tail(@)]
      /\ req' = [req EXCEPT ![c] = m]
      /\ handler' = [handler EXCEPT ![c] = IF readable(m) THEN "got" ELSE "error"]
      /\ UNCHANGED <<handlervars, wg, busy, s2c, history>>

\* atomic.StoreUint32(connStatus, busyConn)
MarkBusy(c) ==
  /\ handler[c] = "got"
  /\ busy' = busy \cup {c}
  /\ handler' = [handler EXCEPT ![c] = "execute"]
  /\ UNCHANGED <<handlervars, wg, req, c2s, s2c, history>>

known(p) == setup.kind[p] # "unknown"

\* There is no such operation: an error, and the deferred store of idleConn.
UnknownOp(c) ==
  /\ handler[c] = "execute"
  /\ ~known(req[c].call)
  /\ busy' = busy \ {c}
  /\ handler' = [handler EXCEPT ![c] = "error"]
  /\ UNCHANGED <<handlervars, wg, req, c2s, s2c, history>>

\* resp := opr(req)
Execute(c) ==
  /\ handler[c] = "execute"
  /\ known(req[c].call)
  /\ ran' = ran \cup {req[c].call}
  /\ handler' = [handler EXCEPT ![c] = "write"]
  /\ UNCHANGED <<handlervars, wg, req, busy, c2s, s2c, graced>>

\* resp.Write(conn), then the deferred store of idleConn.
WriteAnswer(c) ==
  /\ handler[c] = "write"
  /\ srv[c] = "open"
  /\ \E status \in setup.statuses :
       s2c' = [s2c EXCEPT ![c] = Append(@, answer(req[c], status))]
  /\ busy' = busy \ {c}
  /\ handler' = [handler EXCEPT ![c] = "read"]
  /\ UNCHANGED <<handlervars, wg, req, c2s, history>>

\* Mutant: no answer to what could not be read.
WriteErrorNot(c) ==
  /\ handler[c] = "error"
  /\ srv[c] = "open"
  /\ handler' = [handler EXCEPT ![c] = "read"]
  /\ UNCHANGED <<handlervars, wg, req, busy, c2s, s2c, history>>

\* The error message for a request that could not be read or is unknown.
WriteError(c) ==
  /\ handler[c] = "error"
  /\ srv[c] = "open"
  /\ s2c' = [s2c EXCEPT ![c] = Append(@, answer(req[c], "error"))]
  /\ handler' = [handler EXCEPT ![c] = "read"]
  /\ UNCHANGED <<handlervars, wg, req, busy, c2s, history>>

\* Mutant: an early return without wg.Done().
HandlerReturnsUncounted(c) ==
  /\ \/ handler[c] = "read" /\ c2s[c] = <<>> /\ cli[c] = "closed"
     \/ handler[c] \in {"read", "write", "error"} /\ srv[c] = "closed"
  /\ busy' = busy \ {c}
  /\ handler' = [handler EXCEPT ![c] = "returned"]
  /\ wg' = IF handler[c] = "write" THEN wg ELSE wg - 1
  /\ UNCHANGED <<handlervars, req, c2s, s2c, history>>

\* EOF after the client has closed its end, or this end is closed: the loop
\* ends and done is closed.
HandlerReturns(c) ==
  /\ \/ handler[c] = "read" /\ c2s[c] = <<>> /\ cli[c] = "closed"
     \/ handler[c] \in {"read", "write", "error"} /\ srv[c] = "closed"
  /\ busy' = busy \ {c}
  /\ handler' = [handler EXCEPT ![c] = "returned"]
  /\ wg' = wg - 1
  /\ UNCHANGED <<handlervars, req, c2s, s2c, history>>

-----------------------------------------------------------------------------
(* The closer. *)

closervars == <<setup, acceptor, held, starter, cancelled, listening, backlog, handler, req, busy,
                shutdown, cli, c2s, s2c, clientvars, history>>

\* Mutant: it does not wait for a busy connection.
CloserChecksNot(c) ==
  /\ closer[c] = "select"
  /\ cancelled \/ handler[c] = "returned"
  /\ closer' = [closer EXCEPT ![c] = "close"]
  /\ UNCHANGED <<closervars, wg, srv>>

\* It wakes up, and finds the connection idle now or at a later tick.
CloserChecks(c) ==
  /\ closer[c] = "select"
  /\ cancelled \/ handler[c] = "returned"
  /\ c \notin busy
  /\ closer' = [closer EXCEPT ![c] = "close"]
  /\ UNCHANGED <<closervars, wg, srv>>

\* conn.Close(), whatever the handler does by now.
CloserCloses(c) ==
  /\ closer[c] = "close"
  /\ srv' = [srv EXCEPT ![c] = "closed"]
  /\ closer' = [closer EXCEPT ![c] = "returned"]
  /\ wg' = wg - 1
  /\ UNCHANGED closervars

-----------------------------------------------------------------------------
(* Shutdown, called when StartCh is closed. *)

shutdownvars == <<setup, acceptor, held, starter, wg, handler, req, busy, closer,
                  cli, c2s, s2c, clientvars, ran>>

\* s.cancel()
Shutdown == /\ setup.shutdown
            /\ shutdown = "no"
            /\ listening
            /\ cancelled' = TRUE
            /\ shutdown' = "cancelled"
            /\ graced' = {req[c].call : c \in busy}
            /\ UNCHANGED <<shutdownvars, listening, backlog, srv>>

\* s.listener.Close(): the kernel resets what was not accepted.
CloseListener == /\ shutdown = "cancelled"
                 /\ listening' = FALSE
                 /\ backlog' = <<>>
                 /\ srv' = [c \in Conn |-> IF srv[c] = "backlog" THEN "closed" ELSE srv[c]]
                 /\ shutdown' = "wait"
                 /\ UNCHANGED <<shutdownvars, cancelled, graced>>

\* s.wg.Wait() returns.
ShutdownReturns == /\ shutdown = "wait"
                   /\ wg = 0
                   /\ shutdown' = "returned"
                   /\ UNCHANGED <<shutdownvars, cancelled, listening, backlog, srv, graced>>

\* The context of the caller is done first: the goroutines are left behind.
ShutdownExpires == /\ setup.expires
                   /\ shutdown = "wait"
                   /\ shutdown' = "expired"
                   /\ UNCHANGED <<shutdownvars, cancelled, listening, backlog, srv, graced>>

-----------------------------------------------------------------------------
(* Client.getPool, and the pool. *)

callvars == <<setup, servervars, history>>

goto(p, s) == pc' = [pc EXCEPT ![p] = s]

fresh == CHOOSE c \in Conn : cli[c] = "new"

\* net.Dialer.Dial: the connection is in the listener's backlog.
Dial(c) == /\ \E d \in Conn : cli[d] = "new"
           /\ listening
           /\ cli' = [cli EXCEPT ![c] = "open"]
           /\ srv' = [srv EXCEPT ![c] = "backlog"]
           /\ backlog' = Append(backlog, c)

dialvars == <<setup, acceptor, held, starter, wg, cancelled, listening, handler, req, busy, closer,
              shutdown, c2s, s2c, history>>

\* getPool finds a pool in the map, or has to make one.
GetPool(p) == /\ pc[p] = "start"
              /\ cpool' = [cpool EXCEPT ![p] = pools]
              /\ goto(p, IF pools # None THEN "get" ELSE "make")
              /\ UNCHANGED <<callvars, netvars, pools, idle, poolOpen, conn, resp>>

\* pool.NewChannelPool with MinConn connections, here none or one.
NewPool(p) == /\ pc[p] = "make"
              /\ poolOpen' = poolOpen \cup {p}
              /\ goto(p, "store")
              /\ \/ /\ setup.minConn = 1
                    /\ Dial(fresh)
                    /\ idle' = [idle EXCEPT ![p] = <<fresh>>]
                 \/ /\ setup.minConn = 0
                    /\ UNCHANGED <<cli, srv, backlog, idle>>
              /\ UNCHANGED <<dialvars, pools, cpool, conn, resp>>

\* Mutant: the second pool is not closed.
StorePoolOpen(p) ==
  /\ pc[p] = "store"
  /\ pools' = IF pools = None THEN p ELSE pools
  /\ cpool' = [cpool EXCEPT ![p] = pools']
  /\ goto(p, "get")
  /\ UNCHANGED <<callvars, netvars, poolOpen, idle, conn, resp>>

\* Under c.mu: store the new pool, or close it when another call was faster.
StorePool(p) == /\ pc[p] = "store"
                /\ pools' = IF pools = None THEN p ELSE pools
                /\ cpool' = [cpool EXCEPT ![p] = pools']
                /\ poolOpen' = IF pools = None THEN poolOpen ELSE poolOpen \ {p}
                /\ cli' = [c \in Conn |-> IF pools # None /\ <<c>> = idle[p] THEN "closed" ELSE cli[c]]
                /\ idle' = [idle EXCEPT ![p] = IF pools = None THEN @ ELSE <<>>]
                /\ goto(p, "get")
                /\ UNCHANGED <<callvars, srv, c2s, s2c, conn, resp>>

\* cpool.Get(): an idle connection, else a new one.
GetConn(p) == /\ pc[p] = "get"
              /\ cpool[p] \in poolOpen
              /\ goto(p, "write")
              /\ IF idle[cpool[p]] # <<>>
                 THEN /\ conn' = [conn EXCEPT ![p] = Head(idle[cpool[p]])]
                      /\ idle' = [idle EXCEPT ![cpool[p]] = Tail(@)]
                      /\ UNCHANGED <<cli, srv, backlog>>
                 ELSE /\ Dial(fresh)
                      /\ conn' = [conn EXCEPT ![p] = fresh]
                      /\ UNCHANGED idle
              /\ UNCHANGED <<dialvars, pools, poolOpen, cpool, resp>>

\* The pool is closed, or the server cannot be dialled.
GetFails(p) == /\ \/ pc[p] = "get" /\ cpool[p] \notin poolOpen
                  \/ pc[p] = "get" /\ idle[cpool[p]] = <<>> /\ ~listening
                  \/ pc[p] = "make" /\ setup.minConn = 1 /\ ~listening
               /\ goto(p, "done")
               /\ UNCHANGED <<callvars, netvars, pools, idle, poolOpen, cpool, conn, resp>>

-----------------------------------------------------------------------------
(* Client.RequestTo. *)

\* req.Write(conn); what goes to a closed end is lost.
WriteRequest(p) ==
  LET c == conn[p]
  IN  /\ pc[p] = "write"
      /\ c2s' = [c2s EXCEPT ![c] = IF srv[c] = "closed" THEN @ ELSE @ \o request(p)]
      /\ goto(p, "read")
      /\ UNCHANGED <<callvars, cli, srv, s2c, pools, idle, poolOpen, cpool, conn, resp>>

\* resp.Read(conn)
ReadAnswer(p) ==
  LET c == conn[p]
  IN  /\ pc[p] = "read"
      /\ s2c[c] # <<>>
      /\ resp' = [resp EXCEPT ![p] = Head(s2c[c])]
      /\ s2c' = [s2c EXCEPT ![c] = Tail(@)]
      /\ goto(p, "put")
      /\ UNCHANGED <<callvars, cli, srv, c2s, pools, idle, poolOpen, cpool, conn>>

\* Mutant: a deadline ends the read, and the answer is still under way.
RequestFailsEarly(p) ==
  /\ pc[p] \in {"write", "read"}
  /\ goto(p, "put")
  /\ UNCHANGED <<callvars, netvars, pools, idle, poolOpen, cpool, conn, resp>>

\* The write or the read fails, because the other end is closed.
RequestFails(p) ==
  /\ pc[p] \in {"write", "read"}
  /\ srv[conn[p]] = "closed"
  /\ pc[p] = "read" => s2c[conn[p]] = <<>>
  /\ goto(p, "put")
  /\ UNCHANGED <<callvars, netvars, pools, idle, poolOpen, cpool, conn, resp>>

\* The deferred conn.Close() puts the connection back, after a failure too,
\* or closes it when the pool is full or closed.
PutBack(p) ==
  LET q == cpool[p]
      keep == q \in poolOpen /\ Len(idle[q]) < MaxConn
  IN  /\ pc[p] = "put"
      /\ idle' = IF keep THEN [idle EXCEPT ![q] = Append(@, conn[p])] ELSE idle
      /\ cli' = IF keep THEN cli ELSE [cli EXCEPT ![conn[p]] = "closed"]
      /\ goto(p, "done")
      /\ UNCHANGED <<callvars, srv, c2s, s2c, pools, poolOpen, cpool, conn, resp>>

\* Client.Close closes the pool in the map and with it its connections.
Close == /\ setup.close
         /\ pools \in poolOpen
         /\ poolOpen' = poolOpen \ {pools}
         /\ cli' = [c \in Conn |-> IF \E i \in 1..Len(idle[pools]) : idle[pools][i] = c
                                   THEN "closed" ELSE cli[c]]
         /\ idle' = [idle EXCEPT ![pools] = <<>>]
         /\ UNCHANGED <<callvars, srv, c2s, s2c, pools, pc, cpool, conn, resp>>

-----------------------------------------------------------------------------
(* What the methods of client/client.go return for an answer. *)

\* Put, PutEx, Delete, Destroy and LockWithTimeout look at the error of the
\* request only, Get and GetPut fail to decode an error message, incrDecr
\* fails on it with a panic, and Unlock panics when there is no answer.
outcome(p) ==
  LET k == setup.kind[p]
      failed == resp[p] # None /\ resp[p].status = "error"
  IN  CASE pc[p] # "done"                      -> "pending"
        [] resp[p] = None /\ k # "unlock"      -> "error"
        [] resp[p] = None /\ k = "unlock"      -> "panic"
        [] failed /\ k \in {"get", "getput"}   -> "error"
        [] failed /\ k = "incr"                -> "panic"
        [] OTHER                               -> "ok"

-----------------------------------------------------------------------------
ServerStep == \/ Listen \/ Accept \/ AcceptFails \/ HandOver \/ StarterReturns
              \/ CloseListener \/ ShutdownReturns

ConnStep(c) == \/ ReadRequest(c) \/ MarkBusy(c) \/ UnknownOp(c) \/ Execute(c) \/ WriteAnswer(c)
               \/ WriteError(c) \/ HandlerReturns(c)

CloserStep(c) == CloserChecks(c) \/ CloserCloses(c)

CallStep(p) == \/ GetPool(p) \/ NewPool(p) \/ StorePool(p) \/ GetConn(p) \/ GetFails(p)
               \/ WriteRequest(p) \/ ReadAnswer(p) \/ RequestFails(p) \/ PutBack(p)

Next == \/ ServerStep
        \/ Shutdown \/ ShutdownExpires
        \/ Close
        \/ \E c \in Conn : ConnStep(c) \/ CloserStep(c)
        \/ \E p \in Call : CallStep(p)

Spec == Init /\ [][Next]_vars

\* Goroutines run and sockets deliver; nobody has to call Shutdown or Close.
FairSpec == /\ Spec
            /\ WF_vars(Listen \/ Accept \/ AcceptFails \/ HandOver)
            /\ WF_vars(StarterReturns)
            /\ WF_vars(CloseListener \/ ShutdownReturns)
            /\ \A c \in Conn : WF_vars(ConnStep(c)) /\ WF_vars(CloserStep(c))
            /\ \A p \in Call : WF_vars(CallStep(p))

-----------------------------------------------------------------------------
(* Properties that hold. *)

\* No request that was too big has been on the connection of p.
clean(p) == \A q \in setup.big : conn[q] # conn[p]

\* RequestTo, "initiates a request-response cycle to given host"
\* (client.go:115): though connections are used again and again, also after
\* failures, the answer a call reads is the answer to its own request, and a
\* Get that succeeds was executed and got a value.
OwnAnswer ==
  \A p \in Call : clean(p) =>
     /\ resp[p] # None => resp[p].call = p
     /\ (setup.kind[p] = "get" /\ outcome(p) = "ok") => (p \in ran /\ resp[p].status = "ok")

\* When Shutdown has returned, and not because its context was done, no
\* goroutine of the server but the acceptor is left: no handler executes an
\* operation on storages that Olric.Shutdown closes next.
ShutdownWaits == shutdown = "returned" =>
                   /\ starter = "returned"
                   /\ \A c \in Conn : /\ handler[c] \in {"none", "returned"}
                                      /\ closer[c] \in {"none", "returned"}

\* server.go:244, "without interrupting any active connections", of the
\* connections that are marked busy when Shutdown is called: the call gets its
\* answer.  The error for an operation the server does not know is written when
\* the connection counts as idle again, and may be cut off.
BusyAnswered == \A p \in graced : known(p) /\ pc[p] \in {"put", "done"} => resp[p] # None

\* A connection that is open at the client's end is in the pool of the map, or
\* a call has it: none is lost when two calls make a pool at the same time.
NoConnLost == \A c \in Conn : cli[c] = "open" =>
                 \E p \in Call : \/ pools = p /\ \E i \in 1..Len(idle[p]) : idle[p][i] = c
                                 \/ pc[p] = "store" /\ idle[p] = <<c>>
                                 \/ pc[p] \in {"write", "read", "put"} /\ conn[p] = c

\* Shutdown returns: every handler is woken by its closer, and no closer waits
\* for a handler that waits for it.
ShutdownEnds == shutdown = "cancelled" ~> shutdown \in {"returned", "expired"}

\* Every call of the client returns, though it has no deadline, whether the
\* server shuts down or not; but for one case: the acceptor has accepted the
\* connection and cannot hand it over, because handleConns has returned.
stranded(p) == starter = "returned" /\ conn[p] # None /\ conn[p] = held

CallsReturn == \A p \in Call : pc[p] = "start" ~> (pc[p] = "done" \/ stranded(p))

-----------------------------------------------------------------------------
(* What the documentation states and the code does not have. *)

\* server.go:244, "Shutdown gracefully shuts down the server without
\* interrupting any active connections": a request that was executed is
\* answered.
GracefulShutdown == \A p \in ran : pc[p] \in {"put", "done"} => resp[p] # None

\* ListenAndServe returns when the server is shut down, as Olric.Shutdown
\* expects, which waits for the goroutine that called it.
ListenReturns == shutdown = "cancelled" ~> acceptor = "returned"

\* A connection that has failed one call is not used for another.
BrokenNotReused ==
  \A p, q \in Call : (p # q /\ pc[p] = "done" /\ resp[p] = None /\ conn[p] # None)
                        => ~(pc[q] \in {"write", "read"} /\ conn[q] = conn[p] )

\* The methods of the client report what the server could not do.
FailuresReported == \A p \in Call : (resp[p] # None /\ resp[p].status = "error") => outcome(p) # "ok"
=============================================================================
