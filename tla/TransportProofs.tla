-------------------------- MODULE TransportProofs ---------------------------
(***************************************************************************)
(* The theorems about the transport, for any number of connections, calls  *)
(* and settings, and the last invariant they need.                         *)
(*                                                                         *)
(* Server.Shutdown waits for all the goroutines it has to wait for.  It    *)
(* only looks at s.wg, so the invariant is that s.wg counts exactly the    *)
(* goroutines that run.  A connection would be counted wrongly if it was   *)
(* handed over twice: Fresh says that what is in the backlog, or held by   *)
(* the acceptor, has never had a handler, and is there once.               *)
(***************************************************************************)
EXTENDS TransportAnswers, FiniteSetTheorems

-----------------------------------------------------------------------------
(* Counting. *)

\* The goroutines of the connections are finitely many.
LEMMA Finite ==
  /\ IsFiniteSet(Handlers) /\ Cardinality(Handlers) \in Nat
  /\ IsFiniteSet(Closers) /\ Cardinality(Closers) \in Nat
  <1>1. Handlers \in SUBSET Conn /\ Closers \in SUBSET Conn
    BY Zenon DEF Handlers, Closers
  <1> QED
    BY <1>1, ConnFinite, FS_Subset, FS_CardinalityType, Zenon

\* When s.wg is 0 there are none.
LEMMA ZeroMeansNone ==
  ASSUME WgExact, wg = 0
  PROVE  starter # "run" /\ Handlers = {} /\ Closers = {}
  <1>1. Starters \in Nat /\ (starter = "run" => Starters = 1)
    BY Zenon DEF Starters
  <1>2. Starters = 0 /\ Cardinality(Handlers) = 0 /\ Cardinality(Closers) = 0
    BY <1>1, Finite DEF WgExact
  <1> QED
    BY <1>1, <1>2, Finite, FS_EmptySet

\* Initially nothing runs.
LEMMA InitTInv == Init => TInv
  <1> SUFFICES ASSUME Init PROVE TInv
    OBVIOUS
  <1>1. CTypeOK /\ Fresh /\ Stopped
    BY DEF Init, CTypeOK, Fresh, Stopped
  <1>2. Handlers = {} /\ Closers = {} /\ Starters = 0
    BY Zenon DEF Init, Handlers, Closers, Starters
  <1>3. WgExact
    BY <1>2, FS_EmptySet DEF Init, WgExact
  <1> QED
    BY <1>1, <1>3, Zenon DEF TInv

-----------------------------------------------------------------------------
(* The server. *)

\* The server starts, with handleConns as its one counted goroutine.
LEMMA ListenTInv == TInv /\ Listen => TInv'
  <1> SUFFICES ASSUME TInv, Listen PROVE TInv'
    OBVIOUS
  <1>1. acceptor = "new" /\ starter = "new" /\ shutdown = "no"
    BY Zenon DEF Listen, TInv, Stopped
  <1>2. UNCHANGED <<handler, closer, held, backlog, cli, shutdown>>
    BY Zenon DEF Listen, netvars
  <1>3. WgExact'
    <2>1. Starters = 0 /\ Starters' = 1
      BY <1>1, Zenon DEF Starters, Listen
    <2>2. Handlers' = Handlers /\ Closers' = Closers
      BY <1>2, Zenon DEF Handlers, Closers
    <2> QED
      BY <2>1, <2>2, Finite DEF WgExact, Listen, TInv, CTypeOK
  <1>4. CTypeOK' /\ Fresh' /\ Stopped'
    BY <1>1, <1>2 DEF Listen, TInv, CTypeOK, Fresh, Stopped
  <1> QED
    BY <1>3, <1>4, Zenon DEF TInv

\* The head of the backlog is held: it was there once.
LEMMA AcceptTInv == TInv /\ Accept => TInv'
  <1> SUFFICES ASSUME TInv, Accept PROVE TInv'
    OBVIOUS
  <1>1. UNCHANGED <<handler, closer, starter, wg, cli, shutdown, listening>>
    BY Zenon DEF Accept
  <1>2. WgExact'
    BY <1>1, Zenon DEF TInv, WgExact, Handlers, Closers, Starters
  <1>3. /\ Len(backlog) > 0 /\ Len(backlog) \in Nat
        /\ held' = backlog[1] /\ held' \in Conn
        /\ backlog' \in Seq(Conn)
        /\ Len(backlog') = Len(backlog) - 1
        /\ \A i \in 1..Len(backlog') : backlog'[i] = backlog[i + 1]
    BY DEF Accept, TInv, CTypeOK
  <1>4. CTypeOK'
    BY <1>1, <1>3, Zenon DEF TInv, CTypeOK
  <1>5. Fresh'
    <2>1. \A i \in 1..Len(backlog') : i + 1 \in 1..Len(backlog) /\ i + 1 # 1
      BY <1>3
    <2>2. 1 \in 1..Len(backlog)
      BY <1>3
    <2>3. ASSUME NEW i \in 1..Len(backlog')
          PROVE  /\ handler[backlog'[i]] = "none" /\ closer[backlog'[i]] = "none"
                 /\ cli[backlog'[i]] # "new" /\ backlog'[i] # backlog[1]
      <3>1. backlog'[i] = backlog[i + 1] /\ i + 1 \in 1..Len(backlog) /\ i + 1 # 1
        BY <1>3, <2>1, Zenon
      <3> QED
        BY <2>2, <3>1, Zenon DEF TInv, Fresh
    <2>4. \A i, j \in 1..Len(backlog') : backlog'[i] = backlog'[j] => i = j
      <3> SUFFICES ASSUME NEW i \in 1..Len(backlog'), NEW j \in 1..Len(backlog'),
                          backlog'[i] = backlog'[j]
                   PROVE  i = j
        OBVIOUS
      <3>1. i + 1 = j + 1
        BY <1>3, <2>1, Zenon DEF TInv, Fresh
      <3> QED
        BY <3>1
    <2> QED
      BY <1>1, <1>3, <2>2, <2>3, <2>4, Zenon DEF TInv, Fresh
  <1>6. Stopped'
    BY <1>1, Zenon DEF TInv, Stopped, Accept
  <1> QED
    BY <1>2, <1>4, <1>5, <1>6, Zenon DEF TInv

\* The acceptor itself is not counted.
LEMMA AcceptFailsTInv == TInv /\ AcceptFails => TInv'
  <1> SUFFICES ASSUME TInv, AcceptFails PROVE TInv'
    OBVIOUS
  <1>1. UNCHANGED <<handler, closer, starter, wg, cli, shutdown, listening, held, backlog>>
    BY Zenon DEF AcceptFails, netvars
  <1>2. WgExact'
    BY <1>1, Zenon DEF TInv, WgExact, Handlers, Closers, Starters
  <1>3. CTypeOK' /\ Fresh' /\ Stopped'
    BY <1>1, Zenon DEF TInv, CTypeOK, Fresh, Stopped, AcceptFails
  <1> QED
    BY <1>2, <1>3, Zenon DEF TInv

\* handleConns gets a connection: two goroutines more.
LEMMA HandOverTInv == TInv /\ HandOver => TInv'
  <1> SUFFICES ASSUME TInv, HandOver PROVE TInv'
    OBVIOUS
  <1>1. UNCHANGED <<starter, cli, shutdown, listening, backlog>>
    BY Zenon DEF HandOver, netvars
  <1>2. /\ held \in Conn /\ handler[held] = "none" /\ closer[held] = "none"
        /\ cli[held] # "new"
        /\ \A i \in 1..Len(backlog) : backlog[i] # held
    BY Zenon DEF HandOver, TInv, CTypeOK, Fresh
  <1>3. /\ DOMAIN handler' = Conn /\ DOMAIN closer' = Conn
        /\ handler'[held] = "read" /\ closer'[held] = "select"
        /\ \A c \in Conn : c # held => handler'[c] = handler[c] /\ closer'[c] = closer[c]
    BY <1>2, Zenon DEF HandOver, TInv, CTypeOK
  <1>4. WgExact'
    <2>1. Handlers' = Handlers \cup {held} /\ held \notin Handlers
      BY <1>2, <1>3, Zenon DEF Handlers
    <2>2. Closers' = Closers \cup {held} /\ held \notin Closers
      BY <1>2, <1>3, Zenon DEF Closers
    <2>3. /\ Cardinality(Handlers') = Cardinality(Handlers) + 1
          /\ Cardinality(Closers') = Cardinality(Closers) + 1
      BY <2>1, <2>2, Finite, FS_AddElement, Zenon
    <2>4. Starters' = Starters /\ Starters \in Nat
      BY <1>1, Zenon DEF Starters
    <2> QED
      BY <2>3, <2>4, Finite DEF WgExact, HandOver, TInv
  <1>5. CTypeOK'
    BY <1>1, <1>3 DEF HandOver, TInv, CTypeOK
  <1>6. Fresh'
    <2>1. \A i \in 1..Len(backlog) : backlog[i] \in Conn
      BY DEF TInv, CTypeOK
    <2> QED
      BY <1>1, <1>2, <1>3, <2>1 DEF HandOver, TInv, Fresh
  <1>7. Stopped'
    <2>1. shutdown # "returned"
      BY ZeroMeansNone, Zenon DEF TInv, Stopped, HandOver
    <2> QED
      BY <1>1, <2>1, Zenon DEF HandOver, TInv, Stopped
  <1> QED
    BY <1>4, <1>5, <1>6, <1>7, Zenon DEF TInv

\* handleConns returns: one goroutine less.
LEMMA StarterReturnsTInv == TInv /\ StarterReturns => TInv'
  <1> SUFFICES ASSUME TInv, StarterReturns PROVE TInv'
    OBVIOUS
  <1>1. UNCHANGED <<acceptor, held, handler, closer, cli, shutdown, listening, backlog>>
    BY Zenon DEF StarterReturns, netvars
  <1>2. WgExact'
    <2>1. Starters = 1 /\ Starters' = 0
      BY Zenon DEF Starters, StarterReturns
    <2>2. Handlers' = Handlers /\ Closers' = Closers
      BY <1>1, Zenon DEF Handlers, Closers
    <2> QED
      BY <2>1, <2>2, Finite DEF WgExact, StarterReturns, TInv, CTypeOK
  <1>3. shutdown # "returned"
    BY ZeroMeansNone, Zenon DEF TInv, Stopped, StarterReturns
  <1>4. CTypeOK' /\ Fresh' /\ Stopped'
    BY <1>1, <1>3 DEF StarterReturns, TInv, CTypeOK, Fresh, Stopped
  <1> QED
    BY <1>2, <1>4, Zenon DEF TInv

\* A handler or a closer that goes on, or returns and calls wg.Done().
LEMMA GoroutineTInv ==
  ASSUME TInv, NEW c \in Conn,
         UNCHANGED <<starter, acceptor, held, cli, shutdown, listening, backlog>>,
         DOMAIN handler' = Conn, DOMAIN closer' = Conn,
         \A d \in Conn : d # c => handler'[d] = handler[d] /\ closer'[d] = closer[d],
         \/ c \in Handlers /\ closer' = closer /\ wg' = wg /\ handler'[c] \notin {"none", "returned"}
         \/ c \in Handlers /\ closer' = closer /\ wg' = wg - 1 /\ handler'[c] = "returned"
         \/ c \in Closers /\ handler' = handler /\ wg' = wg /\ closer'[c] \notin {"none", "returned"}
         \/ c \in Closers /\ handler' = handler /\ wg' = wg - 1 /\ closer'[c] = "returned"
  PROVE  TInv'
  <1>1. handler[c] # "none" \/ closer[c] # "none"
    BY Zenon DEF Handlers, Closers
  <1>2. CTypeOK'
    BY DEF TInv, CTypeOK
  <1>3. Fresh'
    <2>1. \A i \in 1..Len(backlog) : backlog[i] \in Conn /\ backlog[i] # c
      BY <1>1 DEF TInv, CTypeOK, Fresh
    <2>2. acceptor = "send" => held \in Conn /\ held # c
      BY <1>1, Zenon DEF TInv, CTypeOK, Fresh
    <2>3. cli[c] # "new"
      BY <1>1, Zenon DEF TInv, Fresh
    <2> QED
      BY <2>1, <2>2, <2>3 DEF TInv, Fresh
  <1>4. Stopped'
    <2>1. shutdown # "returned"
      BY ZeroMeansNone, Zenon DEF TInv, Stopped
    <2> QED
      BY <2>1, Zenon DEF TInv, Stopped
  <1>5. WgExact'
    <2>1. Starters' = Starters /\ Starters \in Nat
      BY Zenon DEF Starters
    <2>2. CASE c \in Handlers /\ closer' = closer /\ wg' = wg /\ handler'[c] \notin {"none", "returned"}
      <3>1. Handlers' = Handlers /\ Closers' = Closers
        BY <2>2, Zenon DEF Handlers, Closers
      <3> QED
        BY <2>1, <2>2, <3>1, Zenon DEF WgExact, TInv
    <2>3. CASE c \in Handlers /\ closer' = closer /\ wg' = wg - 1 /\ handler'[c] = "returned"
      <3>1. Handlers' = Handlers \ {c} /\ Closers' = Closers
        BY <2>3, Zenon DEF Handlers, Closers
      <3>2. Cardinality(Handlers') = Cardinality(Handlers) - 1
        BY <2>3, <3>1, Finite, FS_RemoveElement, Zenon
      <3> QED
        BY <2>1, <2>3, <3>1, <3>2, Finite DEF WgExact, TInv, CTypeOK
    <2>4. CASE c \in Closers /\ handler' = handler /\ wg' = wg /\ closer'[c] \notin {"none", "returned"}
      <3>1. Handlers' = Handlers /\ Closers' = Closers
        BY <2>4, Zenon DEF Handlers, Closers
      <3> QED
        BY <2>1, <2>4, <3>1, Zenon DEF WgExact, TInv
    <2>5. CASE c \in Closers /\ handler' = handler /\ wg' = wg - 1 /\ closer'[c] = "returned"
      <3>1. Closers' = Closers \ {c} /\ Handlers' = Handlers
        BY <2>5, Zenon DEF Handlers, Closers
      <3>2. Cardinality(Closers') = Cardinality(Closers) - 1
        BY <2>5, <3>1, Finite, FS_RemoveElement, Zenon
      <3> QED
        BY <2>1, <2>5, <3>1, <3>2, Finite DEF WgExact, TInv, CTypeOK
    <2> QED
      BY <2>2, <2>3, <2>4, <2>5, Zenon
  <1> QED
    BY <1>2, <1>3, <1>4, <1>5, Zenon DEF TInv

\* handleConn, step by step.
LEMMA ConnTInv == ASSUME TInv, NEW c \in Conn, ConnStep(c) PROVE TInv'
  <1>1. UNCHANGED <<starter, acceptor, held, closer, cli, shutdown, listening, backlog>>
    BY Zenon DEF ConnStep, ReadRequest, MarkBusy, UnknownOp, Execute, WriteAnswer, WriteError, HandlerReturns,
           handlervars
  <1>2. DOMAIN closer' = Conn
    BY <1>1, Zenon DEF TInv, CTypeOK
  <1>3. CASE HandlerReturns(c)
    <2>1. c \in Handlers /\ wg' = wg - 1
      BY <1>3, Zenon DEF HandlerReturns, Handlers
    <2>2. /\ DOMAIN handler' = Conn /\ handler'[c] = "returned"
          /\ \A d \in Conn : d # c => handler'[d] = handler[d]
      BY <1>3, Zenon DEF HandlerReturns, TInv, CTypeOK
    <2> QED
      BY <1>1, <1>2, <2>1, <2>2, GoroutineTInv, Zenon
  <1>4. CASE ~HandlerReturns(c)
    <2>1. c \in Handlers /\ wg' = wg
      BY <1>4, Zenon DEF ConnStep, ReadRequest, MarkBusy, UnknownOp, Execute, WriteAnswer, WriteError, Handlers
    <2>2. \E s \in {"got", "error", "execute", "write", "read"} :
            handler' = [handler EXCEPT ![c] = s]
      BY <1>4, Zenon DEF ConnStep, ReadRequest, MarkBusy, UnknownOp, Execute, WriteAnswer, WriteError
    <2>3. /\ DOMAIN handler' = Conn /\ handler'[c] \notin {"none", "returned"}
          /\ \A d \in Conn : d # c => handler'[d] = handler[d]
      BY <2>2, Zenon DEF TInv, CTypeOK
    <2> QED
      BY <1>1, <1>2, <2>1, <2>3, GoroutineTInv, Zenon
  <1> QED
    BY <1>3, <1>4, Zenon

\* The goroutine that closes the connection.
LEMMA CloserTInv == ASSUME TInv, NEW c \in Conn, CloserStep(c) PROVE TInv'
  <1>1. UNCHANGED <<starter, acceptor, held, handler, cli, shutdown, listening, backlog>>
    BY Zenon DEF CloserStep, CloserChecks, CloserCloses, closervars
  <1>2. DOMAIN handler' = Conn /\ c \in Closers
    BY <1>1, Zenon DEF TInv, CTypeOK, CloserStep, CloserChecks, CloserCloses, Closers
  <1>3. CASE CloserChecks(c)
    <2>1. /\ wg' = wg
          /\ DOMAIN closer' = Conn /\ closer'[c] \notin {"none", "returned"}
          /\ \A d \in Conn : d # c => closer'[d] = closer[d]
      BY <1>3, Zenon DEF CloserChecks, TInv, CTypeOK
    <2> QED
      BY <1>1, <1>2, <2>1, GoroutineTInv, Zenon
  <1>4. CASE CloserCloses(c)
    <2>1. /\ wg' = wg - 1
          /\ DOMAIN closer' = Conn /\ closer'[c] = "returned"
          /\ \A d \in Conn : d # c => closer'[d] = closer[d]
      BY <1>4, Zenon DEF CloserCloses, TInv, CTypeOK
    <2> QED
      BY <1>1, <1>2, <2>1, GoroutineTInv, Zenon
  <1> QED
    BY <1>3, <1>4, Zenon DEF CloserStep

\* Server.Shutdown: it counts nothing, and returns when s.wg is 0.
LEMMA ShutdownTInv ==
  ASSUME TInv, Shutdown \/ ShutdownExpires \/ CloseListener \/ ShutdownReturns PROVE TInv'
  <1>1. UNCHANGED <<acceptor, held, starter, wg, handler, closer, cli>>
    BY Zenon DEF Shutdown, ShutdownExpires, CloseListener, ShutdownReturns, shutdownvars
  <1>2. backlog' = backlog \/ backlog' = <<>>
    BY Zenon DEF Shutdown, ShutdownExpires, CloseListener, ShutdownReturns
  <1>3. WgExact'
    BY <1>1, Zenon DEF TInv, WgExact, Handlers, Closers, Starters
  <1>4. CTypeOK' /\ Fresh'
    <2>1. CASE backlog' = backlog
      BY <1>1, <2>1, Zenon DEF TInv, CTypeOK, Fresh
    <2>2. CASE backlog' = <<>>
      BY <1>1, <2>2 DEF TInv, CTypeOK, Fresh
    <2> QED
      BY <1>2, <2>1, <2>2, Zenon
  <1>5. Stopped'
    BY <1>1, Zenon DEF TInv, Stopped, Shutdown, ShutdownExpires, CloseListener, ShutdownReturns
  <1> QED
    BY <1>3, <1>4, <1>5, Zenon DEF TInv

-----------------------------------------------------------------------------
(* The client. *)

\* The steps of the client that dial nothing.
LEMMA QuietTInv ==
  ASSUME TInv, UNCHANGED servervars, DOMAIN cli' = Conn,
         \A c \in Conn : cli'[c] = "new" => cli[c] = "new"
  PROVE  TInv'
  <1>1. WgExact'
    BY Zenon DEF TInv, WgExact, Handlers, Closers, Starters, servervars
  <1>2. CTypeOK' /\ Stopped'
    BY Zenon DEF TInv, CTypeOK, Stopped, servervars
  <1>3. Fresh'
    <2>1. \A i \in 1..Len(backlog) : backlog[i] \in Conn
      BY DEF TInv, CTypeOK
    <2> QED
      BY <2>1 DEF TInv, CTypeOK, Fresh, servervars
  <1> QED
    BY <1>1, <1>2, <1>3, Zenon DEF TInv

\* A dialled connection is new to the server, and goes to the end of the
\* backlog.
LEMMA DialTInv ==
  ASSUME TInv, Dial(fresh),
         UNCHANGED <<acceptor, held, starter, wg, listening, handler, closer, shutdown>>
  PROVE  TInv'
  <1>1. fresh \in Conn /\ cli[fresh] = "new"
    BY Zenon DEF Dial, fresh
  <1>2. handler[fresh] = "none" /\ closer[fresh] = "none"
    BY <1>1, Zenon DEF TInv, Fresh
  <1> DEFINE f == fresh
  <1>3. /\ DOMAIN cli' = Conn /\ cli'[f] = "open"
        /\ \A c \in Conn : c # f => cli'[c] = cli[c]
    BY <1>1, Zenon DEF Dial, TInv, CTypeOK
  <1>4. /\ backlog \in Seq(Conn) /\ Len(backlog) \in Nat
        /\ backlog' = Append(backlog, f)
    BY DEF Dial, TInv, CTypeOK
  <1>5. f \in Conn /\ cli[f] = "new" /\ handler[f] = "none" /\ closer[f] = "none"
    BY <1>1, <1>2, Zenon
  <1> HIDE DEF f
  <1>6. /\ backlog' \in Seq(Conn) /\ Len(backlog') = Len(backlog) + 1
        /\ backlog'[Len(backlog) + 1] = f
        /\ \A i \in 1..Len(backlog) : backlog'[i] = backlog[i] /\ backlog[i] \in Conn
    BY <1>4, <1>5
  <1>7. \A i \in 1..Len(backlog) : backlog[i] # f
    BY <1>5, Zenon DEF TInv, Fresh
  <1>8. \A i \in 1..Len(backlog') : i \in 1..Len(backlog) \/ i = Len(backlog) + 1
    BY <1>4, <1>6
  <1>9. Fresh'
    <2>1. \A c \in Conn : cli'[c] = "new" => handler[c] = "none" /\ closer[c] = "none"
      BY <1>3, Zenon DEF TInv, Fresh
    <2>2. acceptor = "send" => held \in Conn /\ held # f
      BY <1>5, Zenon DEF TInv, CTypeOK, Fresh
    <2>3. acceptor = "send" => /\ handler[held] = "none" /\ closer[held] = "none"
                              /\ cli'[held] # "new"
                              /\ \A i \in 1..Len(backlog') : backlog'[i] # held
      BY <1>3, <1>6, <1>8, <2>2 DEF TInv, Fresh
    <2>4. \A i \in 1..Len(backlog') : /\ handler[backlog'[i]] = "none"
                                      /\ closer[backlog'[i]] = "none"
                                      /\ cli'[backlog'[i]] # "new"
      BY <1>3, <1>5, <1>6, <1>7, <1>8 DEF TInv, Fresh
    <2>5. \A i, j \in 1..Len(backlog') : backlog'[i] = backlog'[j] => i = j
      BY <1>6, <1>7, <1>8 DEF TInv, Fresh
    <2> QED
      BY <2>1, <2>3, <2>4, <2>5, Zenon DEF Fresh
  <1>10. CTypeOK' /\ Stopped'
    BY <1>3, <1>6, Zenon DEF TInv, CTypeOK, Stopped
  <1>11. WgExact'
    BY Zenon DEF TInv, WgExact, Handlers, Closers, Starters
  <1> QED
    BY <1>9, <1>10, <1>11, Zenon DEF TInv

\* getPool, RequestTo and the pool.
LEMMA CallTInv == ASSUME TInv, NEW p \in Call, CallStep(p) PROVE TInv'
  <1>1. CASE NewPool(p)
    <2>1. CASE Dial(fresh)
      BY <1>1, <2>1, DialTInv, Zenon DEF NewPool, dialvars
    <2>2. CASE UNCHANGED <<cli, srv, backlog, idle>>
      <3>1. UNCHANGED servervars
        BY <1>1, <2>2, Zenon DEF NewPool, dialvars, servervars
      <3> QED
        BY <2>2, <3>1, QuietTInv, Zenon DEF TInv, CTypeOK
    <2> QED
      BY <1>1, <2>1, <2>2, Zenon DEF NewPool
  <1>2. CASE GetConn(p)
    <2>1. CASE Dial(fresh)
      BY <1>2, <2>1, DialTInv, Zenon DEF GetConn, dialvars
    <2>2. CASE UNCHANGED <<cli, srv, backlog>>
      <3>1. UNCHANGED servervars
        BY <1>2, <2>2, Zenon DEF GetConn, dialvars, servervars
      <3> QED
        BY <2>2, <3>1, QuietTInv, Zenon DEF TInv, CTypeOK
    <2> QED
      BY <1>2, <2>1, <2>2, Zenon DEF GetConn
  <1>3. CASE StorePool(p)
    <2>1. UNCHANGED servervars
      BY <1>3, Zenon DEF StorePool, callvars
    <2>2. cli' = [c \in Conn |-> IF pools # None /\ <<c>> = idle[p] THEN "closed" ELSE cli[c]]
      BY <1>3, Zenon DEF StorePool
    <2> QED
      BY <2>1, <2>2, QuietTInv, Zenon
  <1>4. CASE PutBack(p)
    <2>1. UNCHANGED servervars
      BY <1>4, Zenon DEF PutBack, callvars
    <2>2. cli' = cli \/ cli' = [cli EXCEPT ![conn[p]] = "closed"]
      BY <1>4, Zenon DEF PutBack
    <2>3. DOMAIN cli' = Conn /\ \A c \in Conn : cli'[c] = "new" => cli[c] = "new"
      BY <2>2, Zenon DEF TInv, CTypeOK
    <2> QED
      BY <2>1, <2>3, QuietTInv, Zenon
  <1>5. CASE GetPool(p) \/ GetFails(p) \/ WriteRequest(p) \/ ReadAnswer(p) \/ RequestFails(p)
    <2>1. UNCHANGED <<servervars, cli>>
      BY <1>5, Zenon DEF GetPool, GetFails, WriteRequest, ReadAnswer, RequestFails, callvars, netvars
    <2> QED
      BY <2>1, QuietTInv, Zenon DEF TInv, CTypeOK
  <1> QED
    BY <1>1, <1>2, <1>3, <1>4, <1>5, Zenon DEF CallStep

\* Client.Close closes connections that were dialled.
LEMMA CloseTInv == ASSUME TInv, Close PROVE TInv'
  <1>1. UNCHANGED servervars
    BY Zenon DEF Close, callvars
  <1>2. DOMAIN cli' = Conn /\ \A c \in Conn : cli'[c] = "new" => cli[c] = "new"
    BY Zenon DEF Close
  <1> QED
    BY <1>1, <1>2, QuietTInv, Zenon

-----------------------------------------------------------------------------
\* Every step keeps the count exact.
LEMMA NextTInv == TInv /\ [Next]_vars => TInv'
  <1> SUFFICES ASSUME TInv, [Next]_vars PROVE TInv'
    OBVIOUS
  <1>1. CASE ServerStep \/ Shutdown \/ ShutdownExpires
    BY <1>1, ListenTInv, AcceptTInv, AcceptFailsTInv, HandOverTInv, StarterReturnsTInv,
       ShutdownTInv, Zenon DEF ServerStep
  <1>2. CASE Close
    BY <1>2, CloseTInv, Zenon
  <1>3. CASE \E c \in Conn : ConnStep(c) \/ CloserStep(c)
    BY <1>3, ConnTInv, CloserTInv, Zenon
  <1>4. CASE \E p \in Call : CallStep(p)
    BY <1>4, CallTInv, Zenon
  <1>5. CASE UNCHANGED vars
    <2>1. UNCHANGED servervars /\ cli' = cli
      BY <1>5, Zenon DEF vars, netvars
    <2> QED
      BY <2>1, QuietTInv, Zenon DEF TInv, CTypeOK
  <1> QED
    BY <1>1, <1>2, <1>3, <1>4, <1>5, Zenon DEF Next

\* A count of 0 leaves nothing that ShutdownWaits could be about.
LEMMA TInvImplies == TInv => ShutdownWaits
  <1> SUFFICES ASSUME TInv, shutdown = "returned" PROVE ShutdownWaits
    BY Zenon DEF ShutdownWaits
  <1>1. wg = 0 /\ starter \in {"run", "returned"}
    BY Zenon DEF TInv, Stopped
  <1>2. starter # "run" /\ Handlers = {} /\ Closers = {}
    BY <1>1, ZeroMeansNone, Zenon DEF TInv
  <1> QED
    BY <1>1, <1>2, Zenon DEF ShutdownWaits, Handlers, Closers

\* When Server.Shutdown has returned before its context was done, handleConns and every handler and closer
\* have: with any number of connections, and whatever the calls do meanwhile.
THEOREM TransportShutdownWaits == Spec => []ShutdownWaits
  <1>1. Init => TInv
    BY InitTInv, Zenon
  <1>2. TInv /\ [Next]_vars => TInv'
    BY NextTInv, Zenon
  <1>3. TInv => ShutdownWaits
    BY TInvImplies, Zenon
  <1> QED
    BY <1>1, <1>2, <1>3, PTL DEF Spec

\* The invariant holds always.
LEMMA CInvariant == Spec => [](TInv /\ CInv)
  <1>1. Init => TInv /\ CInv
    BY InitTInv, InitCInv, Zenon
  <1>2. TInv /\ CInv /\ [Next]_vars => (TInv /\ CInv)'
    BY NextTInv, NextCInv, Zenon
  <1> QED
    BY <1>1, <1>2, PTL DEF Spec

\* NoConnLost: for any number of calls, connections and places in the pool, a connection
\* that is open at the client's end is in the pool of the map, in the one pool that is
\* being made, or with a call, however GetPool, NewPool and StorePool interleave.
THEOREM TransportNoConnLost == Spec => []NoConnLost
  <1>1. CInv => NoConnLost
    <2> SUFFICES ASSUME CInv PROVE NoConnLost
      OBVIOUS
    <2>1. NoneLost
      BY Zenon DEF CInv, Held
    <2>2. \A p \in Call, c \in Conn : c \in pooled(p) => \E i \in 1..Len(idle[p]) : idle[p][i] = c
      BY ItemsAt, Zenon DEF pooled
    <2>3. ASSUME NEW c \in Conn, cli[c] = "open"
          PROVE  \E p \in Call : \/ pools = p /\ \E i \in 1..Len(idle[p]) : idle[p][i] = c
                                 \/ pc[p] = "store" /\ idle[p] = <<c>>
                                 \/ pc[p] \in {"write", "read", "put"} /\ conn[p] = c
      <3>1. PICK p \in Call : \/ pools = p /\ c \in pooled(p)
                              \/ pc[p] = "store" /\ idle[p] = <<c>>
                              \/ uses(p) /\ conn[p] = c
        BY <2>1, <2>3, Zenon DEF NoneLost
      <3>2. \/ pools = p /\ \E i \in 1..Len(idle[p]) : idle[p][i] = c
            \/ pc[p] = "store" /\ idle[p] = <<c>>
            \/ pc[p] \in {"write", "read", "put"} /\ conn[p] = c
        BY <2>2, <3>1, Zenon DEF uses
      <3> QED
        BY <3>2, Zenon
    <2> QED
      BY <2>3, Zenon DEF NoConnLost
  <1> QED
    BY <1>1, CInvariant, PTL

\* OwnAnswer: the answer a call reads is the answer to its own request, and a Get that
\* succeeds was executed, on every connection that has carried no request that was too big.
THEOREM TransportOwnAnswer == Spec => []OwnAnswer
  <1>1. CInv => OwnAnswer
    <2> SUFFICES ASSUME CInv, NEW p \in Call, clean(p)
                 PROVE  /\ resp[p] # None => resp[p].call = p
                        /\ setup.kind[p] = "get" /\ outcome(p) = "ok" => p \in ran /\ resp[p].status = "ok"
      BY Zenon DEF OwnAnswer
    <2>1. resp[p] # None => resp[p].call = p
      BY Zenon DEF CInv, Own
    <2>2. ASSUME setup.kind[p] = "get", outcome(p) = "ok" PROVE p \in ran /\ resp[p].status = "ok"
      <3>1. resp[p] # None /\ resp[p].status # "error"
        BY <2>2, Zenon DEF outcome
      <3>2. resp[p].status \in {"ok", "error"}
        BY <3>1, Zenon DEF CInv, TypeOK, Answer
      <3>3. resp[p].call \in ran
        BY <3>1, Zenon DEF CInv, Ran
      <3>4. resp[p].call = p
        BY <2>1, <3>1, Zenon
      <3>5. p \in ran
        BY <3>3, <3>4, Zenon
      <3> QED
        BY <3>1, <3>2, <3>5, Zenon
    <2> QED
      BY <2>1, <2>2, Zenon
  <1> QED
    BY <1>1, CInvariant, PTL

\* BusyAnswered: a call of an operation the server knows, whose connection was marked
\* busy when Shutdown was called, gets its answer, whatever the closers, the handlers and
\* the other calls do meanwhile.
THEOREM TransportBusyAnswered == Spec => []BusyAnswered
  <1>1. CInv => BusyAnswered
    BY Zenon DEF CInv, Answered, Awaits, BusyAnswered
  <1> QED
    BY <1>1, CInvariant, PTL
=============================================================================
