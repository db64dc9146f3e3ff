-------------------------- MODULE TransportAnswers --------------------------
(***************************************************************************)
(* The messages: every step keeps what CInv says of the requests and of    *)
(* the answers.  Six steps move a message; what each of them does is a     *)
(* lemma of its own (ReadRequestDoes and so on), and for every other step  *)
(* it is enough that it moves none (Still, MostAreStill).                  *)
(***************************************************************************)
EXTENDS TransportConns

\* A call keeps its connection, and a request it has sent.
LEMMA Onward ==
  ASSUME CInv, [Next]_vars
  PROVE  /\ setup' = setup
         /\ \A q \in Call : conn[q] # None => conn'[q] = conn[q]
         /\ \A q \in Call : sent(q) => sent(q)'
         /\ \A c \in Conn : dirty(c) => dirty(c)'
  <1> USE DEF CInv
  <1>0. /\ pc \in [Call -> {"start", "make", "store", "get", "write", "read", "put", "done"}]
        /\ conn \in [Call -> Conn \cup {None}] /\ setup \in Setup
    BY Zenon DEF TypeOK
  <1>1. setup' = setup
    <2>1. CASE ServerStep \/ Shutdown \/ ShutdownExpires
      BY <2>1, Zenon DEF ServerStep, Listen, Accept, AcceptFails, HandOver, StarterReturns, CloseListener,
                  ShutdownReturns, Shutdown, ShutdownExpires, shutdownvars
    <2>2. CASE \E c \in Conn : ConnStep(c) \/ CloserStep(c)
      BY <2>2, Zenon DEF ConnStep, ReadRequest, MarkBusy, UnknownOp, Execute, WriteAnswer, WriteError, HandlerReturns,
                  handlervars, CloserStep, CloserChecks, CloserCloses, closervars
    <2>3. CASE \E p \in Call : CallStep(p)
      BY <2>3, Zenon DEF CallStep, GetPool, NewPool, StorePool, GetConn, GetFails, WriteRequest, ReadAnswer,
                  RequestFails, PutBack, callvars, dialvars
    <2> QED
      BY <2>1, <2>2, <2>3, Zenon DEF Next, Close, callvars, vars
  <1>2. \/ UNCHANGED <<pc, conn>>
        \/ \E p \in Call : /\ ~sent(p) \/ (pc[p] \in {"read", "put"} /\ pc'[p] \in {"put", "done"})
                           /\ \A q \in Call : q # p => pc'[q] = pc[q] /\ conn'[q] = conn[q]
                           /\ conn' = conn \/ conn[p] = None
    <2>1. CASE ServerStep \/ Shutdown \/ ShutdownExpires
      BY <2>1, Zenon DEF ServerStep, Listen, Accept, AcceptFails, HandOver, StarterReturns, CloseListener,
                  ShutdownReturns, Shutdown, ShutdownExpires, shutdownvars, clientvars
    <2>2. CASE \E c \in Conn : ConnStep(c) \/ CloserStep(c)
      BY <2>2, Zenon DEF ConnStep, ReadRequest, MarkBusy, UnknownOp, Execute, WriteAnswer, WriteError, HandlerReturns,
                  handlervars, CloserStep, CloserChecks, CloserCloses, closervars, clientvars
    <2>3. CASE Close \/ UNCHANGED vars
      BY <2>3, Zenon DEF Close, vars, clientvars
    <2>4. ASSUME NEW p \in Call, CallStep(p)
          PROVE  /\ ~sent(p) \/ (pc[p] \in {"read", "put"} /\ pc'[p] \in {"put", "done"})
                 /\ \A q \in Call : q # p => pc'[q] = pc[q] /\ conn'[q] = conn[q]
                 /\ conn' = conn \/ conn[p] = None
      <3>1. PICK st : pc' = [pc EXCEPT ![p] = st]
        BY <2>4, Zenon DEF CallStep, GetPool, NewPool, StorePool, GetConn, GetFails, WriteRequest, ReadAnswer,
                    RequestFails, PutBack, goto
      <3>2. pc'[p] = st /\ \A q \in Call : q # p => pc'[q] = pc[q]
        BY <1>0, <3>1, Zenon
      <3>3. ~sent(p) \/ (pc[p] \in {"read", "put"} /\ pc'[p] \in {"put", "done"})
        <4>1. pc[p] \in {"start", "make", "store", "get", "write"} => ~sent(p)
          BY Zenon DEF sent
        <4>2. CASE ReadAnswer(p) \/ RequestFails(p) \/ PutBack(p)
          BY <1>0, <4>1, <4>2, Zenon DEF ReadAnswer, RequestFails, PutBack, goto
        <4>3. CASE GetPool(p) \/ NewPool(p) \/ StorePool(p) \/ GetConn(p) \/ GetFails(p) \/ WriteRequest(p)
          BY <4>1, <4>3, Zenon DEF GetPool, NewPool, StorePool, GetConn, GetFails, WriteRequest
        <4> QED
          BY <2>4, <4>2, <4>3, Zenon DEF CallStep
      <3>4. conn' = conn \/ GetConn(p)
        BY <2>4, Zenon DEF CallStep, GetPool, NewPool, StorePool, GetFails, WriteRequest, ReadAnswer,
                    RequestFails, PutBack
      <3>5. GetConn(p) => conn[p] = None
        BY Zenon DEF GetConn, Held, Past, uses
      <3>6. GetConn(p) => \E f : conn' = [conn EXCEPT ![p] = f]
        BY Zenon DEF GetConn
      <3>7. \A q \in Call : q # p => conn'[q] = conn[q]
        BY <1>0, <3>4, <3>6, Zenon
      <3> QED
        BY <3>2, <3>3, <3>4, <3>5, <3>7, Zenon
    <2> QED
      BY <2>1, <2>2, <2>3, <2>4, Zenon DEF Next
  <1>3. \A q \in Call : conn[q] # None => conn'[q] = conn[q]
    BY <1>2, Zenon
  <1>4. \A q \in Call : sent(q) => sent(q)'
    BY <1>2, Zenon DEF sent
  <1>5. \A c \in Conn : dirty(c) => dirty(c)'
    <2>1. \A q \in setup.big : q \in Call
      BY <1>0, SetupType, Zenon
    <2> QED
      BY <1>1, <1>3, <2>1, NoneFresh, Zenon DEF dirty
  <1> QED
    BY <1>1, <1>3, <1>4, <1>5, Zenon

\* A step that moves no message: no handler gets a request, no call stops reading, and no
\* connection is opened again.
Still ==
  /\ UNCHANGED <<c2s, s2c, resp>>
  /\ \A c \in Conn : works(c)' => works(c) /\ req'[c] = req[c]
  /\ \A c \in Conn : srv'[c] # "closed" => srv[c] # "closed"
  /\ \A q \in Call : (pc[q] = "read" => pc'[q] = "read") /\ (pc'[q] \in {"put", "done"} /\ conn'[q] # None => pc[q] \in {"put", "done"} /\ conn'[q] = conn[q])

\* The steps that move a message, and the others.
LEMMA MostAreStill ==
  ASSUME TInv, CInv, [Next]_vars,
         \A c \in Conn : ~ReadRequest(c) /\ ~WriteAnswer(c) /\ ~WriteError(c),
         \A p \in Call : ~WriteRequest(p) /\ ~ReadAnswer(p) /\ ~RequestFails(p)
  PROVE  Still
  <1> USE DEF CInv
  <1>0. /\ srv \in [Conn -> {"new", "backlog", "open", "closed"}]
        /\ handler \in [Conn -> {"none", "read", "got", "error", "execute", "write", "returned"}]
        /\ pc \in [Call -> {"start", "make", "store", "get", "write", "read", "put", "done"}]
        /\ conn \in [Call -> Conn \cup {None}] /\ backlog \in Seq(Conn)
    BY Zenon DEF TypeOK, TInv, CTypeOK
  <1>1. CASE ServerStep \/ Shutdown \/ ShutdownExpires
    <2>1. UNCHANGED <<c2s, s2c, req, resp, pc, conn>>
      BY <1>1, Zenon DEF ServerStep, Listen, Accept, AcceptFails, HandOver, StarterReturns, CloseListener,
                  ShutdownReturns, Shutdown, ShutdownExpires, shutdownvars, netvars, clientvars
    <2>2. \A c \in Conn : works(c)' => works(c)
      <3>1. handler' = handler \/ handler' = [handler EXCEPT ![held] = "read"]
        BY <1>1, Zenon DEF ServerStep, Listen, Accept, AcceptFails, HandOver, StarterReturns, CloseListener,
                  ShutdownReturns, Shutdown, ShutdownExpires, shutdownvars
      <3> QED
        BY <1>0, <3>1, Zenon DEF works
    <2>3. \A c \in Conn : srv'[c] # "closed" => srv[c] # "closed"
      <3>1. CASE Accept
        <4>1. srv' = [srv EXCEPT ![backlog[1]] = "open"] /\ 1 \in 1..Len(backlog)
          BY <1>0, <3>1 DEF Accept
        <4>2. srv[backlog[1]] = "backlog"
          BY <4>1, Zenon DEF Served
        <4> QED
          BY <1>0, <4>1, <4>2, Zenon
      <3>2. CASE CloseListener
        BY <3>2, Zenon DEF CloseListener
      <3>3. CASE ~Accept /\ ~CloseListener
        BY <1>1, <3>3, Zenon DEF ServerStep, Listen, AcceptFails, HandOver, StarterReturns,
                  ShutdownReturns, Shutdown, ShutdownExpires, netvars
      <3> QED
        BY <3>1, <3>2, <3>3, Zenon
    <2> QED
      BY <2>1, <2>2, <2>3, Zenon DEF Still
  <1>2. ASSUME NEW c \in Conn, ConnStep(c) \/ CloserStep(c) PROVE Still
    <2>1. MarkBusy(c) \/ UnknownOp(c) \/ Execute(c) \/ HandlerReturns(c) \/ CloserStep(c)
      BY <1>2, Zenon DEF ConnStep
    <2>2. UNCHANGED <<c2s, s2c, req, resp, pc, conn>>
      BY <2>1, Zenon DEF MarkBusy, UnknownOp, Execute, HandlerReturns, CloserStep, CloserChecks, CloserCloses, handlervars,
                  closervars, clientvars
    <2>3. \A d \in Conn : works(d)' => works(d)
      <3>1. CASE MarkBusy(c) \/ UnknownOp(c) \/ Execute(c)
        <4>1. works(c)
          BY <3>1, Zenon DEF MarkBusy, UnknownOp, Execute, works
        <4>2. \A d \in Conn : d # c => handler'[d] = handler[d]
          BY <1>0, <3>1, Zenon DEF MarkBusy, UnknownOp, Execute
        <4> QED
          BY <4>1, <4>2, Zenon DEF works
      <3>2. CASE HandlerReturns(c)
        BY <1>0, <3>2, Zenon DEF HandlerReturns, works
      <3>3. CASE CloserStep(c)
        BY <3>3, Zenon DEF CloserStep, CloserChecks, CloserCloses, closervars, works
      <3> QED
        BY <2>1, <3>1, <3>2, <3>3, Zenon
    <2>4. \A d \in Conn : srv'[d] # "closed" => srv[d] # "closed"
      <3>1. srv' = srv \/ srv' = [srv EXCEPT ![c] = "closed"]
        BY <2>1, Zenon DEF MarkBusy, UnknownOp, Execute, HandlerReturns, CloserStep, CloserChecks, CloserCloses, handlervars
      <3> QED
        BY <1>0, <3>1, Zenon
    <2> QED
      BY <2>2, <2>3, <2>4, Zenon DEF Still
  <1>3. ASSUME NEW p \in Call, CallStep(p) PROVE Still
    <2>1. GetPool(p) \/ NewPool(p) \/ StorePool(p) \/ GetConn(p) \/ GetFails(p) \/ PutBack(p)
      BY <1>3, Zenon DEF CallStep
    <2>2. UNCHANGED <<c2s, s2c, req, resp, handler>>
      BY <2>1, Zenon DEF GetPool, NewPool, StorePool, GetConn, GetFails, PutBack, callvars, servervars, dialvars, netvars
    <2>3. \A d \in Conn : srv'[d] # "closed" => srv[d] # "closed"
      <3>1. srv' = srv \/ Dial(fresh)
        BY <2>1, Zenon DEF GetPool, NewPool, StorePool, GetConn, GetFails, PutBack, netvars
      <3>2. ASSUME Dial(fresh) PROVE \A d \in Conn : srv'[d] # "closed" => srv[d] # "closed"
        <4>1. PICK f \in Conn : cli[f] = "new" /\ srv' = [srv EXCEPT ![f] = "backlog"]
          BY <3>2, Dialled, Zenon
        <4>2. srv[f] # "closed"
          BY <4>1, Zenon DEF Unborn
        <4> QED
          BY <1>0, <4>1, <4>2, Zenon
      <3> QED
        BY <3>1, <3>2, Zenon
    <2>4. \A q \in Call : pc[q] = "read" => pc'[q] = "read"
      BY <1>0, <2>1, Zenon DEF GetPool, NewPool, StorePool, GetConn, GetFails, PutBack, goto
    <2>5. \A q \in Call : pc'[q] \in {"put", "done"} /\ conn'[q] # None
                            => pc[q] \in {"put", "done"} /\ conn'[q] = conn[q]
      <3>1. CASE PutBack(p)
        BY <1>0, <3>1, Zenon DEF PutBack, goto
      <3>2. CASE GetFails(p)
        <4>1. conn' = conn /\ conn[p] = None
          BY <3>2, Zenon DEF GetFails, Held, Past, uses
        <4>2. \A q \in Call : q # p => pc'[q] = pc[q]
          BY <1>0, <3>2, Zenon DEF GetFails, goto
        <4> QED
          BY <4>1, <4>2, Zenon
      <3>3. CASE GetPool(p) \/ NewPool(p) \/ StorePool(p) \/ GetConn(p)
        <4>1. pc'[p] \in {"make", "store", "get", "write"} /\ \A q \in Call : q # p => pc'[q] = pc[q]
          BY <1>0, <3>3, Zenon DEF GetPool, NewPool, StorePool, GetConn, goto
        <4>2. \A q \in Call : q # p => conn'[q] = conn[q]
          BY <1>0, <3>3, Zenon DEF GetPool, NewPool, StorePool, GetConn
        <4> QED
          BY <4>1, <4>2, Zenon
      <3> QED
        BY <2>1, <3>1, <3>2, <3>3, Zenon
    <2> QED
      BY <2>2, <2>3, <2>4, <2>5, Zenon DEF Still, works
  <1>4. CASE Close \/ UNCHANGED vars
    BY <1>4, Zenon DEF Close, callvars, servervars, vars, netvars, clientvars, Still, works
  <1> QED
    BY <1>1, <1>2, <1>3, <1>4, Zenon DEF Next

\* A handler takes the first request.
LEMMA ReadRequestDoes ==
  ASSUME CInv, NEW c \in Conn, ReadRequest(c)
  PROVE  /\ \E m \in Request : /\ req'[c] = m /\ m = Head(c2s[c])
                               /\ Items(c2s[c]) = Items(c2s'[c]) \cup {m}
         /\ c2s'[c] = Tail(c2s[c]) /\ c2s[c] # <<>> /\ srv[c] = "open"
         /\ handler[c] = "read" /\ handler'[c] \in {"got", "error"}
         /\ \A d \in Conn : d # c => c2s'[d] = c2s[d] /\ req'[d] = req[d] /\ handler'[d] = handler[d]
         /\ UNCHANGED <<setup, s2c, resp, pc, conn, srv, closer, busy, ran, graced>>
  <1> USE DEF CInv
  <1>0. /\ c2s \in [Conn -> Seq(Request)] /\ req \in [Conn -> Request \cup {None}]
        /\ handler \in [Conn -> {"none", "read", "got", "error", "execute", "write", "returned"}]
    BY Zenon DEF TypeOK
  <1>1. UNCHANGED <<setup, s2c, resp, pc, conn, srv, closer, busy, ran, graced>>
    BY Zenon DEF ReadRequest, handlervars, clientvars, history
  <1>2. c2s'[c] = Tail(c2s[c]) /\ \A d \in Conn : d # c => c2s'[d] = c2s[d]
    BY <1>0, Zenon DEF ReadRequest
  <1>3. req'[c] = Head(c2s[c]) /\ \A d \in Conn : d # c => req'[d] = req[d]
    BY <1>0, Zenon DEF ReadRequest
  <1>4. handler'[c] \in {"got", "error"} /\ \A d \in Conn : d # c => handler'[d] = handler[d]
    BY <1>0, Zenon DEF ReadRequest
  <1>5. c2s[c] # <<>> /\ srv[c] = "open" /\ handler[c] = "read" /\ c2s[c] \in Seq(Request)
    BY <1>0, Zenon DEF ReadRequest
  <1>6. Head(c2s[c]) \in Request /\ Items(c2s[c]) = Items(c2s'[c]) \cup {Head(c2s[c])}
    BY <1>2, <1>5, ItemsTail, Zenon
  <1> QED
    BY <1>1, <1>2, <1>3, <1>4, <1>5, <1>6, Zenon

\* A handler adds the answer to its request.
LEMMA AnswerDoes ==
  ASSUME CInv, NEW c \in Conn, WriteAnswer(c) \/ WriteError(c)
  PROVE  /\ \E m \in Answer : /\ m.call = req[c].call /\ (m.status # "error" => handler[c] = "write")
                              /\ s2c'[c] = Append(s2c[c], m) /\ s2c'[c] # <<>>
                              /\ Items(s2c'[c]) = Items(s2c[c]) \cup {m}
         /\ works(c) /\ srv[c] = "open" /\ handler'[c] = "read"
         /\ \A d \in Conn : d # c => /\ s2c'[d] = s2c[d] /\ handler'[d] = handler[d]
                                     /\ (d \in busy <=> d \in busy')
         /\ UNCHANGED <<setup, req, c2s, resp, pc, conn, srv, closer, ran, graced>>
  <1> USE DEF CInv
  <1>0. /\ s2c \in [Conn -> Seq(Answer)] /\ setup \in Setup
        /\ handler \in [Conn -> {"none", "read", "got", "error", "execute", "write", "returned"}]
    BY Zenon DEF TypeOK
  <1>1. UNCHANGED <<setup, req, c2s, resp, pc, conn, srv, closer, ran, graced>>
    BY Zenon DEF WriteAnswer, WriteError, handlervars, clientvars, history
  <1>2. works(c) /\ srv[c] = "open" /\ req[c] \in Request
    BY Zenon DEF WriteAnswer, WriteError, works, Asked
  <1>3. handler'[c] = "read" /\ \A d \in Conn : d # c => handler'[d] = handler[d]
    BY <1>0, Zenon DEF WriteAnswer, WriteError
  <1>4. \A d \in Conn : d # c => (d \in busy <=> d \in busy')
    BY Zenon DEF WriteAnswer, WriteError
  <1>5. \E st \in {"ok", "error"} : /\ st # "error" => handler[c] = "write"
                                    /\ s2c' = [s2c EXCEPT ![c] = Append(@, answer(req[c], st))]
    <2>1. setup.statuses \subseteq {"ok", "error"}
      BY <1>0, SetupType, Zenon
    <2>2. CASE WriteAnswer(c)
      BY <2>1, <2>2, Zenon DEF WriteAnswer
    <2>3. CASE WriteError(c)
      BY <2>3, Zenon DEF WriteError
    <2> QED
      BY <2>2, <2>3, Zenon
  <1>6. PICK m \in Answer : /\ m.call = req[c].call /\ (m.status # "error" => handler[c] = "write")
                            /\ s2c' = [s2c EXCEPT ![c] = Append(@, m)]
    BY <1>2, <1>5, MessageType, Zenon
  <1>7. s2c'[c] = Append(s2c[c], m) /\ s2c[c] \in Seq(Answer) /\ \A d \in Conn : d # c => s2c'[d] = s2c[d]
    BY <1>0, <1>6, Zenon
  <1>8. s2c'[c] # <<>> /\ Items(s2c'[c]) = Items(s2c[c]) \cup {m}
    <2>1. Append(s2c[c], m) # <<>> /\ Items(Append(s2c[c], m)) = Items(s2c[c]) \cup {m}
      BY <1>7, ItemsAppend
    <2> QED
      BY <1>7, <2>1, Zenon
  <1> QED
    BY <1>1, <1>2, <1>3, <1>4, <1>6, <1>7, <1>8, Zenon

\* A call adds its request, unless the other end is closed.
LEMMA WriteRequestDoes ==
  ASSUME CInv, NEW p \in Call, WriteRequest(p)
  PROVE  /\ pc[p] = "write" /\ pc'[p] = "read" /\ conn[p] \in Conn
         /\ \A q \in Call : q # p => pc'[q] = pc[q]
         /\ \A d \in Conn : d # conn[p] => c2s'[d] = c2s[d]
         /\ \A m \in Items(c2s'[conn[p]]) : m \in Items(c2s[conn[p]]) \/ m.call = p
         /\ p \notin setup.big /\ srv[conn[p]] # "closed" /\ c2s[conn[p]] = <<>>
              => \E m \in Request : m.call = p /\ c2s'[conn[p]] = <<m>>
         /\ UNCHANGED <<setup, s2c, resp, conn, srv, handler, req, closer, busy, ran, graced>>
  <1> USE DEF CInv
  <1>0. /\ c2s \in [Conn -> Seq(Request)] /\ conn[p] \in Conn
        /\ pc \in [Call -> {"start", "make", "store", "get", "write", "read", "put", "done"}]
    BY Zenon DEF TypeOK, WriteRequest, Held, Owned, uses
  <1>1. UNCHANGED <<setup, s2c, resp, conn, srv, handler, req, closer, busy, ran, graced>>
    BY Zenon DEF WriteRequest, callvars, servervars, history
  <1>2. pc[p] = "write" /\ pc'[p] = "read" /\ \A q \in Call : q # p => pc'[q] = pc[q]
    BY <1>0, Zenon DEF WriteRequest, goto
  <1>3. /\ \A d \in Conn : d # conn[p] => c2s'[d] = c2s[d]
        /\ srv[conn[p]] = "closed" => c2s'[conn[p]] = c2s[conn[p]]
        /\ srv[conn[p]] # "closed" => c2s'[conn[p]] = c2s[conn[p]] \o request(p)
    BY <1>0, Zenon DEF WriteRequest
  <1>4. /\ request(p) \in Seq(Request) /\ \A m \in Items(request(p)) : m.call = p
        /\ p \notin setup.big => \E m \in Request : request(p) = <<m>> /\ m.call = p
    BY MessageType, Zenon
  <1>5. c2s[conn[p]] \in Seq(Request)
    BY <1>0, Zenon
  <1>6. \A m \in Items(c2s[conn[p]] \o request(p)) : m \in Items(c2s[conn[p]]) \/ m \in Items(request(p))
    BY <1>4, <1>5, ItemsConcat, Zenon
  <1>7. <<>> \o request(p) = request(p)
    BY <1>4
  <1> QED
    BY <1>0, <1>1, <1>2, <1>3, <1>4, <1>6, <1>7, Zenon

\* A call takes the first answer.
LEMMA ReadAnswerDoes ==
  ASSUME CInv, NEW p \in Call, ReadAnswer(p)
  PROVE  /\ \E m \in Answer : /\ resp'[p] = m /\ m = Head(s2c[conn[p]])
                              /\ Items(s2c[conn[p]]) = Items(s2c'[conn[p]]) \cup {m}
         /\ resp'[p] # None /\ s2c[conn[p]] # <<>> /\ s2c'[conn[p]] = Tail(s2c[conn[p]])
         /\ pc[p] = "read" /\ pc'[p] = "put" /\ conn[p] \in Conn
         /\ \A q \in Call : q # p => pc'[q] = pc[q] /\ resp'[q] = resp[q]
         /\ \A d \in Conn : d # conn[p] => s2c'[d] = s2c[d]
         /\ UNCHANGED <<setup, c2s, conn, srv, handler, req, closer, busy, ran, graced>>
  <1> USE DEF CInv
  <1>0. /\ s2c \in [Conn -> Seq(Answer)] /\ conn[p] \in Conn /\ resp \in [Call -> Answer \cup {None}]
        /\ pc \in [Call -> {"start", "make", "store", "get", "write", "read", "put", "done"}]
    BY Zenon DEF TypeOK, ReadAnswer, Held, Owned, uses
  <1>1. UNCHANGED <<setup, c2s, conn, srv, handler, req, closer, busy, ran, graced>>
    BY Zenon DEF ReadAnswer, callvars, servervars, history
  <1>2. pc[p] = "read" /\ pc'[p] = "put" /\ \A q \in Call : q # p => pc'[q] = pc[q]
    BY <1>0, Zenon DEF ReadAnswer, goto
  <1>3. resp'[p] = Head(s2c[conn[p]]) /\ \A q \in Call : q # p => resp'[q] = resp[q]
    BY <1>0, Zenon DEF ReadAnswer
  <1>4. s2c'[conn[p]] = Tail(s2c[conn[p]]) /\ \A d \in Conn : d # conn[p] => s2c'[d] = s2c[d]
    BY <1>0, Zenon DEF ReadAnswer
  <1>5. s2c[conn[p]] # <<>> /\ s2c[conn[p]] \in Seq(Answer)
    BY <1>0, Zenon DEF ReadAnswer
  <1>6. /\ Head(s2c[conn[p]]) \in Answer
        /\ Items(s2c[conn[p]]) = Items(s2c'[conn[p]]) \cup {Head(s2c[conn[p]])}
    BY <1>4, <1>5, ItemsTail, Zenon
  <1> QED
    BY <1>0, <1>1, <1>2, <1>3, <1>4, <1>5, <1>6, NoneFresh, Zenon

\* A call gives up when there is no answer and the other end is closed.
LEMMA RequestFailsDoes ==
  ASSUME CInv, NEW p \in Call, RequestFails(p)
  PROVE  /\ pc[p] \in {"write", "read"} /\ pc'[p] = "put" /\ conn[p] \in Conn
         /\ srv[conn[p]] = "closed" /\ (pc[p] = "read" => s2c[conn[p]] = <<>>)
         /\ \A q \in Call : q # p => pc'[q] = pc[q]
         /\ UNCHANGED <<setup, s2c, c2s, resp, conn, srv, handler, req, closer, busy, ran, graced>>
  <1> USE DEF CInv
  <1>0. /\ conn[p] \in Conn
        /\ pc \in [Call -> {"start", "make", "store", "get", "write", "read", "put", "done"}]
    BY Zenon DEF TypeOK, RequestFails, Held, Owned, uses
  <1>1. UNCHANGED <<setup, s2c, c2s, resp, conn, srv, handler, req, closer, busy, ran, graced>>
    BY Zenon DEF RequestFails, callvars, servervars, history, netvars
  <1>2. pc[p] \in {"write", "read"} /\ pc'[p] = "put" /\ \A q \in Call : q # p => pc'[q] = pc[q]
    BY <1>0, Zenon DEF RequestFails, goto
  <1>3. srv[conn[p]] = "closed" /\ (pc[p] = "read" => s2c[conn[p]] = <<>>)
    BY Zenon DEF RequestFails
  <1> QED
    BY <1>0, <1>1, <1>2, <1>3, Zenon

\* What is on the way has the type of a message.
LEMMA ItemsType ==
  ASSUME CInv
  PROVE  \A c \in Conn : Items(c2s[c]) \subseteq Request /\ Items(s2c[c]) \subseteq Answer
  BY DEF CInv, TypeOK, Items

\* Requests are written by their calls.
LEMMA NextAsked == ASSUME TInv, CInv, [Next]_vars PROVE Asked'
  <1> USE DEF CInv
  <1>1. \A m \in Request : m.call \in Call
    BY Zenon DEF Request
  <1>2. \A q \in Call, c \in Conn : conn[q] = c /\ sent(q) => conn'[q] = c /\ sent(q)'
    BY Onward, NoneFresh, Zenon
  <1>3. \A c \in Conn : \A m \in Items(c2s[c]) :
           m \in Request /\ m.call \in Call /\ conn[m.call] = c /\ sent(m.call)
    BY <1>1, ItemsType, Zenon DEF Asked
  <1>4. \A c \in Conn : works(c) => /\ req[c] \in Request /\ req[c].call \in Call
                                    /\ conn[req[c].call] = c /\ sent(req[c].call)
    BY <1>1, Zenon DEF Asked
  <1>5. ASSUME \A c \in Conn : \A m \in Items(c2s'[c]) : m \in Items(c2s[c]) \/ (conn'[m.call] = c /\ sent(m.call)'),
               \A c \in Conn : works(c)' => (works(c) /\ req'[c] = req[c]) \/ req'[c] \in Items(c2s[c])
        PROVE  Asked'
    <2>1. ASSUME NEW c \in Conn, NEW m \in Items(c2s'[c]) PROVE conn'[m.call] = c /\ sent(m.call)'
      BY <1>2, <1>3, <1>5, Zenon
    <2>2. ASSUME NEW c \in Conn, works(c)' PROVE req'[c] \in Request /\ conn'[req'[c].call] = c /\ sent(req[c].call)'
      <3>1. PICK m \in Request : req'[c] = m /\ m.call \in Call /\ conn[m.call] = c /\ sent(m.call)
        BY <1>3, <1>4, <1>5, <2>2, Zenon
      <3>2. conn'[m.call] = c /\ sent(m.call)'
        BY <1>2, <3>1, Zenon
      <3> QED
        BY <3>1, <3>2, Zenon DEF sent
    <2> QED
      BY <2>1, <2>2, Zenon DEF Asked
  <1>6. CASE Still
    BY <1>5, <1>6, Zenon DEF Still
  <1>7. ASSUME NEW c \in Conn, ReadRequest(c) PROVE Asked'
    <2>1. /\ \E m \in Request : req'[c] = m /\ Items(c2s[c]) = Items(c2s'[c]) \cup {m}
          /\ \A d \in Conn : d # c => c2s'[d] = c2s[d] /\ req'[d] = req[d] /\ handler'[d] = handler[d]
      BY <1>7, ReadRequestDoes, Zenon
    <2> QED
      BY <1>5, <2>1, Zenon DEF works
  <1>8. ASSUME NEW c \in Conn, WriteAnswer(c) \/ WriteError(c) PROVE Asked'
    <2>1. /\ UNCHANGED <<req, c2s>> /\ works(c)
          /\ \A d \in Conn : d # c => handler'[d] = handler[d]
      BY <1>8, AnswerDoes, Zenon
    <2> QED
      BY <1>5, <2>1, Zenon DEF works
  <1>9. ASSUME NEW p \in Call, WriteRequest(p) PROVE Asked'
    <2>1. /\ UNCHANGED <<req, handler, conn>> /\ pc'[p] = "read"
          /\ \A d \in Conn : d # conn[p] => c2s'[d] = c2s[d]
          /\ \A m \in Items(c2s'[conn[p]]) : m \in Items(c2s[conn[p]]) \/ m.call = p
      BY <1>9, WriteRequestDoes, Zenon
    <2>2. sent(p)'
      BY <2>1, Zenon DEF sent
    <2> QED
      BY <1>5, <2>1, <2>2, Zenon DEF works
  <1>10. ASSUME NEW p \in Call, ReadAnswer(p) \/ RequestFails(p) PROVE Asked'
    <2>1. UNCHANGED <<req, handler, c2s>>
      BY <1>10, ReadAnswerDoes, RequestFailsDoes, Zenon
    <2> QED
      BY <1>5, <2>1, Zenon DEF works
  <1> QED
    BY <1>6, <1>7, <1>8, <1>9, <1>10, MostAreStill, Zenon

\* A value comes from an operation that was executed.
LEMMA NextRan == ASSUME TInv, CInv, [Next]_vars PROVE Ran'
  <1> USE DEF CInv
  <1>0. handler \in [Conn -> {"none", "read", "got", "error", "execute", "write", "returned"}]
    BY Zenon DEF TypeOK
  <1>1. ran \subseteq ran'
    <2>1. CASE \E c \in Conn : Execute(c)
      BY <2>1, Zenon DEF Execute
    <2>2. CASE ~\E c \in Conn : Execute(c)
      BY <2>2, Zenon DEF Next, ServerStep, Listen, Accept, AcceptFails, HandOver, StarterReturns, CloseListener,
                  ShutdownReturns, Shutdown, ShutdownExpires, shutdownvars, history,
                  ConnStep, ReadRequest, MarkBusy, UnknownOp, WriteAnswer, WriteError, HandlerReturns,
                  CloserStep, CloserChecks, CloserCloses, closervars,
                  CallStep, GetPool, NewPool, StorePool, GetConn, GetFails, WriteRequest, ReadAnswer,
                  RequestFails, PutBack, Close, callvars, dialvars, vars
    <2> QED
      BY <2>1, <2>2, Zenon
  <1>2. \A c \in Conn : handler'[c] = "write" =>
           \/ handler[c] = "write" /\ req'[c] = req[c]
           \/ req'[c].call \in ran'
    <2>1. CASE \E c \in Conn : Execute(c)
      <3>1. PICK c \in Conn : Execute(c)
        BY <2>1, Zenon
      <3>2. req' = req /\ req[c].call \in ran' /\ \A d \in Conn : d # c => handler'[d] = handler[d]
        BY <1>0, <3>1, Zenon DEF Execute
      <3> QED
        BY <3>2, Zenon
    <2>2. CASE ~\E c \in Conn : Execute(c)
      <3>1. CASE ServerStep \/ Shutdown \/ ShutdownExpires
        <4>1. /\ handler' = handler \/ handler' = [handler EXCEPT ![held] = "read"]
              /\ req' = req
          BY <3>1, Zenon DEF ServerStep, Listen, Accept, AcceptFails, HandOver, StarterReturns, CloseListener,
                    ShutdownReturns, Shutdown, ShutdownExpires, shutdownvars
        <4> QED
          BY <1>0, <4>1, Zenon
      <3>2. ASSUME NEW c \in Conn, ConnStep(c)
            PROVE  \A d \in Conn : handler'[d] = "write" => handler[d] = "write" /\ req'[d] = req[d]
        <4>1. \E st \in {"got", "error", "execute", "read", "returned"} : handler' = [handler EXCEPT ![c] = st]
          BY <2>2, <3>2, Zenon DEF ConnStep, ReadRequest, MarkBusy, UnknownOp, WriteAnswer, WriteError, HandlerReturns
        <4>2. handler'[c] # "write" /\ \A d \in Conn : d # c => handler'[d] = handler[d]
          BY <1>0, <4>1, Zenon
        <4>3. req' = req \/ ReadRequest(c)
          BY <2>2, <3>2, Zenon DEF ConnStep, MarkBusy, UnknownOp, WriteAnswer, WriteError, HandlerReturns
        <4>4. \A d \in Conn : d # c => req'[d] = req[d]
          BY <4>3, ReadRequestDoes, Zenon
        <4> QED
          BY <4>2, <4>4, Zenon
      <3>3. CASE (\E c \in Conn : CloserStep(c)) \/ (\E p \in Call : CallStep(p)) \/ Close \/ UNCHANGED vars
        <4>1. UNCHANGED <<handler, req>>
          BY <3>3, Zenon DEF CloserStep, CloserChecks, CloserCloses, closervars,
                      CallStep, GetPool, NewPool, StorePool, GetConn, GetFails, WriteRequest, ReadAnswer,
                      RequestFails, PutBack, Close, callvars, dialvars, servervars, vars
        <4> QED
          BY <4>1, Zenon
      <3> QED
        BY <3>1, <3>2, <3>3, Zenon DEF Next
    <2> QED
      BY <2>1, <2>2, Zenon
  <1>3. \A c \in Conn : handler'[c] = "write" => req'[c].call \in ran'
    BY <1>1, <1>2, Zenon DEF Ran
  <1>4. ASSUME \A c \in Conn : \A m \in Items(s2c'[c]) :
                 m \in Items(s2c[c]) \/ (m.status # "error" => m.call \in ran),
               \A p \in Call : resp'[p] = resp[p] \/ (\E c \in Conn : resp'[p] \in Items(s2c[c]))
        PROVE  Ran'
    <2>1. ASSUME NEW c \in Conn, NEW m \in Items(s2c'[c]), m.status # "error" PROVE m.call \in ran'
      BY <1>1, <1>4, <2>1, Zenon DEF Ran
    <2>2. ASSUME NEW p \in Call, resp'[p] # None, resp'[p].status # "error" PROVE resp'[p].call \in ran'
      BY <1>1, <1>4, <2>2, Zenon DEF Ran
    <2> QED
      BY <1>3, <2>1, <2>2, Zenon DEF Ran
  <1>5. CASE Still
    BY <1>4, <1>5, Zenon DEF Still
  <1>6. ASSUME NEW c \in Conn, ReadRequest(c) PROVE Ran'
    BY <1>4, <1>6, ReadRequestDoes, Zenon
  <1>7. ASSUME NEW c \in Conn, WriteAnswer(c) \/ WriteError(c) PROVE Ran'
    <2>1. /\ \E m \in Answer : /\ m.call = req[c].call /\ (m.status # "error" => handler[c] = "write")
                               /\ Items(s2c'[c]) = Items(s2c[c]) \cup {m}
          /\ resp' = resp /\ \A d \in Conn : d # c => s2c'[d] = s2c[d]
      BY <1>7, AnswerDoes, Zenon
    <2>2. PICK m \in Answer : /\ m.call = req[c].call /\ (m.status # "error" => handler[c] = "write")
                              /\ Items(s2c'[c]) = Items(s2c[c]) \cup {m}
      BY <2>1, Zenon
    <2>3. m.status # "error" => m.call \in ran
      BY <2>2, Zenon DEF Ran
    <2> QED
      BY <1>4, <2>1, <2>2, <2>3, Zenon
  <1>8. ASSUME NEW p \in Call, WriteRequest(p) \/ RequestFails(p) PROVE Ran'
    <2>1. UNCHANGED <<s2c, resp>>
      BY <1>8, WriteRequestDoes, RequestFailsDoes, Zenon
    <2> QED
      BY <1>4, <2>1, Zenon
  <1>9. ASSUME NEW p \in Call, ReadAnswer(p) PROVE Ran'
    <2>1. /\ \E m \in Answer : resp'[p] = m /\ Items(s2c[conn[p]]) = Items(s2c'[conn[p]]) \cup {m}
          /\ conn[p] \in Conn
          /\ \A q \in Call : q # p => resp'[q] = resp[q]
          /\ \A d \in Conn : d # conn[p] => s2c'[d] = s2c[d]
      BY <1>9, ReadAnswerDoes, Zenon
    <2> QED
      BY <1>4, <2>1, Zenon
  <1> QED
    BY <1>5, <1>6, <1>7, <1>8, <1>9, MostAreStill, Zenon

\* At most one call has a connection to read from or to write to.
LEMMA OneReader ==
  ASSUME CInv, NEW p \in Call, NEW q \in Call, pc[p] \in {"write", "read"}, reads(q, conn[p])
  PROVE  q = p
  BY Zenon DEF CInv, Held, Owned, uses, reads

\* One message at a time, on a connection that carried no request that was too big.
LEMMA NextPaired == ASSUME TInv, CInv, [Next]_vars PROVE Paired'
  <1> USE DEF CInv
  <1>1. \A c \in Conn : ~dirty(c)' => single(c)
    BY Onward, Zenon DEF Paired
  <1>2. \A q \in Call, c \in Conn : reads(q, c) /\ pc'[q] = "read" => reads(q, c)'
    BY Onward, NoneFresh, Zenon DEF reads
  <1>3. /\ \A m \in Answer : m.call \in Call
        /\ \A m \in Request : m.call \in Call
    BY Zenon DEF Answer, Request
  <1>4. \A c \in Conn : works(c) => req[c] \in Request /\ req[c].call \in Call
    BY <1>3, Zenon DEF Asked
  <1>5. ASSUME NEW c \in Conn, single(c), c2s'[c] = c2s[c], s2c'[c] = s2c[c],
               works(c)' => works(c) /\ req'[c] = req[c],
               srv'[c] # "closed" => srv[c] # "closed",
               \A q \in Call : reads(q, c) => pc'[q] = "read"
        PROVE  single(c)'
    <2>1. s2c'[c] = <<>> \/ \E m \in Answer : (s2c'[c] = <<m>> /\ reads(m.call, c)')
      BY <1>2, <1>3, <1>5, Zenon DEF single
    <2>2. ASSUME srv'[c] # "closed"
          PROVE  /\ \/ c2s'[c] = <<>>
                    \/ s2c'[c] = <<>> /\ ~works(c)' /\ \E m \in Request : c2s'[c] = <<m>> /\ reads(m.call, c)'
                 /\ works(c)' => c2s'[c] = <<>> /\ s2c'[c] = <<>> /\ reads(req[c].call, c)'
      <3>1. CASE works(c)'
        <4>1. PICK q \in Call : q = req[c].call /\ req'[c] = req[c] /\ works(c)
          BY <1>4, <1>5, <3>1, Zenon
        <4>2. c2s'[c] = <<>> /\ s2c'[c] = <<>> /\ reads(q, c)
          BY <1>5, <2>2, <4>1, Zenon DEF single
        <4>3. reads(q, c)'
          BY <1>2, <1>5, <4>2, Zenon
        <4>4. reads(req[c].call, c)'
          BY <4>1, <4>3, Zenon DEF reads
        <4> QED
          BY <4>2, <4>4, Zenon
      <3>2. CASE ~works(c)'
        <4>1. c2s[c] = <<>> \/ (s2c[c] = <<>> /\ \E m \in Request : c2s[c] = <<m>> /\ reads(m.call, c))
          BY <1>5, <2>2, Zenon DEF single
        <4>2. c2s[c] = <<>> \/ (s2c[c] = <<>> /\ \E m \in Request : c2s[c] = <<m>> /\ reads(m.call, c)')
          BY <1>2, <1>3, <1>5, <4>1, Zenon
        <4> QED
          BY <1>5, <3>2, <4>2, Zenon
      <3> QED
        BY <3>1, <3>2, Zenon
    <2> QED
      BY <2>1, <2>2, Zenon DEF single
  <1>6. CASE Still
    <2>1. ASSUME NEW c \in Conn, ~dirty(c)' PROVE single(c)'
      <3>1. \A q \in Call : reads(q, c) => pc'[q] = "read"
        BY <1>6, Zenon DEF Still, reads
      <3>2. /\ c2s'[c] = c2s[c] /\ s2c'[c] = s2c[c] /\ (works(c)' => works(c) /\ req'[c] = req[c])
            /\ srv'[c] # "closed" => srv[c] # "closed"
        BY <1>6, Zenon DEF Still
      <3> QED
        BY <1>1, <1>5, <2>1, <3>1, <3>2, Zenon
    <2> QED
      BY <2>1, Zenon DEF Paired
  <1>7. ASSUME NEW d \in Conn, ReadRequest(d) PROVE Paired'
    <2>1. /\ \E m \in Request : req'[d] = m /\ m = Head(c2s[d])
          /\ c2s'[d] = Tail(c2s[d]) /\ c2s[d] # <<>> /\ srv[d] = "open"
          /\ \A c \in Conn : c # d => c2s'[c] = c2s[c] /\ req'[c] = req[c] /\ handler'[c] = handler[c]
          /\ UNCHANGED <<s2c, pc, conn, srv>>
      BY <1>7, ReadRequestDoes, Zenon
    <2>2. ASSUME NEW c \in Conn, ~dirty(c)', c # d PROVE single(c)'
      BY <1>1, <1>5, <2>1, <2>2, Zenon DEF works, reads
    <2>3. ASSUME ~dirty(d)' PROVE single(d)'
      <3>1. srv[d] # "closed"
        BY <2>1, Zenon
      <3>2. PICK m \in Request : c2s[d] = <<m>> /\ reads(m.call, d) /\ s2c[d] = <<>>
        BY <1>1, <2>1, <2>3, <3>1, Zenon DEF single
      <3>3. Head(<<m>>) = m /\ Tail(<<m>>) = <<>>
        BY Single, Zenon
      <3>4. c2s'[d] = <<>> /\ s2c'[d] = <<>> /\ req'[d] = m
        BY <2>1, <3>2, <3>3, Zenon
      <3>5. reads(req[d].call, d)'
        BY <2>1, <3>2, <3>4, Zenon DEF reads
      <3> QED
        BY <3>4, <3>5, Zenon DEF single
    <2> QED
      BY <2>2, <2>3, Zenon DEF Paired
  <1>8. ASSUME NEW d \in Conn, WriteAnswer(d) \/ WriteError(d) PROVE Paired'
    <2>1. /\ \E m \in Answer : m.call = req[d].call /\ s2c'[d] = Append(s2c[d], m)
          /\ works(d) /\ srv[d] = "open" /\ handler'[d] = "read"
          /\ \A c \in Conn : c # d => s2c'[c] = s2c[c] /\ handler'[c] = handler[c]
          /\ UNCHANGED <<req, c2s, pc, conn, srv>>
      BY <1>8, AnswerDoes, Zenon
    <2>2. ASSUME NEW c \in Conn, ~dirty(c)', c # d PROVE single(c)'
      BY <1>1, <1>5, <2>1, <2>2, Zenon DEF works, reads
    <2>3. ASSUME ~dirty(d)' PROVE single(d)'
      <3>1. srv[d] # "closed" /\ ~works(d)'
        BY <2>1, Zenon DEF works
      <3>2. c2s[d] = <<>> /\ s2c[d] = <<>> /\ reads(req[d].call, d)
        BY <1>1, <2>1, <2>3, <3>1, Zenon DEF single
      <3>3. PICK m \in Answer : m.call = req[d].call /\ s2c'[d] = Append(<<>>, m)
        BY <2>1, <3>2, Zenon
      <3>4. s2c'[d] = <<m>>
        BY <3>3, Single, Zenon
      <3>5. reads(m.call, d)'
        BY <2>1, <3>2, <3>3, Zenon DEF reads
      <3> QED
        BY <2>1, <3>1, <3>2, <3>4, <3>5, Zenon DEF single
    <2> QED
      BY <2>2, <2>3, Zenon DEF Paired
  <1>9. ASSUME NEW p \in Call, pc[p] \in {"write", "read"}, conn[p] \in Conn,
               \A q \in Call : q # p => pc'[q] = pc[q],
               \A c \in Conn : c # conn[p] => c2s'[c] = c2s[c] /\ s2c'[c] = s2c[c],
               UNCHANGED <<conn, srv, handler, req>>,
               ~dirty(conn[p])' => single(conn[p])'
        PROVE  Paired'
    <2>0. conn'[p] = conn[p]
      BY <1>9, Zenon
    <2>1. ASSUME NEW c \in Conn, ~dirty(c)', c # conn[p] PROVE single(c)'
      BY <1>1, <1>5, <1>9, <2>1, Zenon DEF works, reads
    <2> QED
      BY <1>9, <2>0, <2>1, Zenon DEF Paired
  <1>10. ASSUME NEW p \in Call, pc[p] = "write", conn[p] \in Conn, conn' = conn, ~dirty(conn[p])'
         PROVE  /\ s2c[conn[p]] = <<>>
                /\ srv[conn[p]] # "closed" => c2s[conn[p]] = <<>> /\ ~works(conn[p])
    <2>1. \A q \in Call : ~reads(q, conn[p])
      BY <1>10, OneReader, Zenon DEF reads
    <2>2. conn'[p] = conn[p]
      BY <1>10, Zenon
    <2>3. single(conn[p])
      BY <1>1, <1>10, <2>2, Zenon
    <2> QED
      BY <1>3, <1>4, <1>10, <2>1, <2>3, Zenon DEF single
  <1>11. ASSUME NEW p \in Call, WriteRequest(p) PROVE Paired'
    <2>1. /\ pc[p] = "write" /\ pc'[p] = "read" /\ conn[p] \in Conn
          /\ p \notin setup.big /\ srv[conn[p]] # "closed" /\ c2s[conn[p]] = <<>>
               => \E m \in Request : m.call = p /\ c2s'[conn[p]] = <<m>>
          /\ UNCHANGED <<setup, s2c, conn, srv, handler, req>>
          /\ \A q \in Call : q # p => pc'[q] = pc[q]
          /\ \A c \in Conn : c # conn[p] => c2s'[c] = c2s[c]
      BY <1>11, WriteRequestDoes, Zenon
    <2>2. ASSUME ~dirty(conn[p])' PROVE single(conn[p])'
      <3>1. /\ s2c'[conn[p]] = <<>>
            /\ srv[conn[p]] # "closed" => c2s[conn[p]] = <<>> /\ ~works(conn[p])
        BY <1>10, <2>1, <2>2, Zenon
      <3>2. p \notin setup.big
        BY <2>1, <2>2, Zenon DEF dirty
      <3>3. reads(p, conn[p])'
        BY <2>1, Zenon DEF reads
      <3>4. ASSUME srv'[conn[p]] # "closed"
            PROVE  ~works(conn[p])' /\ \E m \in Request : c2s'[conn[p]] = <<m>> /\ reads(m.call, conn[p])'
        <4>1. ~works(conn[p])'
          BY <2>1, <3>1, <3>4, Zenon DEF works
        <4>2. PICK m \in Request : m.call = p /\ c2s'[conn[p]] = <<m>>
          BY <2>1, <3>1, <3>2, <3>4, Zenon
        <4> QED
          BY <3>3, <4>1, <4>2, Zenon
      <3>5. conn'[p] = conn[p]
        BY <2>1, Zenon
      <3> QED
        BY <3>1, <3>4, <3>5, Zenon DEF single
    <2> QED
      BY <1>9, <2>1, <2>2, Zenon
  <1>12. ASSUME NEW p \in Call, ReadAnswer(p) PROVE Paired'
    <2>1. /\ pc[p] = "read" /\ conn[p] \in Conn
          /\ s2c[conn[p]] # <<>> /\ s2c'[conn[p]] = Tail(s2c[conn[p]])
          /\ UNCHANGED <<c2s, conn, srv, handler, req>>
          /\ \A q \in Call : q # p => pc'[q] = pc[q]
          /\ \A c \in Conn : c # conn[p] => s2c'[c] = s2c[c]
      BY <1>12, ReadAnswerDoes, Zenon
    <2>2. ASSUME ~dirty(conn[p])' PROVE single(conn[p])'
      <3>1. PICK m \in Answer : s2c[conn[p]] = <<m>>
        BY <1>1, <2>1, <2>2, Zenon DEF single
      <3>2. s2c'[conn[p]] = <<>>
        BY <2>1, <3>1, Single, Zenon
      <3>3. srv[conn[p]] # "closed" => c2s[conn[p]] = <<>> /\ ~works(conn[p])
        BY <1>1, <2>1, <2>2, Zenon DEF single
      <3> QED
        BY <2>1, <3>2, <3>3, Zenon DEF single, works
    <2> QED
      BY <1>9, <2>1, <2>2, Zenon
  <1>13. ASSUME NEW p \in Call, RequestFails(p) PROVE Paired'
    <2>1. /\ pc[p] \in {"write", "read"} /\ conn[p] \in Conn
          /\ srv[conn[p]] = "closed" /\ (pc[p] = "read" => s2c[conn[p]] = <<>>)
          /\ UNCHANGED <<s2c, c2s, conn, srv, handler, req>>
          /\ \A q \in Call : q # p => pc'[q] = pc[q]
      BY <1>13, RequestFailsDoes, Zenon
    <2>2. ASSUME ~dirty(conn[p])' PROVE single(conn[p])'
      <3>1. s2c[conn[p]] = <<>>
        BY <1>10, <2>1, <2>2, Zenon
      <3> QED
        BY <2>1, <3>1, Zenon DEF single
    <2> QED
      BY <1>9, <2>1, <2>2, Zenon
  <1> QED
    BY <1>6, <1>7, <1>8, <1>11, <1>12, <1>13, MostAreStill, Zenon

\* A call on such a connection reads its own answer.
LEMMA NextOwn == ASSUME TInv, CInv, [Next]_vars PROVE Own'
  <1> USE DEF CInv
  <1>1. setup' = setup /\ \A q \in setup.big : q \in Call
    BY Onward, SetupType, Zenon DEF TypeOK
  <1>2. \A q \in Call : conn[q] # None => conn'[q] = conn[q]
    BY Onward, Zenon
  <1>3. ASSUME NEW p \in Call, conn[p] # None, clean(p)' PROVE clean(p)
    BY <1>1, <1>2, <1>3, Zenon DEF clean
  <1>4. ASSUME NEW p \in Call, resp'[p] = resp[p], clean(p)', resp'[p] # None PROVE resp'[p].call = p
    <2>1. clean(p)
      BY <1>3, <1>4, Zenon DEF Held, Past
    <2> QED
      BY <1>4, <2>1, Zenon DEF Own
  <1>5. ASSUME NEW p \in Call, ReadAnswer(p), clean(p)' PROVE resp'[p].call = p
    <2>1. /\ resp'[p] = Head(s2c[conn[p]]) /\ s2c[conn[p]] # <<>>
          /\ pc[p] = "read" /\ conn[p] \in Conn
      BY <1>5, ReadAnswerDoes, Zenon
    <2>2. ~dirty(conn[p])
      <3>1. clean(p)
        BY <1>3, <1>5, <2>1, NoneFresh, Zenon
      <3> QED
        BY <3>1, Zenon DEF clean, dirty
    <2>3. PICK m \in Answer : s2c[conn[p]] = <<m>> /\ reads(m.call, conn[p])
      BY <2>1, <2>2, Zenon DEF Paired, single
    <2>4. m.call \in Call
      BY Zenon DEF Answer
    <2>5. m.call = p
      BY <2>1, <2>3, <2>4, OneReader, Zenon
    <2>6. resp'[p] = m
      BY <2>1, <2>3, Single, Zenon
    <2> QED
      BY <2>5, <2>6, Zenon
  <1>6. CASE Still
    <2>1. resp' = resp
      BY <1>6, Zenon DEF Still
    <2> QED
      BY <1>4, <2>1, Zenon DEF Own
  <1>7. ASSUME NEW c \in Conn, ReadRequest(c) \/ WriteAnswer(c) \/ WriteError(c) PROVE Own'
    <2>1. resp' = resp
      BY <1>7, ReadRequestDoes, AnswerDoes, Zenon
    <2> QED
      BY <1>4, <2>1, Zenon DEF Own
  <1>8. ASSUME NEW p \in Call, WriteRequest(p) \/ RequestFails(p) PROVE Own'
    <2>1. resp' = resp
      BY <1>8, WriteRequestDoes, RequestFailsDoes, Zenon
    <2> QED
      BY <1>4, <2>1, Zenon DEF Own
  <1>9. ASSUME NEW p \in Call, ReadAnswer(p) PROVE Own'
    <2>1. \A q \in Call : q # p => resp'[q] = resp[q]
      BY <1>9, ReadAnswerDoes, Zenon
    <2> QED
      BY <1>4, <1>5, <1>9, <2>1, Zenon DEF Own
  <1> QED
    BY <1>6, <1>7, <1>8, <1>9, MostAreStill, Zenon

\* A busy connection is not closed before its answer is written.
LEMMA BusyStays ==
  ASSUME TInv, CInv, [Next]_vars, NEW c \in Conn, ~WriteAnswer(c),
         c \in busy, known(req[c].call), closer[c] = "select", srv[c] = "open"
  PROVE  c \in busy' /\ closer'[c] = "select" /\ srv'[c] = "open" /\ req'[c] = req[c]
  <1> USE DEF CInv
  <1>0. /\ srv \in [Conn -> {"new", "backlog", "open", "closed"}]
        /\ closer \in [Conn -> {"none", "select", "close", "returned"}]
        /\ handler[c] \in {"execute", "write"} /\ backlog \in Seq(Conn)
    BY Zenon DEF TypeOK, Served, TInv, CTypeOK
  <1>1. CASE ServerStep \/ Shutdown \/ ShutdownExpires
    <2>1. /\ UNCHANGED <<busy, req>>
          /\ closer' = closer \/ closer' = [closer EXCEPT ![held] = "select"]
      BY <1>1, Zenon DEF ServerStep, Listen, Accept, AcceptFails, HandOver, StarterReturns, CloseListener,
                  ShutdownReturns, Shutdown, ShutdownExpires, shutdownvars
    <2>2. closer'[c] = "select"
      BY <1>0, <2>1, Zenon
    <2>3. srv'[c] = "open"
      <3>1. CASE Accept
        <4>1. srv' = [srv EXCEPT ![Head(backlog)] = "open"]
          BY <3>1, Zenon DEF Accept
        <4> QED
          BY <1>0, <4>1, Zenon
      <3>2. CASE CloseListener
        BY <3>2, Zenon DEF CloseListener
      <3>3. CASE ~Accept /\ ~CloseListener
        BY <1>1, <3>3, Zenon DEF ServerStep, Listen, AcceptFails, HandOver, StarterReturns,
                  ShutdownReturns, Shutdown, ShutdownExpires, netvars
      <3> QED
        BY <3>1, <3>2, <3>3, Zenon
    <2> QED
      BY <2>1, <2>2, <2>3, Zenon
  <1>2. ASSUME NEW d \in Conn, ConnStep(d) PROVE c \in busy' /\ closer'[c] = "select" /\ srv'[c] = "open" /\ req'[c] = req[c]
    <2>1. UNCHANGED <<closer, srv>>
      BY <1>2, Zenon DEF ConnStep, ReadRequest, MarkBusy, UnknownOp, Execute, WriteAnswer, WriteError, HandlerReturns, handlervars
    <2>2. c \in busy'
      <3>1. CASE WriteAnswer(d) \/ HandlerReturns(d)
        <4>1. d # c
          BY <1>0, <3>1, Zenon DEF HandlerReturns
        <4>2. busy' = busy \ {d}
          BY <3>1, Zenon DEF WriteAnswer, HandlerReturns
        <4> QED
          BY <4>1, <4>2, Zenon
      <3>3. CASE UnknownOp(d)
        <4>1. d # c /\ busy' = busy \ {d}
          BY <3>3, Zenon DEF UnknownOp
        <4> QED
          BY <4>1, Zenon
      <3>2. CASE ReadRequest(d) \/ MarkBusy(d) \/ Execute(d) \/ WriteError(d)
        BY <3>2, Zenon DEF ReadRequest, MarkBusy, Execute, WriteError
      <3> QED
        BY <1>2, <3>1, <3>2, <3>3, Zenon DEF ConnStep
    <2>3. req'[c] = req[c]
      <3>1. CASE ReadRequest(d)
        <4>1. handler[d] = "read" /\ \A e \in Conn : e # d => req'[e] = req[e]
          BY <3>1, ReadRequestDoes, Zenon
        <4>2. d # c
          BY <1>0, <4>1, Zenon
        <4> QED
          BY <4>1, <4>2, Zenon
      <3>2. CASE ~ReadRequest(d)
        BY <1>2, <3>2, Zenon DEF ConnStep, MarkBusy, UnknownOp, Execute, WriteAnswer, WriteError, HandlerReturns
      <3> QED
        BY <3>1, <3>2, Zenon
    <2> QED
      BY <2>1, <2>2, <2>3, Zenon
  <1>3. ASSUME NEW d \in Conn, CloserStep(d) PROVE c \in busy' /\ closer'[c] = "select" /\ srv'[c] = "open" /\ req'[c] = req[c]
    <2>1. UNCHANGED <<busy, req>>
      BY <1>3, Zenon DEF CloserStep, CloserChecks, CloserCloses, closervars
    <2>2. d # c
      BY <1>3, Zenon DEF CloserStep, CloserChecks, CloserCloses
    <2>3. closer'[c] = closer[c] /\ srv'[c] = srv[c]
      BY <1>0, <1>3, <2>2, Zenon DEF CloserStep, CloserChecks, CloserCloses
    <2> QED
      BY <2>1, <2>3, Zenon
  <1>4. ASSUME NEW p \in Call, CallStep(p) PROVE c \in busy' /\ closer'[c] = "select" /\ srv'[c] = "open" /\ req'[c] = req[c]
    <2>1. UNCHANGED <<busy, req, closer>>
      BY <1>4, Zenon DEF CallStep, GetPool, NewPool, StorePool, GetConn, GetFails, WriteRequest, ReadAnswer,
                  RequestFails, PutBack, callvars, dialvars, servervars
    <2>2. srv' = srv \/ Dial(fresh)
      BY <1>4, Zenon DEF CallStep, GetPool, NewPool, StorePool, GetConn, GetFails, WriteRequest, ReadAnswer,
                  RequestFails, PutBack, netvars
    <2>3. ASSUME Dial(fresh) PROVE srv'[c] = "open"
      <3>1. PICK f \in Conn : cli[f] = "new" /\ srv' = [srv EXCEPT ![f] = "backlog"]
        BY <2>3, Dialled, Zenon
      <3>2. f # c
        BY <3>1, Zenon DEF Unborn
      <3> QED
        BY <1>0, <3>1, <3>2, Zenon
    <2> QED
      BY <2>1, <2>2, <2>3, Zenon
  <1>5. CASE Close \/ UNCHANGED vars
    BY <1>5, Zenon DEF Close, callvars, servervars, vars, netvars
  <1> QED
    BY <1>1, <1>2, <1>3, <1>4, <1>5, Zenon DEF Next

\* A call fails only where the server has closed the connection, and what was executing
\* when Shutdown was called has its answer, or will find it.
LEMMA NextAnswered == ASSUME TInv, CInv, [Next]_vars PROVE Answered'
  <1> USE DEF CInv
  <1>0. /\ conn \in [Call -> Conn \cup {None}] /\ graced \subseteq Call
    BY Zenon DEF TypeOK
  <1> DEFINE failed(p) == pc[p] \in {"put", "done"} /\ conn[p] # None /\ srv[conn[p]] # "closed"
  <1>1. ASSUME NEW p \in Call, failed(p)' PROVE resp'[p] # None
    <2>1. ASSUME failed(p), resp'[p] = resp[p] PROVE resp'[p] # None
      BY <2>1, Zenon DEF Answered
    <2>2. CASE Still
      <3>1. pc[p] \in {"put", "done"} /\ conn'[p] = conn[p] /\ conn[p] # None /\ resp'[p] = resp[p]
        BY <1>1, <2>2, Zenon DEF Still
      <3>2. conn[p] \in Conn
        BY <1>0, <3>1, Zenon
      <3>3. srv[conn[p]] # "closed"
        BY <1>1, <2>2, <3>1, <3>2, Zenon DEF Still
      <3> QED
        BY <2>1, <3>1, <3>3, Zenon
    <2>3. ASSUME NEW c \in Conn, ReadRequest(c) \/ WriteAnswer(c) \/ WriteError(c) PROVE resp'[p] # None
      <3>1. UNCHANGED <<pc, conn, srv, resp>>
        BY <2>3, ReadRequestDoes, AnswerDoes, Zenon
      <3> QED
        BY <1>1, <2>1, <3>1, Zenon
    <2>4. ASSUME NEW q \in Call, WriteRequest(q) PROVE resp'[p] # None
      <3>1. UNCHANGED <<conn, srv, resp>> /\ pc'[q] = "read" /\ \A r \in Call : r # q => pc'[r] = pc[r]
        BY <2>4, WriteRequestDoes, Zenon
      <3>2. p # q
        BY <1>1, <3>1, Zenon
      <3> QED
        BY <1>1, <2>1, <3>1, <3>2, Zenon
    <2>5. ASSUME NEW q \in Call, ReadAnswer(q) PROVE resp'[p] # None
      <3>1. UNCHANGED <<conn, srv>> /\ resp'[q] # None /\ \A r \in Call : r # q => pc'[r] = pc[r] /\ resp'[r] = resp[r]
        BY <2>5, ReadAnswerDoes, Zenon
      <3> QED
        BY <1>1, <2>1, <3>1, Zenon
    <2>6. ASSUME NEW q \in Call, RequestFails(q) PROVE resp'[p] # None
      <3>1. UNCHANGED <<conn, srv, resp>> /\ srv[conn[q]] = "closed" /\ \A r \in Call : r # q => pc'[r] = pc[r]
        BY <2>6, RequestFailsDoes, Zenon
      <3>2. p # q
        BY <1>1, <3>1, Zenon
      <3> QED
        BY <1>1, <2>1, <3>1, <3>2, Zenon
    <2> QED
      BY <2>2, <2>3, <2>4, <2>5, <2>6, MostAreStill, Zenon
  <1>2. ASSUME NEW p \in Call, resp[p] # None PROVE resp'[p] # None
    <2>1. resp' = resp \/ \E q \in Call : ReadAnswer(q)
      BY MostAreStill, ReadRequestDoes, AnswerDoes, WriteRequestDoes, RequestFailsDoes, Zenon DEF Still
    <2> QED
      BY <1>2, <2>1, ReadAnswerDoes, Zenon
  <1>3. ASSUME NEW p \in Call, known(p), Awaits(p), ~ReadAnswer(p) PROVE Awaits(p)'
    <2>1. PICK c \in Conn : conn[p] = c /\ conn'[p] = c /\ pc[p] = "read"
      <3>1. pc[p] = "read" /\ conn[p] \in Conn
        BY <1>3, Zenon DEF Awaits, Held, Owned, uses
      <3> QED
        BY <3>1, Onward, NoneFresh, Zenon
    <2>2. \A q \in Call : pc[q] \in {"write", "read"} /\ conn[q] = c => q = p
      BY <2>1, OneReader, Zenon DEF reads
    <2>3. pc'[p] = "read"
      <3>1. ASSUME NEW q \in Call, WriteRequest(q) \/ ReadAnswer(q) PROVE pc'[p] = "read"
        <4>1. \A r \in Call : r # q => pc'[r] = pc[r]
          BY <3>1, WriteRequestDoes, ReadAnswerDoes, Zenon
        <4>2. WriteRequest(q) => pc'[q] = "read"
          BY WriteRequestDoes, Zenon
        <4> QED
          BY <1>3, <2>1, <3>1, <4>1, <4>2, Zenon
      <3>2. ASSUME NEW q \in Call, RequestFails(q) PROVE pc'[p] = "read"
        <4>1. /\ srv[conn[q]] = "closed" /\ (pc[q] = "read" => s2c[conn[q]] = <<>>)
              /\ \A r \in Call : r # q => pc'[r] = pc[r]
          BY <3>2, RequestFailsDoes, Zenon
        <4>2. q # p
          BY <1>3, <4>1, Zenon DEF Awaits
        <4> QED
          BY <2>1, <4>1, <4>2, Zenon
      <3> QED
        BY <2>1, <3>1, <3>2, MostAreStill, ReadRequestDoes, AnswerDoes, Zenon DEF Still
    <2>4. ASSUME s2c[c] # <<>> PROVE s2c'[c] # <<>>
      <3>1. ASSUME NEW d \in Conn, WriteAnswer(d) \/ WriteError(d) PROVE s2c'[c] # <<>>
        <4>1. s2c'[d] # <<>> /\ \A e \in Conn : e # d => s2c'[e] = s2c[e]
          BY <3>1, AnswerDoes, Zenon
        <4> QED
          BY <2>4, <4>1, Zenon
      <3>2. ASSUME NEW q \in Call, ReadAnswer(q) PROVE s2c'[c] # <<>>
        <4>1. pc[q] = "read" /\ \A e \in Conn : e # conn[q] => s2c'[e] = s2c[e]
          BY <3>2, ReadAnswerDoes, Zenon
        <4>2. conn[q] # c
          BY <1>3, <2>2, <3>2, <4>1, Zenon
        <4> QED
          BY <2>4, <4>1, <4>2, Zenon
      <3>3. ASSUME s2c' = s2c PROVE s2c'[c] # <<>>
        BY <2>4, <3>3, Zenon
      <3> QED
        BY <3>1, <3>2, <3>3, MostAreStill, ReadRequestDoes, WriteRequestDoes, RequestFailsDoes, Zenon DEF Still
    <2>5. CASE s2c[c] # <<>>
      BY <2>1, <2>3, <2>4, <2>5, Zenon DEF Awaits
    <2>6. CASE WriteAnswer(c)
      <3>1. s2c'[c] # <<>>
        BY <2>6, AnswerDoes, Zenon
      <3> QED
        BY <2>1, <2>3, <3>1, Zenon DEF Awaits
    <2>7. CASE s2c[c] = <<>> /\ ~WriteAnswer(c)
      <3>1. c \in busy /\ req[c].call = p /\ closer[c] = "select" /\ srv[c] = "open"
        BY <1>3, <2>1, <2>7, Zenon DEF Awaits
      <3>2. c \in busy' /\ closer'[c] = "select" /\ srv'[c] = "open" /\ req'[c] = req[c]
        BY <1>3, <2>7, <3>1, BusyStays, Zenon
      <3> QED
        BY <2>1, <2>3, <3>1, <3>2, Zenon DEF Awaits
    <2> QED
      BY <2>5, <2>6, <2>7, Zenon
  <1>4. ASSUME NEW p \in graced, known(p) PROVE resp'[p] # None \/ Awaits(p)'
    <2>1. p \in Call /\ (resp[p] # None \/ Awaits(p))
      BY <1>0, <1>4, Zenon DEF Answered
    <2>2. CASE ReadAnswer(p)
      BY <2>1, <2>2, ReadAnswerDoes, Zenon
    <2> QED
      BY <1>2, <1>3, <1>4, <2>1, <2>2, Zenon
  <1>a. \A p \in Call : known(p)' <=> known(p)
    BY Onward, Zenon DEF known
  <1>5. CASE Shutdown
    <2>1. /\ graced' = {req[c].call : c \in busy} /\ shutdown = "no"
          /\ UNCHANGED <<resp, pc, conn, s2c, busy, req, closer, srv>>
      BY <1>5, Zenon DEF Shutdown, shutdownvars, clientvars
    <2>2. ASSUME NEW c \in busy, NEW p, p = req[c].call PROVE resp'[p] # None \/ Awaits(p)'
      <3>1. c \in Conn /\ handler[c] \in {"execute", "write"}
        BY Zenon DEF TypeOK, Served
      <3>2. works(c) /\ handler[c] \notin {"none", "returned"}
        BY <3>1, Zenon DEF works
      <3>3. closer[c] = "select" /\ srv[c] = "open"
        BY <2>1, <3>1, <3>2, Zenon DEF Begun, Served
      <3>4. p \in Call /\ conn[p] = c /\ sent(p)
        BY <2>2, <3>1, <3>2, Zenon DEF Asked, Request
      <3>5. CASE pc[p] = "read"
        BY <2>1, <2>2, <3>3, <3>4, <3>5, Zenon DEF Awaits
      <3>6. CASE pc[p] # "read"
        <4>1. pc[p] \in {"put", "done"} /\ conn[p] # None /\ srv[conn[p]] # "closed"
          BY <3>1, <3>3, <3>4, <3>6, NoneFresh, Zenon DEF sent
        <4> QED
          BY <2>1, <3>4, <4>1, Zenon DEF Answered
      <3> QED
        BY <3>5, <3>6, Zenon
    <2>3. \A p \in graced' : resp'[p] # None \/ Awaits(p)'
      BY <2>1, <2>2, Zenon
    <2> QED
      BY <1>1, <2>3, Zenon DEF Answered
  <1>6. CASE ~Shutdown
    <2>1. graced' = graced
      BY <1>6, Zenon DEF Next, ServerStep, Listen, Accept, AcceptFails, HandOver, StarterReturns, CloseListener,
                  ShutdownReturns, ShutdownExpires, history,
                  ConnStep, ReadRequest, MarkBusy, UnknownOp, Execute, WriteAnswer, WriteError, HandlerReturns,
                  CloserStep, CloserChecks, CloserCloses, closervars,
                  CallStep, GetPool, NewPool, StorePool, GetConn, GetFails, WriteRequest, ReadAnswer,
                  RequestFails, PutBack, Close, callvars, dialvars, vars
    <2> QED
      BY <1>0, <1>1, <1>4, <1>a, <2>1, Zenon DEF Answered
  <1> QED
    BY <1>5, <1>6, Zenon

\* Every step keeps the invariant.
LEMMA NextCInv == TInv /\ CInv /\ [Next]_vars => CInv'
  <1> SUFFICES ASSUME TInv, CInv, [Next]_vars PROVE CInv'
    OBVIOUS
  <1>1. TypeOK'
    <2>1. UNCHANGED vars => TypeOK'
      BY DEF vars, servervars, clientvars, netvars, history, CInv, TypeOK
    <2> QED
      BY <2>1, ServerTypeOK, ConnTypeOK, CallTypeOK, Zenon DEF Next
  <1> QED
    BY <1>1, NextHeld, NextServed, NextUnborn, NextBegun, NextAsked, NextAnswered, NextRan, NextPaired, NextOwn,
       Zenon DEF CInv
=============================================================================
