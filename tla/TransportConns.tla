--------------------------- MODULE TransportConns ---------------------------
(***************************************************************************)
(* The invariants of the transport, for any number of connections, calls   *)
(* and settings, and the part of them that is about connections.           *)
(*                                                                         *)
(* TInv is about the goroutines of the server (see TransportProofs), CInv  *)
(* about the calls.  CInv rests on the ownership of connections (Owned): an *)
(* open one is in one pool, at one place, or with one call.  So a message  *)
(* on the way that belongs to a call that still reads belongs to the one   *)
(* call that may read it (Asked, Answered), and on a connection that has   *)
(* carried no request that was too big there is one message at most        *)
(* (Paired).  This module shows that every step keeps the types (TypeOK),  *)
(* the ownership (Held), and what the server knows of a connection (Served, *)
(* Unborn, Begun).                                                         *)
(***************************************************************************)
EXTENDS Transport, TLAPS

(* The goroutines of the server. *)

Handlers == {c \in Conn : handler[c] \notin {"none", "returned"}}
Closers == {c \in Conn : closer[c] \notin {"none", "returned"}}
Starters == IF starter = "run" THEN 1 ELSE 0

\* The variables of the server, as far as the count depends on them.
CTypeOK == /\ wg \in Int
           /\ DOMAIN handler = Conn
           /\ DOMAIN closer = Conn
           /\ DOMAIN cli = Conn
           /\ backlog \in Seq(Conn)
           /\ acceptor = "send" => held \in Conn

\* s.wg counts the goroutines of the server.
WgExact == wg = Starters + Cardinality(Handlers) + Cardinality(Closers)

\* A connection that has not been handed over has no goroutines yet, and is
\* in one place.
Fresh ==
  /\ \A c \in Conn : cli[c] = "new" => handler[c] = "none" /\ closer[c] = "none"
  /\ acceptor = "send" => /\ handler[held] = "none" /\ closer[held] = "none"
                          /\ cli[held] # "new"
                          /\ \A i \in 1..Len(backlog) : backlog[i] # held
  /\ \A i \in 1..Len(backlog) : /\ handler[backlog[i]] = "none" /\ closer[backlog[i]] = "none"
                                 /\ cli[backlog[i]] # "new"
  /\ \A i, j \in 1..Len(backlog) : backlog[i] = backlog[j] => i = j

\* Shutdown is called when the server has started, and returns when s.wg is 0.
Stopped == /\ starter = "new" <=> acceptor = "new"
           /\ starter \in {"new", "run", "returned"}
           /\ listening => acceptor # "new"
           /\ shutdown # "no" => starter # "new"
           /\ shutdown = "returned" => wg = 0

TInv == CTypeOK /\ WgExact /\ Fresh /\ Stopped

-----------------------------------------------------------------------------
(* The calls and the connections. *)

Items(s) == {s[i] : i \in 1..Len(s)}
Once(s)  == \A i, j \in 1..Len(s) : s[i] = s[j] => i = j

\* The types of what the calls and the handlers use.
TypeOK ==
  /\ setup \in Setup
  /\ cli \in [Conn -> {"new", "open", "closed"}]
  /\ srv \in [Conn -> {"new", "backlog", "open", "closed"}]
  /\ c2s \in [Conn -> Seq(Request)]
  /\ s2c \in [Conn -> Seq(Answer)]
  /\ handler \in [Conn -> {"none", "read", "got", "error", "execute", "write", "returned"}]
  /\ closer \in [Conn -> {"none", "select", "close", "returned"}]
  /\ req \in [Conn -> Request \cup {None}]
  /\ busy \subseteq Conn
  /\ pools \in Call \cup {None}
  /\ idle \in [Call -> Seq(Conn)]
  /\ poolOpen \subseteq Call
  /\ pc \in [Call -> {"start", "make", "store", "get", "write", "read", "put", "done"}]
  /\ cpool \in [Call -> Call \cup {None}]
  /\ conn \in [Call -> Conn \cup {None}]
  /\ resp \in [Call -> Answer \cup {None}]
  /\ graced \subseteq Call

uses(p)   == pc[p] \in {"write", "read", "put"}
sent(p)   == pc[p] \in {"read", "put", "done"}
works(c)  == handler[c] \in {"got", "error", "execute", "write"}
pooled(q) == Items(idle[q])

\* The pool of a call is the one in the map, but for a pool that is being made.
Pooled ==
  /\ \A p \in Call : pc[p] = "get" \/ uses(p) => cpool[p] = pools /\ pools \in Call
  /\ \A p \in Call : pc[p] \in {"make", "store"} => pools # p
  /\ \A q \in Call : idle[q] = <<>> \/ pools = q \/ (pc[q] = "store" /\ \E c \in Conn : idle[q] = <<c>>)

\* A connection in use, or in a pool, is open and is there alone.
Owned ==
  /\ \A p \in Call : uses(p) => conn[p] \in Conn /\ cli[conn[p]] = "open"
  /\ \A p, r \in Call : uses(p) /\ uses(r) /\ conn[p] = conn[r] => p = r
  /\ \A p, q \in Call : uses(p) => conn[p] \notin pooled(q)
  /\ \A q \in Call : Once(idle[q]) /\ \A c \in pooled(q) : cli[c] = "open"
  /\ \A q, r \in Call : q # r => \A c \in pooled(q) : c \notin pooled(r)

\* A call gets its connection once.
Past ==
  /\ \A p \in Call : conn[p] # None => (uses(p) \/ pc[p] = "done") /\ cli[conn[p]] # "new"
  /\ \A p \in Call : resp[p] # None => pc[p] \in {"put", "done"} /\ conn[p] # None

\* NoConnLost, with the pool as a set.
NoneLost == \A c \in Conn : cli[c] = "open" =>
              \E p \in Call : \/ pools = p /\ c \in pooled(p)
                              \/ pc[p] = "store" /\ idle[p] = <<c>>
                              \/ uses(p) /\ conn[p] = c

\* As long as the server is not shut down it serves every connection it has.
Served ==
  /\ \A c \in Conn : c \in busy <=> handler[c] \in {"execute", "write"}
  /\ ~cancelled => \A c \in Conn : handler[c] \notin {"none", "returned"}
                                     => closer[c] = "select" /\ srv[c] = "open"
  /\ acceptor = "send" => srv[held] = "open"
  /\ \A i \in 1..Len(backlog) : srv[backlog[i]] = "backlog"

\* A connection is dialled at both ends.
Unborn == \A c \in Conn : cli[c] = "new" => srv[c] = "new"

\* A request is that of a call that has written it to this connection.
Asked ==
  \A c \in Conn :
    /\ \A m \in Items(c2s[c]) : conn[m.call] = c /\ sent(m.call)
    /\ works(c) => req[c] \in Request /\ conn[req[c].call] = c /\ sent(req[c].call)

\* A call fails only on a closed connection; one that was executing has its answer, or it
\* is on its way and nothing closes the connection before.
Awaits(p) ==
  /\ pc[p] = "read"
  /\ \/ s2c[conn[p]] # <<>>
     \/ /\ conn[p] \in busy /\ req[conn[p]].call = p
        /\ closer[conn[p]] = "select" /\ srv[conn[p]] = "open"

Answered ==
  /\ \A p \in Call : pc[p] \in {"put", "done"} /\ conn[p] # None /\ srv[conn[p]] # "closed" => resp[p] # None
  /\ \A p \in graced : known(p) => resp[p] # None \/ Awaits(p)

\* What answers with a value was executed.
Ran ==
  /\ \A c \in Conn : handler[c] = "write" => req[c].call \in ran
  /\ \A c \in Conn : \A m \in Items(s2c[c]) : m.status # "error" => m.call \in ran
  /\ \A p \in Call : resp[p] # None /\ resp[p].status # "error" => resp[p].call \in ran

\* On a connection that has carried no request that was too big there is one message, at
\* one of three places, and its call reads.
dirty(c)   == \E q \in setup.big : conn[q] = c
reads(p, c) == pc[p] = "read" /\ conn[p] = c

single(c) ==
  /\ s2c[c] = <<>> \/ \E m \in Answer : (s2c[c] = <<m>> /\ reads(m.call, c))
  /\ srv[c] # "closed" =>
       /\ \/ c2s[c] = <<>>
          \/ s2c[c] = <<>> /\ ~works(c) /\ \E m \in Request : c2s[c] = <<m>> /\ reads(m.call, c)
       /\ works(c) => c2s[c] = <<>> /\ s2c[c] = <<>> /\ reads(req[c].call, c)

Paired == \A c \in Conn : ~dirty(c) => single(c)

Own == \A p \in Call : clean(p) /\ resp[p] # None => resp[p].call = p

\* The context of the server is cancelled by Shutdown.
Begun == shutdown = "no" => ~cancelled

Held == Pooled /\ Owned /\ Past /\ NoneLost
CInv == TypeOK /\ Held /\ Served /\ Unborn /\ Begun /\ Asked /\ Answered /\ Ran /\ Paired /\ Own

-----------------------------------------------------------------------------
(* Sequences as the sets of their elements. *)

\* A sequence of one element.
LEMMA Single ==
  ASSUME NEW S, NEW e \in S
  PROVE  /\ <<e>> # <<>> /\ Head(<<e>>) = e /\ Tail(<<e>>) = <<>> /\ Append(<<>>, e) = <<e>>
         /\ Items(<<>>) = {} /\ Items(<<e>>) = {e} /\ Once(<<>>) /\ Once(<<e>>)
  <1>1. <<e>> # <<>> /\ Head(<<e>>) = e /\ Tail(<<e>>) = <<>> /\ Append(<<>>, e) = <<e>>
    OBVIOUS
  <1>2. Items(<<>>) = {} /\ Once(<<>>)
    BY DEF Items, Once
  <1>3. Items(<<e>>) = {e} /\ Once(<<e>>)
    BY DEF Items, Once
  <1> QED
    BY <1>1, <1>2, <1>3, Zenon

\* Append adds an element.
LEMMA ItemsAppend ==
  ASSUME NEW S, NEW s \in Seq(S), NEW e \in S
  PROVE  /\ Append(s, e) \in Seq(S) /\ Append(s, e) # <<>>
         /\ Items(Append(s, e)) = Items(s) \cup {e}
         /\ Once(s) /\ e \notin Items(s) => Once(Append(s, e))
  <1>1. /\ Len(Append(s, e)) = Len(s) + 1 /\ Len(s) \in Nat
        /\ Append(s, e)[Len(s) + 1] = e
        /\ \A i \in 1..Len(s) : Append(s, e)[i] = s[i]
    OBVIOUS
  <1>2. \A i : i \in 1..Len(Append(s, e)) <=> (i \in 1..Len(s) \/ i = Len(s) + 1)
    BY <1>1
  <1>3. Items(Append(s, e)) = Items(s) \cup {e}
    BY <1>1, <1>2, Zenon DEF Items
  <1>4. Once(s) /\ e \notin Items(s) => Once(Append(s, e))
    BY <1>1, <1>2, Zenon DEF Items, Once
  <1>5. Append(s, e) \in Seq(S)
    OBVIOUS
  <1>6. Append(s, e) # <<>>
    <2>1. Len(Append(s, e)) # Len(<<>>)
      BY <1>1
    <2> QED
      BY <2>1, Zenon
  <1> QED
    BY <1>3, <1>4, <1>5, <1>6, Zenon

\* Head takes an element away.
LEMMA ItemsTail ==
  ASSUME NEW S, NEW s \in Seq(S), s # <<>>
  PROVE  /\ Tail(s) \in Seq(S) /\ Head(s) \in S
         /\ Items(s) = Items(Tail(s)) \cup {Head(s)}
         /\ Once(s) => Once(Tail(s)) /\ Head(s) \notin Items(Tail(s))
  <1>1. /\ Len(s) \in Nat /\ Len(s) > 0 /\ Len(Tail(s)) = Len(s) - 1
        /\ Head(s) = s[1]
        /\ \A i \in 1..Len(Tail(s)) : Tail(s)[i] = s[i + 1]
    OBVIOUS
  <1>2. /\ 1 \in 1..Len(s)
        /\ \A i \in 1..Len(Tail(s)) : i + 1 \in 1..Len(s) /\ i + 1 # 1
        /\ \A i \in 1..Len(s) : i = 1 \/ (i - 1 \in 1..Len(Tail(s)) /\ Tail(s)[i - 1] = s[i])
    BY <1>1
  <1>3. Items(s) = Items(Tail(s)) \cup {Head(s)}
    <2>1. Items(s) \subseteq Items(Tail(s)) \cup {Head(s)}
      BY <1>1, <1>2 DEF Items
    <2>2. Items(Tail(s)) \cup {Head(s)} \subseteq Items(s)
      BY <1>1, <1>2 DEF Items
    <2> QED
      BY <2>1, <2>2, Zenon
  <1>4. ASSUME Once(s) PROVE Once(Tail(s)) /\ Head(s) \notin Items(Tail(s))
    <2>1. Head(s) \notin Items(Tail(s))
      BY <1>1, <1>2, <1>4 DEF Items, Once
    <2>2. ASSUME NEW i \in 1..Len(Tail(s)), NEW j \in 1..Len(Tail(s)), Tail(s)[i] = Tail(s)[j] PROVE i = j
      <3>1. s[i + 1] = s[j + 1] /\ i + 1 \in 1..Len(s) /\ j + 1 \in 1..Len(s)
        BY <1>1, <1>2, <2>2, Zenon
      <3>2. i + 1 = j + 1
        BY <1>4, <3>1, Zenon DEF Once
      <3> QED
        BY <3>2
    <2> QED
      BY <2>1, <2>2, Zenon DEF Once
  <1> QED
    BY <1>3, <1>4

\* Two sequences one after the other have the elements of both.
LEMMA ItemsConcat ==
  ASSUME NEW S, NEW s \in Seq(S), NEW t \in Seq(S)
  PROVE  \A e \in Items(s \o t) : e \in Items(s) \/ e \in Items(t)
  <1>1. /\ Len(s) \in Nat /\ Len(t) \in Nat /\ Len(s \o t) = Len(s) + Len(t)
        /\ \A i \in 1..(Len(s) + Len(t)) : (s \o t)[i] = IF i <= Len(s) THEN s[i] ELSE t[i - Len(s)]
    OBVIOUS
  <1>2. ASSUME NEW i \in 1..Len(s \o t) PROVE (s \o t)[i] \in Items(s) \/ (s \o t)[i] \in Items(t)
    <2>1. CASE i <= Len(s)
      BY <1>1, <2>1 DEF Items
    <2>2. CASE ~(i <= Len(s))
      <3>1. i - Len(s) \in 1..Len(t) /\ (s \o t)[i] = t[i - Len(s)]
        BY <1>1, <2>2
      <3> QED
        BY <3>1, Zenon DEF Items
    <2> QED
      BY <2>1, <2>2, Zenon
  <1> QED
    BY <1>2, Zenon DEF Items

\* What a sequence has, it has at some place.
LEMMA ItemsAt ==
  ASSUME NEW s, NEW c
  PROVE  (\E i \in 1..Len(s) : s[i] = c) <=> c \in Items(s)
  BY Zenon DEF Items

-----------------------------------------------------------------------------
(* Types. *)

\* Initially there is no connection.
LEMMA InitCInv == Init => CInv
  <1> SUFFICES ASSUME Init PROVE CInv
    OBVIOUS
  <1>1. TypeOK
    BY SetupType, NoneFresh DEF Init, TypeOK
  <1>2. Items(<<>>) = {} /\ Once(<<>>)
    BY DEF Items, Once
  <1>3. Pooled /\ Past /\ NoneLost
    BY SetupType, NoneFresh, Zenon DEF Init, Pooled, Past, NoneLost, uses
  <1>4. Owned
    BY <1>2, Zenon DEF Init, Owned, uses, pooled
  <1>5. Served /\ Unborn /\ Begun /\ Answered /\ Own
    BY DEF Init, Served, Unborn, Begun, Answered, Own
  <1>6. Asked /\ Ran
    BY <1>2, Zenon DEF Init, Asked, Ran, works
  <1>7. Paired
    BY Zenon DEF Init, Paired, single, works
  <1> QED
    BY <1>1, <1>3, <1>4, <1>5, <1>6, <1>7, Zenon DEF CInv, Held

\* The messages have the types of messages.
LEMMA MessageType ==
  ASSUME TypeOK
  PROVE  /\ \A p \in Call : /\ request(p) \in Seq(Request)
                            /\ p \notin setup.big => \E m \in Request : request(p) = <<m>> /\ m.call = p
                            /\ \A m \in Items(request(p)) : m.call = p
         /\ \A m \in Request, st \in {"ok", "error"} :
               answer(m, st) \in Answer /\ answer(m, st).call = m.call /\ answer(m, st).status = st
  <1>1. ASSUME NEW p \in Call
        PROVE  /\ request(p) \in Seq(Request)
               /\ p \notin setup.big => \E m \in Request : request(p) = <<m>> /\ m.call = p
               /\ \A m \in Items(request(p)) : m.call = p
    <2> DEFINE a == [call |-> p, part |-> "whole"]
               b == [call |-> p, part |-> "header"]
               d == [call |-> p, part |-> "body"]
    <2>1. a \in Request /\ b \in Request /\ d \in Request /\ a.call = p /\ b.call = p /\ d.call = p
      BY Zenon DEF Request
    <2>2. request(p) = IF p \in setup.big THEN <<b, d>> ELSE <<a>>
      BY Zenon DEF request
    <2> HIDE DEF a, b, d
    <2>3. <<b, d>> \in Seq(Request) /\ <<a>> \in Seq(Request)
      BY <2>1
    <2>4. \A m : (m \in Items(<<b, d>>) => m = b \/ m = d) /\ (m \in Items(<<a>>) => m = a)
      BY DEF Items
    <2> QED
      BY <2>1, <2>2, <2>3, <2>4, Zenon
  <1>2. \A m \in Request, st \in {"ok", "error"} :
           answer(m, st) \in Answer /\ answer(m, st).call = m.call /\ answer(m, st).status = st
    BY Zenon DEF answer, Request, Answer
  <1> QED
    BY <1>1, <1>2, Zenon

\* The steps of the server keep the types.
LEMMA ServerTypeOK ==
  ASSUME TInv, CInv, ServerStep \/ Shutdown \/ ShutdownExpires
  PROVE  TypeOK'
  <1>1. UNCHANGED <<setup, clientvars, cli, c2s, s2c, req, busy>>
    BY Zenon DEF ServerStep, Listen, Accept, AcceptFails, HandOver, StarterReturns, CloseListener, ShutdownReturns,
           Shutdown, ShutdownExpires, shutdownvars, netvars
  <1>2. srv' \in [Conn -> {"new", "backlog", "open", "closed"}]
    <2>1. srv \in [Conn -> {"new", "backlog", "open", "closed"}]
      BY Zenon DEF CInv, TypeOK
    <2>2. \/ srv' = srv
          \/ srv' = [srv EXCEPT ![Head(backlog)] = "open"]
          \/ srv' = [c \in Conn |-> IF srv[c] = "backlog" THEN "closed" ELSE srv[c]]
      BY Zenon DEF ServerStep, Listen, Accept, AcceptFails, HandOver, StarterReturns, CloseListener, ShutdownReturns,
           Shutdown, ShutdownExpires, shutdownvars, netvars
    <2> QED
      BY <2>1, <2>2, Zenon
  <1>3. /\ handler' \in [Conn -> {"none", "read", "got", "error", "execute", "write", "returned"}]
        /\ closer' \in [Conn -> {"none", "select", "close", "returned"}]
    <2>1. /\ handler \in [Conn -> {"none", "read", "got", "error", "execute", "write", "returned"}]
          /\ closer \in [Conn -> {"none", "select", "close", "returned"}]
      BY Zenon DEF CInv, TypeOK
    <2>2. \/ handler' = handler /\ closer' = closer
          \/ handler' = [handler EXCEPT ![held] = "read"] /\ closer' = [closer EXCEPT ![held] = "select"]
      BY Zenon DEF ServerStep, Listen, Accept, AcceptFails, HandOver, StarterReturns, CloseListener, ShutdownReturns,
           Shutdown, ShutdownExpires, shutdownvars
    <2> QED
      BY <2>1, <2>2, Zenon
  <1>4. graced' \subseteq Call
    <2>1. CASE graced' = graced
      BY <2>1, Zenon DEF CInv, TypeOK
    <2>2. CASE Shutdown
      <3>1. \A c \in busy : c \in Conn /\ req[c] \in Request
        BY Zenon DEF CInv, TypeOK, Served, Asked, works
      <3> QED
        BY <2>2, <3>1, Zenon DEF Shutdown, Request
    <2> QED
      BY <2>1, <2>2, Zenon DEF ServerStep, Listen, Accept, AcceptFails, HandOver, StarterReturns, CloseListener,
                        ShutdownReturns, ShutdownExpires, shutdownvars, history
  <1> QED
    BY <1>1, <1>2, <1>3, <1>4, Zenon DEF CInv, TypeOK, clientvars

\* The steps of the handlers and of the closers keep the types.
LEMMA ConnTypeOK ==
  ASSUME CInv, NEW c \in Conn, ConnStep(c) \/ CloserStep(c)
  PROVE  TypeOK'
  <1> USE DEF CInv
  <1>1. UNCHANGED <<setup, clientvars, cli, graced>>
    BY Zenon DEF ConnStep, ReadRequest, MarkBusy, UnknownOp, Execute, WriteAnswer, WriteError, HandlerReturns, handlervars,
           CloserStep, CloserChecks, CloserCloses, closervars, history
  <1>2. works(c) => req[c] \in Request
    BY Zenon DEF Asked
  <1>3. CASE ReadRequest(c)
    <2>1. c2s[c] \in Seq(Request) /\ c2s[c] # <<>>
      BY <1>3, Zenon DEF ReadRequest, TypeOK
    <2>2. Head(c2s[c]) \in Request /\ Tail(c2s[c]) \in Seq(Request)
      BY <2>1, ItemsTail, Zenon
    <2> QED
      BY <1>1, <1>3, <2>2, Zenon DEF ReadRequest, TypeOK, clientvars, handlervars
  <1>4. CASE MarkBusy(c) \/ UnknownOp(c) \/ Execute(c) \/ HandlerReturns(c)
    BY <1>1, <1>4, ZenonT(30) DEF MarkBusy, UnknownOp, Execute, HandlerReturns, TypeOK, clientvars, handlervars
  <1>5. CASE WriteAnswer(c) \/ WriteError(c)
    <2>1. works(c)
      BY <1>5, Zenon DEF WriteAnswer, WriteError, works
    <2>2. \E st \in {"ok", "error"} : s2c' = [s2c EXCEPT ![c] = Append(@, answer(req[c], st))]
      BY <1>5, SetupType, Zenon DEF WriteAnswer, WriteError, TypeOK
    <2>3. PICK st \in {"ok", "error"} : s2c' = [s2c EXCEPT ![c] = Append(s2c[c], answer(req[c], st))]
      BY <2>2, Zenon
    <2>4. answer(req[c], st) \in Answer /\ s2c[c] \in Seq(Answer)
      BY <1>2, <2>1, MessageType, Zenon DEF TypeOK
    <2>5. Append(s2c[c], answer(req[c], st)) \in Seq(Answer)
      BY <2>4, ItemsAppend, Zenon
    <2>6. s2c' \in [Conn -> Seq(Answer)]
      BY <2>3, <2>5, Zenon DEF TypeOK
    <2>7. handler' = [handler EXCEPT ![c] = "read"] /\ busy' \subseteq busy
      BY <1>5, Zenon DEF WriteAnswer, WriteError
    <2>8. UNCHANGED <<srv, c2s, closer, req>>
      BY <1>5, Zenon DEF WriteAnswer, WriteError, handlervars
    <2> QED
      BY <1>1, <2>6, <2>7, <2>8, Zenon DEF TypeOK, clientvars
  <1>6. CASE CloserStep(c)
    BY <1>1, <1>6, ZenonT(30) DEF CloserStep, CloserChecks, CloserCloses, TypeOK, clientvars, closervars
  <1> QED
    BY <1>3, <1>4, <1>5, <1>6, Zenon DEF ConnStep

\* A connection that is dialled was new.
LEMMA Dialled ==
  ASSUME TypeOK, Dial(fresh)
  PROVE  /\ fresh \in Conn /\ cli[fresh] = "new"
         /\ cli' = [cli EXCEPT ![fresh] = "open"]
         /\ srv' = [srv EXCEPT ![fresh] = "backlog"]
  BY Zenon DEF Dial, fresh

\* The steps of the client keep the types.
LEMMA CallTypeOK ==
  ASSUME CInv, (\E p \in Call : CallStep(p)) \/ Close
  PROVE  TypeOK'
  <1> USE DEF CInv
  <1>0. /\ pc \in [Call -> {"start", "make", "store", "get", "write", "read", "put", "done"}]
        /\ idle \in [Call -> Seq(Conn)] /\ conn \in [Call -> Conn \cup {None}]
        /\ cli \in [Conn -> {"new", "open", "closed"}]
        /\ srv \in [Conn -> {"new", "backlog", "open", "closed"}]
        /\ pools \in Call \cup {None} /\ cpool \in [Call -> Call \cup {None}]
        /\ resp \in [Call -> Answer \cup {None}] /\ c2s \in [Conn -> Seq(Request)] /\ s2c \in [Conn -> Seq(Answer)]
    BY Zenon DEF TypeOK
  <1>1. UNCHANGED <<setup, handler, closer, req, busy, graced>>
    <2>1. ASSUME NEW p \in Call, NewPool(p) \/ GetConn(p) PROVE UNCHANGED <<setup, handler, closer, req, busy, graced>>
      BY <2>1, Zenon DEF NewPool, GetConn, dialvars, history
    <2>2. ASSUME NEW p \in Call, GetPool(p) \/ StorePool(p) \/ GetFails(p) \/ WriteRequest(p)
                                 \/ ReadAnswer(p) \/ RequestFails(p) \/ PutBack(p)
          PROVE  UNCHANGED callvars
      BY <2>2, Zenon DEF GetPool, StorePool, GetFails, WriteRequest, ReadAnswer, RequestFails, PutBack
    <2>3. CASE Close
      BY <2>3, Zenon DEF Close, callvars, servervars, history
    <2> QED
      BY <2>1, <2>2, <2>3, Zenon DEF CallStep, callvars, servervars, history
  <1>2. pools' \in Call \cup {None} /\ resp' \in [Call -> Answer \cup {None}]
        /\ c2s' \in [Conn -> Seq(Request)] /\ s2c' \in [Conn -> Seq(Answer)]
    <2>1. ASSUME NEW p \in Call, ReadAnswer(p)
          PROVE  resp' \in [Call -> Answer \cup {None}] /\ s2c' \in [Conn -> Seq(Answer)]
      <3>1. conn[p] \in Conn
        BY <2>1, Zenon DEF ReadAnswer, Held, Owned, uses
      <3>2. s2c[conn[p]] \in Seq(Answer) /\ s2c[conn[p]] # <<>>
        BY <1>0, <2>1, <3>1, Zenon DEF ReadAnswer
      <3>3. Head(s2c[conn[p]]) \in Answer /\ Tail(s2c[conn[p]]) \in Seq(Answer)
        BY <3>2, ItemsTail, Zenon
      <3> QED
        BY <1>0, <2>1, <3>1, <3>3, Zenon DEF ReadAnswer
    <2>2. ASSUME NEW p \in Call, WriteRequest(p) PROVE c2s' \in [Conn -> Seq(Request)]
      <3>1. conn[p] \in Conn
        BY <2>2, Zenon DEF WriteRequest, Held, Owned, uses
      <3>2. request(p) \in Seq(Request) /\ c2s[conn[p]] \in Seq(Request)
        BY <1>0, <3>1, MessageType, Zenon
      <3>3. c2s[conn[p]] \o request(p) \in Seq(Request)
        BY <3>2
      <3> QED
        BY <1>0, <2>2, <3>1, <3>3, Zenon DEF WriteRequest
    <2>3. ASSUME NEW p \in Call, StorePool(p) PROVE pools' \in Call \cup {None}
      BY <1>0, <2>3, Zenon DEF StorePool
    <2>4. ASSUME NEW p \in Call, NewPool(p) \/ GetConn(p) \/ GetPool(p) \/ GetFails(p) \/ RequestFails(p) \/ PutBack(p)
          PROVE  UNCHANGED <<pools, resp, c2s, s2c>>
      BY <2>4, Zenon DEF NewPool, GetConn, dialvars, GetPool, GetFails, RequestFails, PutBack, netvars
    <2>5. CASE Close
      BY <1>0, <2>5, Zenon DEF Close
    <2>6. ASSUME NEW p \in Call PROVE /\ (ReadAnswer(p) => UNCHANGED <<pools, c2s>>)
                                      /\ (WriteRequest(p) => UNCHANGED <<pools, resp, s2c>>)
                                      /\ (StorePool(p) => UNCHANGED <<resp, c2s, s2c>>)
      BY Zenon DEF ReadAnswer, WriteRequest, StorePool
    <2> QED
      BY <1>0, <2>1, <2>2, <2>3, <2>4, <2>5, <2>6, Zenon DEF CallStep
  <1>3. ASSUME NEW p \in Call, CallStep(p)
        PROVE  /\ pc' \in [Call -> {"start", "make", "store", "get", "write", "read", "put", "done"}]
               /\ cpool' \in [Call -> Call \cup {None}] /\ conn' \in [Call -> Conn \cup {None}]
               /\ idle' \in [Call -> Seq(Conn)]
               /\ cli' \in [Conn -> {"new", "open", "closed"}]
               /\ srv' \in [Conn -> {"new", "backlog", "open", "closed"}]
    <2>1. CASE GetPool(p) \/ GetFails(p) \/ WriteRequest(p) \/ ReadAnswer(p) \/ RequestFails(p)
      <3>1. UNCHANGED <<conn, idle, cli, srv>>
        BY <2>1, Zenon DEF GetPool, GetFails, WriteRequest, ReadAnswer, RequestFails, netvars
      <3>2. cpool' = cpool \/ cpool' = [cpool EXCEPT ![p] = pools]
        BY <2>1, Zenon DEF GetPool, GetFails, WriteRequest, ReadAnswer, RequestFails
      <3>3. \E st \in {"make", "get", "read", "put", "done"} : pc' = [pc EXCEPT ![p] = st]
        BY <2>1, Zenon DEF GetPool, GetFails, WriteRequest, ReadAnswer, RequestFails, goto
      <3>4. pc' \in [Call -> {"start", "make", "store", "get", "write", "read", "put", "done"}]
        BY <1>0, <3>3, Zenon
      <3>5. cpool' \in [Call -> Call \cup {None}]
        BY <1>0, <3>2, Zenon
      <3> QED
        BY <1>0, <3>1, <3>4, <3>5, Zenon
    <2>2. CASE NewPool(p)
      <3>1. CASE Dial(fresh) /\ idle' = [idle EXCEPT ![p] = <<fresh>>]
        <4>1. fresh \in Conn /\ cli' = [cli EXCEPT ![fresh] = "open"] /\ srv' = [srv EXCEPT ![fresh] = "backlog"]
          BY <3>1, Dialled, Zenon
        <4>2. <<fresh>> \in Seq(Conn)
          BY <4>1
        <4>3. idle' \in [Call -> Seq(Conn)]
          BY <1>0, <3>1, <4>2, Zenon
        <4> QED
          BY <1>0, <2>2, <4>1, <4>3, Zenon DEF NewPool, goto
      <3>2. CASE UNCHANGED <<cli, srv, backlog, idle>>
        BY <1>0, <2>2, <3>2, Zenon DEF NewPool, goto
      <3> QED
        BY <2>2, <3>1, <3>2, Zenon DEF NewPool
    <2>3. CASE StorePool(p)
      <3>1. pools' \in Call \cup {None}
        BY <1>2, Zenon
      <3>2. UNCHANGED <<conn, srv>>
        BY <2>3, Zenon DEF StorePool
      <3>3. idle' \in [Call -> Seq(Conn)]
        BY <1>0, <2>3 DEF StorePool
      <3>4. cli' \in [Conn -> {"new", "open", "closed"}]
        BY <1>0, <2>3, Zenon DEF StorePool
      <3> QED
        BY <1>0, <2>3, <3>1, <3>2, <3>3, <3>4, Zenon DEF StorePool, goto
    <2>4. CASE GetConn(p)
      <3> DEFINE q == cpool[p]
      <3>1. q \in Call
        BY <2>4, Zenon DEF GetConn, Held, Pooled
      <3>2. CASE idle[q] # <<>>
        <4>1. Head(idle[q]) \in Conn /\ Tail(idle[q]) \in Seq(Conn)
          BY <1>0, <3>1, <3>2, ItemsTail, Zenon
        <4> QED
          BY <1>0, <2>4, <3>1, <3>2, <4>1, Zenon DEF GetConn, goto
      <3>3. CASE idle[q] = <<>>
        <4>1. Dial(fresh) /\ conn' = [conn EXCEPT ![p] = fresh] /\ UNCHANGED <<idle, cpool>>
          BY <2>4, <3>3, Zenon DEF GetConn
        <4> QED
          BY <1>0, <2>4, <4>1, Dialled, Zenon DEF GetConn, goto
      <3> QED
        BY <3>2, <3>3, Zenon
    <2>5. CASE PutBack(p)
      <3> DEFINE q == cpool[p]
      <3>1. q \in Call /\ conn[p] \in Conn
        BY <2>5, Zenon DEF PutBack, Held, Pooled, Owned, uses
      <3>2. Append(idle[q], conn[p]) \in Seq(Conn)
        BY <1>0, <3>1, ItemsAppend, Zenon
      <3>3. idle' = idle \/ idle' = [idle EXCEPT ![q] = Append(idle[q], conn[p])]
        BY <2>5, Zenon DEF PutBack
      <3>4. cli' = cli \/ cli' = [cli EXCEPT ![conn[p]] = "closed"]
        BY <2>5, Zenon DEF PutBack
      <3>5. UNCHANGED <<srv, cpool, conn>> /\ pc' = [pc EXCEPT ![p] = "done"]
        BY <2>5, Zenon DEF PutBack, goto
      <3>6. idle' \in [Call -> Seq(Conn)]
        BY <1>0, <3>1, <3>2, <3>3, Zenon
      <3> QED
        BY <1>0, <3>4, <3>5, <3>6, Zenon
    <2> QED
      BY <1>3, <2>1, <2>2, <2>3, <2>4, <2>5, Zenon DEF CallStep
  <1>4. poolOpen' \subseteq Call
    <2>1. ASSUME NEW p \in Call, CallStep(p) PROVE poolOpen' \subseteq poolOpen \cup {p}
      BY <2>1, Zenon DEF CallStep, GetPool, NewPool, StorePool, GetConn, GetFails, WriteRequest, ReadAnswer, RequestFails,
                  PutBack
    <2>2. Close => poolOpen' \subseteq poolOpen
      BY Zenon DEF Close
    <2> QED
      BY <2>1, <2>2, Zenon DEF TypeOK
  <1>5. CASE Close
    <2>1. UNCHANGED <<srv, pc, cpool, conn>>
      BY <1>5, Zenon DEF Close
    <2>2. cli' \in [Conn -> {"new", "open", "closed"}]
      BY <1>0, <1>5, Zenon DEF Close
    <2>3. idle' \in [Call -> Seq(Conn)]
      <3>1. idle' = [idle EXCEPT ![pools] = <<>>]
        BY <1>5, Zenon DEF Close
      <3>2. <<>> \in Seq(Conn)
        OBVIOUS
      <3> QED
        BY <1>0, <3>1, <3>2, Zenon
    <2> QED
      BY <1>0, <1>1, <1>2, <1>4, <2>1, <2>2, <2>3, Zenon DEF TypeOK
  <1>6. CASE \E p \in Call : CallStep(p)
    <2>1. /\ pc' \in [Call -> {"start", "make", "store", "get", "write", "read", "put", "done"}]
          /\ cpool' \in [Call -> Call \cup {None}] /\ conn' \in [Call -> Conn \cup {None}]
          /\ idle' \in [Call -> Seq(Conn)]
          /\ cli' \in [Conn -> {"new", "open", "closed"}]
          /\ srv' \in [Conn -> {"new", "backlog", "open", "closed"}]
      BY <1>3, <1>6, Zenon
    <2> QED
      BY <1>1, <1>2, <1>4, <2>1, Zenon DEF TypeOK
  <1> QED
    BY <1>5, <1>6, Zenon

-----------------------------------------------------------------------------
(* Who has a connection. *)

\* A step that moves no connection.
LEMMA HeldQuiet ==
  ASSUME CInv, UNCHANGED <<conn, idle, cli, pools>>,
         \A q \in Call : uses(q)' <=> uses(q),
         \A q \in Call : pc'[q] = "get" \/ uses(q)' => cpool'[q] = pools /\ pools \in Call,
         \A q \in Call : pc'[q] \in {"make", "store"} => pools # q,
         \A q \in Call : pc[q] \in {"store", "done"} => pc'[q] = pc[q],
         \A q \in Call : resp'[q] # None => pc'[q] \in {"put", "done"} /\ conn[q] # None
  PROVE  Held'
  <1> USE DEF CInv, Held
  <1>2. Pooled'
    BY Zenon DEF Pooled
  <1>3. Owned'
    BY Zenon DEF Owned, pooled
  <1>4. Past'
    BY Zenon DEF Past
  <1>5. NoneLost'
    BY DEF NoneLost, pooled
  <1> QED
    BY <1>2, <1>3, <1>4, <1>5, Zenon

\* The steps of a call between those that get and give back its connection.
LEMMA CallQuiet ==
  ASSUME CInv, NEW p \in Call,
         GetPool(p) \/ GetFails(p) \/ WriteRequest(p) \/ ReadAnswer(p) \/ RequestFails(p)
  PROVE  Held'
  <1> USE DEF CInv, Held
  <1>0. pc \in [Call -> {"start", "make", "store", "get", "write", "read", "put", "done"}]
        /\ cpool \in [Call -> Call \cup {None}] /\ resp \in [Call -> Answer \cup {None}]
        /\ pools \in Call \cup {None}
    BY Zenon DEF TypeOK
  <1>1. UNCHANGED <<conn, idle, cli, pools>>
    BY Zenon DEF GetPool, GetFails, WriteRequest, ReadAnswer, RequestFails, netvars
  <1>2. PICK st : pc' = [pc EXCEPT ![p] = st]
    BY Zenon DEF GetPool, GetFails, WriteRequest, ReadAnswer, RequestFails, goto
  <1>3. pc'[p] = st /\ \A q \in Call : q # p => pc'[q] = pc[q]
    BY <1>0, <1>2, Zenon
  <1>4. CASE GetPool(p)
    <2>1. /\ pc[p] = "start" /\ resp' = resp
          /\ pc'[p] = (IF pools # None THEN "get" ELSE "make")
          /\ cpool'[p] = pools /\ \A q \in Call : q # p => cpool'[q] = cpool[q]
      BY <1>0, <1>4, Zenon DEF GetPool, goto
    <2>2. pools # None => pools \in Call
      BY <1>0, Zenon
    <2>3. /\ pc'[p] \in {"get", "make"} /\ pc'[p] # "store"
          /\ pc'[p] = "get" => cpool'[p] = pools /\ pools \in Call
          /\ pc'[p] = "make" => pools # p
      BY <2>1, <2>2, NoneFresh, Zenon
    <2>4. ~uses(p) /\ ~uses(p)' /\ pc[p] \notin {"store", "done"}
      BY <2>1, <2>3, Zenon DEF uses
    <2>5. \A q \in Call : q # p => (uses(q)' <=> uses(q))
      BY <1>3, Zenon DEF uses
    <2>6. resp[p] = None
      BY <2>1, Zenon DEF Past
    <2>7. \A q \in Call : resp'[q] # None => pc'[q] \in {"put", "done"} /\ conn[q] # None
      BY <1>3, <2>1, <2>6, Zenon DEF Past
    <2>8. \A q \in Call : pc'[q] = "get" \/ uses(q)' => cpool'[q] = pools /\ pools \in Call
      BY <1>3, <2>1, <2>3, <2>4, <2>5, Zenon DEF Pooled
    <2>9. \A q \in Call : pc'[q] \in {"make", "store"} => pools # q
      BY <1>3, <2>3, Zenon DEF Pooled
    <2> QED
      BY <1>1, <1>3, <2>4, <2>5, <2>7, <2>8, <2>9, HeldQuiet, Zenon
  <1>5. CASE GetFails(p)
    <2>1. pc[p] \in {"get", "make"} /\ pc'[p] = "done" /\ UNCHANGED <<resp, cpool>>
      BY <1>0, <1>5, Zenon DEF GetFails, goto
    <2>2. ~uses(p) /\ ~uses(p)' /\ pc[p] \notin {"store", "done"} /\ pc'[p] \notin {"get", "make", "store"}
      BY <2>1, Zenon DEF uses
    <2>3. resp[p] = None
      BY <2>1, Zenon DEF Past
    <2>4. \A q \in Call : q # p => (uses(q)' <=> uses(q))
      BY <1>3, Zenon DEF uses
    <2>5. \A q \in Call : resp'[q] # None => pc'[q] \in {"put", "done"} /\ conn[q] # None
      BY <1>3, <2>1, <2>3, Zenon DEF Past
    <2>6. \A q \in Call : pc'[q] = "get" \/ uses(q)' => cpool'[q] = pools /\ pools \in Call
      BY <1>3, <2>1, <2>2, <2>4, Zenon DEF Pooled
    <2>7. \A q \in Call : pc'[q] \in {"make", "store"} => pools # q
      BY <1>3, <2>2, Zenon DEF Pooled
    <2> QED
      BY <1>1, <1>3, <2>2, <2>4, <2>5, <2>6, <2>7, HeldQuiet, Zenon
  <1>6. CASE WriteRequest(p) \/ ReadAnswer(p) \/ RequestFails(p)
    <2>1. pc[p] \in {"write", "read"} /\ pc'[p] \in {"read", "put"} /\ cpool' = cpool
      BY <1>0, <1>6, Zenon DEF WriteRequest, ReadAnswer, RequestFails, goto
    <2>2. uses(p) /\ uses(p)' /\ pc[p] \notin {"store", "done"} /\ pc'[p] \notin {"get", "make", "store"}
      BY <2>1, Zenon DEF uses
    <2>3. /\ \A q \in Call : q # p => resp'[q] = resp[q]
          /\ resp'[p] # None => resp[p] # None \/ ReadAnswer(p)
      BY <1>0, <1>6, Zenon DEF WriteRequest, ReadAnswer, RequestFails
    <2>4. ReadAnswer(p) => pc'[p] = "put"
      BY <1>0, Zenon DEF ReadAnswer, goto
    <2>5. resp[p] = None /\ conn[p] # None
      BY <2>1, <2>2, NoneFresh, Zenon DEF Past, Owned
    <2>6. \A q \in Call : q # p => (uses(q)' <=> uses(q))
      BY <1>3, Zenon DEF uses
    <2>7. \A q \in Call : resp'[q] # None => pc'[q] \in {"put", "done"} /\ conn[q] # None
      BY <1>3, <2>3, <2>4, <2>5, Zenon DEF Past
    <2>8. \A q \in Call : pc'[q] = "get" \/ uses(q)' => cpool'[q] = pools /\ pools \in Call
      BY <1>3, <2>1, <2>2, <2>6, Zenon DEF Pooled
    <2>9. \A q \in Call : pc'[q] \in {"make", "store"} => pools # q
      BY <1>3, <2>2, Zenon DEF Pooled
    <2> QED
      BY <1>1, <1>3, <2>2, <2>6, <2>7, <2>8, <2>9, HeldQuiet, Zenon
  <1> QED
    BY <1>4, <1>5, <1>6, Zenon

\* A new connection is nowhere.
LEMMA NewNowhere ==
  ASSUME CInv, NEW f \in Conn, cli[f] = "new"
  PROVE  /\ \A q \in Call : f \notin pooled(q) /\ conn[q] # f
         /\ \A q \in Call : uses(q) => conn[q] # f
  <1>1. \A q \in Call : f \notin pooled(q)
    BY Zenon DEF CInv, Held, Owned
  <1>2. \A q \in Call : conn[q] # f
    BY NoneFresh, Zenon DEF CInv, Held, Past
  <1> QED
    BY <1>1, <1>2, Zenon

\* NewChannelPool: the first connection is in the new pool.
LEMMA NewPoolHeld == ASSUME CInv, NEW p \in Call, NewPool(p) PROVE Held'
  <1> USE DEF CInv, Held
  <1>0. pc \in [Call -> {"start", "make", "store", "get", "write", "read", "put", "done"}]
        /\ idle \in [Call -> Seq(Conn)] /\ cli \in [Conn -> {"new", "open", "closed"}]
    BY Zenon DEF TypeOK
  <1>1. /\ pc[p] = "make" /\ pc'[p] = "store" /\ \A q \in Call : q # p => pc'[q] = pc[q]
        /\ UNCHANGED <<pools, cpool, conn, resp>>
    BY <1>0, Zenon DEF NewPool, goto
  <1>2. pools # p /\ idle[p] = <<>> /\ conn[p] = None /\ resp[p] = None
    BY <1>1, Zenon DEF Pooled, Past, uses
  <1>3. ~uses(p) /\ ~uses(p)' /\ \A q \in Call : q # p => (uses(q)' <=> uses(q))
    BY <1>1, Zenon DEF uses
  <1>4. \A q \in Call : pc'[q] = "get" \/ uses(q)' => cpool'[q] = pools /\ pools \in Call
    BY <1>1, <1>3, Zenon DEF Pooled
  <1>5. \A q \in Call : pc'[q] \in {"make", "store"} => pools # q
    BY <1>1, <1>2, Zenon DEF Pooled
  <1>6. \A q \in Call : resp'[q] # None => pc'[q] \in {"put", "done"} /\ conn[q] # None
    BY <1>1, <1>2, Zenon DEF Past
  <1>7. CASE UNCHANGED <<cli, srv, backlog, idle>>
    <2>1. \A q \in Call : uses(q)' <=> uses(q)
      BY <1>3, Zenon
    <2>2. \A q \in Call : pc[q] \in {"store", "done"} => pc'[q] = pc[q]
      BY <1>1, Zenon
    <2> QED
      BY <1>1, <1>4, <1>5, <1>6, <1>7, <2>1, <2>2, HeldQuiet, Zenon
  <1>8. CASE Dial(fresh) /\ idle' = [idle EXCEPT ![p] = <<fresh>>]
    <2>1. PICK f \in Conn : /\ cli[f] = "new" /\ cli' = [cli EXCEPT ![f] = "open"]
                            /\ idle' = [idle EXCEPT ![p] = <<f>>]
      BY <1>8, Dialled, Zenon
    <2>2. /\ cli'[f] = "open" /\ \A c \in Conn : c # f => cli'[c] = cli[c]
          /\ idle'[p] = <<f>> /\ \A q \in Call : q # p => idle'[q] = idle[q]
      BY <1>0, <2>1, Zenon
    <2>3. /\ pooled(p)' = {f} /\ Once(idle'[p])
          /\ \A q \in Call : q # p => pooled(q)' = pooled(q) /\ Once(idle'[q]) = Once(idle[q])
      BY <2>2, Single, Zenon DEF pooled
    <2>4. \A q \in Call : f \notin pooled(q) /\ conn[q] # f
      BY <2>1, NewNowhere, Zenon
    <2>5. \A q \in Call : \A c \in pooled(q) : c \in Conn
      BY <1>0 DEF pooled, Items
    <2>6. Pooled'
      BY <1>1, <1>4, <1>5, <2>2 DEF Pooled
    <2>7. Owned'
      <3>1. \A q \in Call : uses(q)' => conn'[q] \in Conn /\ cli'[conn'[q]] = "open"
        BY <1>1, <1>3, <2>2, <2>4, Zenon DEF Owned
      <3>2. \A q, r \in Call : uses(q)' /\ uses(r)' /\ conn'[q] = conn'[r] => q = r
        BY <1>1, <1>3, Zenon DEF Owned
      <3>3. \A r, q \in Call : uses(r)' => conn'[r] \notin pooled(q)'
        BY <1>1, <1>3, <2>3, <2>4, Zenon DEF Owned
      <3>4. \A q \in Call : Once(idle'[q]) /\ \A c \in pooled(q)' : cli'[c] = "open"
        BY <2>2, <2>3, <2>4, <2>5 DEF Owned
      <3>5. \A q, r \in Call : q # r => \A c \in pooled(q)' : c \notin pooled(r)'
        BY <2>3, <2>4 DEF Owned
      <3> QED
        BY <3>1, <3>2, <3>3, <3>4, <3>5, Zenon DEF Owned
    <2>8. Past'
      <3>1. \A q \in Call : conn[q] # None => q # p /\ conn[q] \in Conn /\ conn[q] # f
        BY <1>2, <2>4, Zenon DEF TypeOK
      <3>2. \A q \in Call : conn'[q] # None => (uses(q)' \/ pc'[q] = "done") /\ cli'[conn'[q]] # "new"
        BY <1>1, <1>3, <2>2, <3>1 DEF Past
      <3> QED
        BY <1>1, <1>6, <3>2, Zenon DEF Past
    <2>9. NoneLost'
      <3> SUFFICES ASSUME NEW c \in Conn, cli'[c] = "open"
                   PROVE  \E q \in Call : \/ pools' = q /\ c \in pooled(q)'
                                          \/ pc'[q] = "store" /\ idle'[q] = <<c>>
                                          \/ uses(q)' /\ conn'[q] = c
        BY Zenon DEF NoneLost
      <3>1. CASE c = f
        BY <1>1, <2>2, <3>1, Zenon
      <3>2. CASE c # f
        <4>1. PICK q \in Call : \/ pools = q /\ c \in pooled(q)
                                \/ pc[q] = "store" /\ idle[q] = <<c>>
                                \/ uses(q) /\ conn[q] = c
          BY <2>2, <3>2, Zenon DEF NoneLost
        <4>2. q # p
          BY <1>1, <1>2, <1>3, <4>1, Zenon
        <4> QED
          BY <1>1, <1>3, <2>2, <2>3, <4>1, <4>2, Zenon
      <3> QED
        BY <3>1, <3>2, Zenon
    <2> QED
      BY <2>6, <2>7, <2>8, <2>9, Zenon
  <1> QED
    BY <1>7, <1>8, Zenon DEF NewPool

\* The pool is stored, or it is closed with its connection.
LEMMA StorePoolHeld == ASSUME CInv, NEW p \in Call, StorePool(p) PROVE Held'
  <1> USE DEF CInv, Held
  <1>0. /\ pc \in [Call -> {"start", "make", "store", "get", "write", "read", "put", "done"}]
        /\ idle \in [Call -> Seq(Conn)] /\ cli \in [Conn -> {"new", "open", "closed"}]
        /\ pools \in Call \cup {None} /\ cpool \in [Call -> Call \cup {None}] /\ conn \in [Call -> Conn \cup {None}]
    BY Zenon DEF TypeOK
  <1>1. /\ pc[p] = "store" /\ pc'[p] = "get" /\ \A q \in Call : q # p => pc'[q] = pc[q]
        /\ UNCHANGED <<conn, resp>>
        /\ cpool'[p] = pools' /\ \A q \in Call : q # p => cpool'[q] = cpool[q]
    BY <1>0, Zenon DEF StorePool, goto
  <1>2. pools # p /\ conn[p] = None /\ resp[p] = None
    BY <1>1, Zenon DEF Pooled, Past, uses
  <1>3. ~uses(p) /\ ~uses(p)' /\ \A q \in Call : q # p => (uses(q)' <=> uses(q))
    BY <1>1, Zenon DEF uses
  <1>4. \A q \in Call : resp'[q] # None => pc'[q] \in {"put", "done"} /\ conn[q] # None
    BY <1>1, <1>2, Zenon DEF Past
  <1>5. CASE pools = None
    <2>1. pools' = p /\ UNCHANGED <<cli, idle>>
      <3>1. pools' = p
        BY <1>5, Zenon DEF StorePool
      <3>2. idle' = idle
        BY <1>0, <1>5, Zenon DEF StorePool
      <3>3. cli' = cli
        BY <1>0, <1>5, Zenon DEF StorePool
      <3> QED
        BY <3>1, <3>2, <3>3, Zenon
    <2>2. \A q \in Call : pooled(q)' = pooled(q)
      BY <2>1, Zenon DEF pooled
    <2>3. \A q \in Call : pc[q] # "get" /\ ~uses(q)
      BY <1>5, NoneFresh, Zenon DEF Pooled
    <2>4. Pooled'
      <3>1. \A q \in Call : pc'[q] = "get" \/ uses(q)' => q = p
        BY <1>1, <1>3, <2>3, Zenon
      <3>2. \A q \in Call : pc'[q] \in {"make", "store"} => q # p
        BY <1>1, Zenon
      <3>3. \A q \in Call : \/ idle'[q] = <<>> \/ pools' = q
                            \/ (pc'[q] = "store" /\ \E c \in Conn : idle'[q] = <<c>>)
        BY <1>1, <1>5, <2>1, NoneFresh, Zenon DEF Pooled
      <3> QED
        BY <1>1, <2>1, <3>1, <3>2, <3>3, Zenon DEF Pooled
    <2>5. Owned'
      BY <1>1, <1>3, <2>1 DEF Owned, pooled
    <2>6. Past'
      BY <1>1, <1>2, <1>3, <1>4, <2>1, Zenon DEF Past
    <2>7. NoneLost'
      <3> SUFFICES ASSUME NEW c \in Conn, cli[c] = "open"
                   PROVE  \E q \in Call : \/ pools' = q /\ c \in pooled(q)'
                                          \/ pc'[q] = "store" /\ idle'[q] = <<c>>
                                          \/ uses(q)' /\ conn'[q] = c
        BY <2>1, Zenon DEF NoneLost
      <3>1. PICK q \in Call : pc[q] = "store" /\ idle[q] = <<c>>
        BY <1>5, <2>3, NoneFresh, Zenon DEF NoneLost
      <3>2. CASE q = p
        <4>1. c \in pooled(p)
          BY <3>1, <3>2, Single, Zenon DEF pooled
        <4> QED
          BY <2>1, <2>2, <4>1, Zenon
      <3>3. CASE q # p
        BY <1>1, <2>1, <3>1, <3>3, Zenon
      <3> QED
        BY <3>2, <3>3, Zenon
    <2> QED
      BY <2>4, <2>5, <2>6, <2>7, Zenon
  <1>6. CASE pools # None
    <2>1. /\ pools' = pools /\ pools \in Call
          /\ \A c \in Conn : cli'[c] = IF <<c>> = idle[p] THEN "closed" ELSE cli[c]
          /\ idle'[p] = <<>> /\ \A q \in Call : q # p => idle'[q] = idle[q]
      BY <1>0, <1>6, Zenon DEF StorePool
    <2>2. /\ pooled(p)' = {} /\ Once(idle'[p])
          /\ \A q \in Call : q # p => pooled(q)' = pooled(q) /\ Once(idle'[q]) = Once(idle[q])
      <3>1. Items(<<>>) = {} /\ Once(<<>>)
        BY DEF Items, Once
      <3> QED
        BY <2>1, <3>1, Zenon DEF pooled
    <2>3. \A c \in Conn : cli'[c] = cli[c] \/ (c \in pooled(p) /\ cli'[c] = "closed" /\ <<c>> = idle[p])
      <3>1. \A c \in Conn : <<c>> = idle[p] => c \in pooled(p)
        BY Single, Zenon DEF pooled
      <3> QED
        BY <2>1, <3>1, Zenon
    <2>4. \A q \in Call : \A c \in pooled(q) : c \in Conn
      BY <1>0 DEF pooled, Items
    <2>5. Pooled'
      BY <1>1, <1>3, <2>1 DEF Pooled
    <2>6. Owned'
      <3>1. \A q \in Call : uses(q)' => conn'[q] \in Conn /\ cli'[conn'[q]] = "open"
        BY <1>1, <1>3, <2>3 DEF Owned
      <3>2. \A q, r \in Call : uses(q)' /\ uses(r)' /\ conn'[q] = conn'[r] => q = r
        BY <1>1, <1>3, Zenon DEF Owned
      <3>3. \A r, q \in Call : uses(r)' => conn'[r] \notin pooled(q)'
        BY <1>1, <1>3, <2>2 DEF Owned
      <3>4. \A q \in Call : Once(idle'[q]) /\ \A c \in pooled(q)' : cli'[c] = "open"
        BY <2>2, <2>3, <2>4 DEF Owned
      <3>5. \A q, r \in Call : q # r => \A c \in pooled(q)' : c \notin pooled(r)'
        BY <2>2 DEF Owned
      <3> QED
        BY <3>1, <3>2, <3>3, <3>4, <3>5, Zenon DEF Owned
    <2>7. Past'
      <3>1. \A q \in Call : conn'[q] # None => (uses(q)' \/ pc'[q] = "done") /\ cli'[conn'[q]] # "new"
        <4>1. \A q \in Call : conn[q] # None => q # p /\ conn[q] \in Conn
          BY <1>0, <1>2, Zenon
        <4> QED
          BY <1>1, <1>3, <2>3, <4>1 DEF Past
      <3> QED
        BY <1>1, <1>4, <3>1, Zenon DEF Past
    <2>8. NoneLost'
      <3> SUFFICES ASSUME NEW c \in Conn, cli'[c] = "open"
                   PROVE  \E q \in Call : \/ pools' = q /\ c \in pooled(q)'
                                          \/ pc'[q] = "store" /\ idle'[q] = <<c>>
                                          \/ uses(q)' /\ conn'[q] = c
        BY Zenon DEF NoneLost
      <3>1. PICK q \in Call : \/ pools = q /\ c \in pooled(q)
                              \/ pc[q] = "store" /\ idle[q] = <<c>>
                              \/ uses(q) /\ conn[q] = c
        BY <2>3, Zenon DEF NoneLost
      <3>2. q # p
        BY <1>2, <1>3, <2>1, <3>1, Zenon
      <3> QED
        BY <1>1, <1>3, <2>1, <2>2, <3>1, <3>2, Zenon
    <2> QED
      BY <2>5, <2>6, <2>7, <2>8, Zenon
  <1> QED
    BY <1>5, <1>6, Zenon

\* The call gets a connection that was in the pool, or is new.
LEMMA GetConnHeld == ASSUME CInv, NEW p \in Call, GetConn(p) PROVE Held'
  <1> USE DEF CInv, Held
  <1> DEFINE a == pools
  <1>0. /\ pc \in [Call -> {"start", "make", "store", "get", "write", "read", "put", "done"}]
        /\ idle \in [Call -> Seq(Conn)] /\ cli \in [Conn -> {"new", "open", "closed"}]
        /\ conn \in [Call -> Conn \cup {None}]
    BY Zenon DEF TypeOK
  <1>1. /\ pc[p] = "get" /\ pc'[p] = "write" /\ \A q \in Call : q # p => pc'[q] = pc[q]
        /\ UNCHANGED <<pools, cpool, resp>>
    BY <1>0, Zenon DEF GetConn, goto
  <1>2. a \in Call /\ cpool[p] = a /\ conn[p] = None /\ resp[p] = None
    BY <1>1, Zenon DEF Pooled, Past, uses
  <1>3. ~uses(p) /\ uses(p)' /\ \A q \in Call : q # p => (uses(q)' <=> uses(q))
    BY <1>1, Zenon DEF uses
  <1>4. PICK f \in Conn :
          /\ conn' = [conn EXCEPT ![p] = f]
          /\ \/ /\ idle[a] # <<>> /\ f = Head(idle[a]) /\ idle' = [idle EXCEPT ![a] = Tail(idle[a])] /\ cli' = cli
             \/ /\ cli[f] = "new" /\ cli' = [cli EXCEPT ![f] = "open"] /\ idle' = idle
    <2>1. CASE idle[a] # <<>>
      <3>1. Head(idle[a]) \in Conn
        BY <1>0, <1>2, <2>1, ItemsTail, Zenon
      <3> QED
        BY <1>2, <2>1, <3>1, Zenon DEF GetConn
    <2>2. CASE idle[a] = <<>>
      <3>1. Dial(fresh) /\ conn' = [conn EXCEPT ![p] = fresh] /\ idle' = idle
        BY <1>2, <2>2, Zenon DEF GetConn
      <3> QED
        BY <3>1, Dialled, Zenon
    <2> QED
      BY <2>1, <2>2, Zenon
  <1>5. conn'[p] = f /\ \A q \in Call : q # p => conn'[q] = conn[q]
    BY <1>0, <1>4, Zenon
  <1>6. /\ cli'[f] = "open" /\ \A c \in Conn : c # f => cli'[c] = cli[c]
        /\ \A q \in Call : uses(q) => conn[q] # f
        /\ \A q \in Call : conn[q] # None => conn[q] \in Conn
    <2>1. CASE idle[a] # <<>> /\ f = Head(idle[a]) /\ cli' = cli
      <3>1. f \in pooled(a)
        BY <1>0, <1>2, <2>1, ItemsTail DEF pooled
      <3> QED
        BY <1>0, <1>2, <2>1, <3>1 DEF Owned
    <2>2. CASE cli[f] = "new" /\ cli' = [cli EXCEPT ![f] = "open"]
      BY <1>0, <2>2, NewNowhere, Zenon
    <2> QED
      BY <1>4, <2>1, <2>2, Zenon
  <1>7. /\ \A q \in Call : pooled(q)' = pooled(q) \ {f} /\ Once(idle'[q])
        /\ \A q \in Call : q # a => idle'[q] = idle[q]
    <2>1. CASE idle[a] # <<>> /\ f = Head(idle[a]) /\ idle' = [idle EXCEPT ![a] = Tail(idle[a])]
      <3>1. idle'[a] = Tail(idle[a]) /\ \A q \in Call : q # a => idle'[q] = idle[q]
        BY <1>0, <1>2, <2>1, Zenon
      <3>2. idle[a] \in Seq(Conn) /\ Once(idle[a])
        BY <1>0, <1>2, Zenon DEF Owned
      <3>3. /\ Items(idle[a]) = Items(Tail(idle[a])) \cup {f} /\ Once(Tail(idle[a]))
            /\ f \notin Items(Tail(idle[a]))
        BY <2>1, <3>2, ItemsTail, Zenon
      <3>4. \A q \in Call : q # a => f \notin Items(idle[q])
        BY <1>2, <3>3, Zenon DEF Owned, pooled
      <3> QED
        BY <3>1, <3>3, <3>4 DEF pooled, Owned
    <2>2. CASE cli[f] = "new" /\ idle' = idle
      <3>1. \A q \in Call : f \notin pooled(q)
        BY <2>2, NewNowhere, Zenon
      <3> QED
        BY <2>2, <3>1, Zenon DEF pooled, Owned
    <2> QED
      BY <1>4, <2>1, <2>2, Zenon
  <1> HIDE DEF a
  <1>8. a = pools
    BY Zenon DEF a
  <1>9. \A q \in Call : \A c \in pooled(q) : c \in Conn
    BY <1>0 DEF pooled, Items
  <1>10. Pooled'
    <2>1. \A q \in Call : pc'[q] = "get" \/ uses(q)' => cpool'[q] = pools' /\ pools' \in Call
      BY <1>1, <1>2, <1>3, <1>8, Zenon DEF Pooled
    <2>2. \A q \in Call : pc'[q] \in {"make", "store"} => pools' # q
      BY <1>1, Zenon DEF Pooled
    <2>3. \A q \in Call : \/ idle'[q] = <<>> \/ pools' = q
                          \/ (pc'[q] = "store" /\ \E c \in Conn : idle'[q] = <<c>>)
      BY <1>1, <1>7, <1>8 DEF Pooled
    <2> QED
      BY <2>1, <2>2, <2>3, Zenon DEF Pooled
  <1>11. Owned'
    <2>1. \A q \in Call : uses(q)' => conn'[q] \in Conn /\ cli'[conn'[q]] = "open"
      BY <1>3, <1>5, <1>6, Zenon DEF Owned
    <2>2. \A q, r \in Call : uses(q)' /\ uses(r)' /\ conn'[q] = conn'[r] => q = r
      BY <1>3, <1>5, <1>6, Zenon DEF Owned
    <2>3. \A r, q \in Call : uses(r)' => conn'[r] \notin pooled(q)'
      BY <1>3, <1>5, <1>7 DEF Owned
    <2>4. \A q \in Call : Once(idle'[q]) /\ \A c \in pooled(q)' : cli'[c] = "open"
      BY <1>6, <1>7, <1>9 DEF Owned
    <2>5. \A q, r \in Call : q # r => \A c \in pooled(q)' : c \notin pooled(r)'
      BY <1>7 DEF Owned
    <2> QED
      BY <2>1, <2>2, <2>3, <2>4, <2>5, Zenon DEF Owned
  <1>12. Past'
    <2>1. \A q \in Call : conn'[q] # None => (uses(q)' \/ pc'[q] = "done") /\ cli'[conn'[q]] # "new"
      BY <1>1, <1>3, <1>5, <1>6 DEF Past
    <2>2. \A q \in Call : resp'[q] # None => pc'[q] \in {"put", "done"} /\ conn'[q] # None
      BY <1>1, <1>2, <1>5, Zenon DEF Past
    <2> QED
      BY <2>1, <2>2, Zenon DEF Past
  <1>13. NoneLost'
    <2> SUFFICES ASSUME NEW c \in Conn, cli'[c] = "open"
                 PROVE  \E q \in Call : \/ pools' = q /\ c \in pooled(q)'
                                        \/ pc'[q] = "store" /\ idle'[q] = <<c>>
                                        \/ uses(q)' /\ conn'[q] = c
      BY Zenon DEF NoneLost
    <2>1. CASE c = f
      BY <1>3, <1>5, <2>1, Zenon
    <2>2. CASE c # f
      <3>1. PICK q \in Call : \/ pools = q /\ c \in pooled(q)
                              \/ pc[q] = "store" /\ idle[q] = <<c>>
                              \/ uses(q) /\ conn[q] = c
        BY <1>6, <2>2, Zenon DEF NoneLost
      <3>2. CASE pools = q /\ c \in pooled(q)
        BY <1>1, <1>7, <2>2, <3>2, Zenon
      <3>3. CASE pc[q] = "store" /\ idle[q] = <<c>>
        BY <1>1, <1>7, <1>8, <3>3, Zenon DEF Pooled
      <3>4. CASE uses(q) /\ conn[q] = c
        BY <1>3, <1>5, <3>4, Zenon
      <3> QED
        BY <3>1, <3>2, <3>3, <3>4, Zenon
    <2> QED
      BY <2>1, <2>2, Zenon
  <1> QED
    BY <1>10, <1>11, <1>12, <1>13, Zenon

\* The connection goes back to the pool, or is closed.
LEMMA PutBackHeld == ASSUME CInv, NEW p \in Call, PutBack(p) PROVE Held'
  <1> USE DEF CInv, Held
  <1>0. /\ pc \in [Call -> {"start", "make", "store", "get", "write", "read", "put", "done"}]
        /\ idle \in [Call -> Seq(Conn)] /\ cli \in [Conn -> {"new", "open", "closed"}]
        /\ conn \in [Call -> Conn \cup {None}]
    BY Zenon DEF TypeOK
  <1>1. /\ pc[p] = "put" /\ pc'[p] = "done" /\ \A q \in Call : q # p => pc'[q] = pc[q]
        /\ UNCHANGED <<pools, cpool, resp, conn>>
    BY <1>0, Zenon DEF PutBack, goto
  <1>2. uses(p) /\ ~uses(p)' /\ \A q \in Call : q # p => (uses(q)' <=> uses(q))
    BY <1>1, Zenon DEF uses
  <1>3. PICK a \in Call, f \in Conn : a = pools /\ cpool[p] = a /\ f = conn[p] /\ cli[f] = "open"
    <2>1. pools \in Call /\ cpool[p] = pools /\ conn[p] \in Conn /\ cli[conn[p]] = "open"
      BY <1>2, Zenon DEF Pooled, Owned
    <2> QED
      BY <2>1, Zenon
  <1>4. \/ idle' = [idle EXCEPT ![a] = Append(idle[a], f)] /\ cli' = cli
        \/ idle' = idle /\ cli' = [cli EXCEPT ![f] = "closed"]
    BY <1>3, Zenon DEF PutBack
  <1>5. /\ \A q \in Call : f \notin pooled(q)
        /\ \A q \in Call : q # p /\ uses(q) => conn[q] # f
    BY <1>2, <1>3, Zenon DEF Owned
  <1>6. /\ \A q \in Call : q # a => idle'[q] = idle[q]
        /\ \A c \in Conn : c # f => cli'[c] = cli[c]
        /\ cli'[f] \in {"open", "closed"}
        /\ \A q \in Call : Once(idle'[q]) /\ \A c \in pooled(q)' : c \in pooled(q) \/ (c = f /\ q = a /\ cli'[f] = "open")
        /\ \A q \in Call : \A c \in pooled(q) : c \in pooled(q)'
        /\ cli'[f] = "open" => f \in pooled(a)'
    <2>1. CASE idle' = [idle EXCEPT ![a] = Append(idle[a], f)] /\ cli' = cli
      <3>1. idle'[a] = Append(idle[a], f) /\ \A q \in Call : q # a => idle'[q] = idle[q]
        BY <1>0, <1>3, <2>1, Zenon
      <3>2. idle[a] \in Seq(Conn) /\ Once(idle[a]) /\ f \notin Items(idle[a])
        BY <1>0, <1>3, <1>5, Zenon DEF Owned, pooled
      <3>3. Items(Append(idle[a], f)) = Items(idle[a]) \cup {f} /\ Once(Append(idle[a], f))
        BY <1>3, <3>2, ItemsAppend
      <3>4. pooled(a)' = pooled(a) \cup {f} /\ Once(idle'[a])
        BY <3>1, <3>3, Zenon DEF pooled
      <3>5. \A q \in Call : q # a => pooled(q)' = pooled(q) /\ Once(idle'[q])
        BY <3>1, Zenon DEF pooled, Owned
      <3>6. \A q \in Call : Once(idle'[q]) /\ \A c \in pooled(q)' : c \in pooled(q) \/ (c = f /\ q = a /\ cli'[f] = "open")
        BY <1>3, <2>1, <3>4, <3>5, Zenon
      <3>7. \A q \in Call : \A c \in pooled(q) : c \in pooled(q)'
        BY <3>4, <3>5, Zenon
      <3> QED
        BY <1>3, <2>1, <3>1, <3>4, <3>6, <3>7, Zenon
    <2>2. CASE idle' = idle /\ cli' = [cli EXCEPT ![f] = "closed"]
      <3>1. cli'[f] = "closed" /\ \A c \in Conn : c # f => cli'[c] = cli[c]
        BY <1>0, <1>3, <2>2, Zenon
      <3> QED
        BY <2>2, <3>1, Zenon DEF pooled, Owned
    <2> QED
      BY <1>4, <2>1, <2>2, Zenon
  <1>7. a = pools /\ f = conn[p]
    BY <1>3, Zenon
  <1>8. \A q \in Call : \A c \in pooled(q) : c \in Conn
    BY <1>0 DEF pooled, Items
  <1>9. Pooled'
    <2>1. \A q \in Call : pc'[q] = "get" \/ uses(q)' => cpool'[q] = pools' /\ pools' \in Call
      BY <1>1, <1>2, Zenon DEF Pooled
    <2>2. \A q \in Call : pc'[q] \in {"make", "store"} => pools' # q
      BY <1>1, Zenon DEF Pooled
    <2>3. \A q \in Call : \/ idle'[q] = <<>> \/ pools' = q
                          \/ (pc'[q] = "store" /\ \E c \in Conn : idle'[q] = <<c>>)
      BY <1>1, <1>6, <1>7 DEF Pooled
    <2> QED
      BY <2>1, <2>2, <2>3, Zenon DEF Pooled
  <1>10. Owned'
    <2>1. \A q \in Call : uses(q)' => conn'[q] \in Conn /\ cli'[conn'[q]] = "open"
      BY <1>1, <1>2, <1>5, <1>6 DEF Owned
    <2>2. \A q, r \in Call : uses(q)' /\ uses(r)' /\ conn'[q] = conn'[r] => q = r
      BY <1>1, <1>2, Zenon DEF Owned
    <2>3. \A r, q \in Call : uses(r)' => conn'[r] \notin pooled(q)'
      BY <1>1, <1>2, <1>5, <1>6 DEF Owned
    <2>4. \A q \in Call : Once(idle'[q]) /\ \A c \in pooled(q)' : cli'[c] = "open"
      BY <1>5, <1>6, <1>8 DEF Owned
    <2>5. \A q, r \in Call : q # r => \A c \in pooled(q)' : c \notin pooled(r)'
      BY <1>5, <1>6 DEF Owned
    <2> QED
      BY <2>1, <2>2, <2>3, <2>4, <2>5, Zenon DEF Owned
  <1>11. Past'
    <2>1. \A q \in Call : conn'[q] # None => (uses(q)' \/ pc'[q] = "done") /\ cli'[conn'[q]] # "new"
      BY <1>0, <1>1, <1>2, <1>6 DEF Past
    <2>2. \A q \in Call : resp'[q] # None => pc'[q] \in {"put", "done"} /\ conn'[q] # None
      BY <1>1, Zenon DEF Past
    <2> QED
      BY <2>1, <2>2, Zenon DEF Past
  <1>12. NoneLost'
    <2> SUFFICES ASSUME NEW c \in Conn, cli'[c] = "open"
                 PROVE  \E q \in Call : \/ pools' = q /\ c \in pooled(q)'
                                        \/ pc'[q] = "store" /\ idle'[q] = <<c>>
                                        \/ uses(q)' /\ conn'[q] = c
      BY Zenon DEF NoneLost
    <2>1. CASE c = f
      BY <1>1, <1>3, <1>6, <1>7, <2>1, Zenon
    <2>2. CASE c # f
      <3>1. PICK q \in Call : \/ pools = q /\ c \in pooled(q)
                              \/ pc[q] = "store" /\ idle[q] = <<c>>
                              \/ uses(q) /\ conn[q] = c
        BY <1>6, <2>2, Zenon DEF NoneLost
      <3>2. CASE pools = q /\ c \in pooled(q)
        BY <1>1, <1>6, <2>2, <3>2, Zenon
      <3>3. CASE pc[q] = "store" /\ idle[q] = <<c>>
        BY <1>1, <1>6, <1>7, <3>3 DEF Pooled
      <3>4. CASE uses(q) /\ conn[q] = c
        BY <1>1, <1>2, <1>7, <2>2, <3>4, Zenon
      <3> QED
        BY <3>1, <3>2, <3>3, <3>4, Zenon
    <2> QED
      BY <2>1, <2>2, Zenon
  <1> QED
    BY <1>9, <1>10, <1>11, <1>12, Zenon

\* Client.Close closes what is in the pool.
LEMMA CloseHeld == ASSUME CInv, Close PROVE Held'
  <1> USE DEF CInv, Held
  <1>0. /\ idle \in [Call -> Seq(Conn)] /\ cli \in [Conn -> {"new", "open", "closed"}]
        /\ conn \in [Call -> Conn \cup {None}] /\ pools \in Call \cup {None}
    BY Zenon DEF TypeOK
  <1>1. UNCHANGED <<pc, cpool, resp, conn, pools>>
    BY Zenon DEF Close
  <1>2. \A q \in Call : uses(q)' <=> uses(q)
    BY <1>1, Zenon DEF uses
  <1>3. \A c \in Conn : cli'[c] = IF c \in Items(idle[pools]) THEN "closed" ELSE cli[c]
    BY ItemsAt, Zenon DEF Close
  <1>4. /\ \A q \in Call : q # pools => idle'[q] = idle[q]
        /\ \A q \in Call : q = pools => idle'[q] = <<>>
    BY <1>0, Zenon DEF Close
  <1>5. Items(<<>>) = {} /\ Once(<<>>)
    BY DEF Items, Once
  <1>6. /\ \A q \in Call : q # pools => pooled(q)' = pooled(q)
        /\ \A q \in Call : q = pools => pooled(q)' = {}
        /\ \A q \in Call : Once(idle'[q])
    BY <1>4, <1>5, Zenon DEF pooled, Owned
  <1>7. \A q \in Call : \A c \in pooled(q) : c \in Conn
    BY <1>0 DEF pooled, Items
  <1>8. CASE pools \in Call
    <2>1. \A c \in Conn : c \notin pooled(pools) => cli'[c] = cli[c]
      BY <1>3, Zenon DEF pooled
    <2>2. \A c \in Conn : c \in pooled(pools) => cli'[c] = "closed"
      BY <1>3, Zenon DEF pooled
    <2>3. Pooled'
      BY <1>1, <1>2, <1>4, Zenon DEF Pooled
    <2>4. Owned'
      <3>1. \A q \in Call : uses(q)' => conn'[q] \in Conn /\ cli'[conn'[q]] = "open"
        BY <1>1, <1>2, <1>8, <2>1, Zenon DEF Owned
      <3>2. \A q, r \in Call : uses(q)' /\ uses(r)' /\ conn'[q] = conn'[r] => q = r
        BY <1>1, <1>2, Zenon DEF Owned
      <3>3. \A r, q \in Call : uses(r)' => conn'[r] \notin pooled(q)'
        BY <1>1, <1>2, <1>6 DEF Owned
      <3>4. \A q \in Call : \A c \in pooled(q)' : cli'[c] = "open"
        BY <1>6, <1>7, <1>8, <2>1 DEF Owned
      <3>5. \A q, r \in Call : q # r => \A c \in pooled(q)' : c \notin pooled(r)'
        BY <1>6 DEF Owned
      <3> QED
        BY <1>6, <3>1, <3>2, <3>3, <3>4, <3>5, Zenon DEF Owned
    <2>5. Past'
      BY <1>0, <1>1, <1>2, <1>3 DEF Past
    <2>6. NoneLost'
      <3> SUFFICES ASSUME NEW c \in Conn, cli'[c] = "open"
                   PROVE  \E q \in Call : \/ pools' = q /\ c \in pooled(q)'
                                          \/ pc'[q] = "store" /\ idle'[q] = <<c>>
                                          \/ uses(q)' /\ conn'[q] = c
        BY Zenon DEF NoneLost
      <3>1. c \notin pooled(pools) /\ cli[c] = "open"
        BY <2>1, <2>2, Zenon
      <3>2. PICK q \in Call : \/ pools = q /\ c \in pooled(q)
                              \/ pc[q] = "store" /\ idle[q] = <<c>>
                              \/ uses(q) /\ conn[q] = c
        BY <3>1, Zenon DEF NoneLost
      <3>3. pc[q] = "store" => q # pools
        BY Zenon DEF Pooled
      <3> QED
        BY <1>1, <1>2, <1>4, <3>1, <3>2, <3>3, Zenon
    <2> QED
      BY <2>3, <2>4, <2>5, <2>6, Zenon
  <1>9. pools \in Call
    BY <1>0, Zenon DEF Close, TypeOK
  <1> QED
    BY <1>8, <1>9, Zenon

\* Whatever the step, connections stay where they are known to be.
LEMMA NextHeld == ASSUME TInv, CInv, [Next]_vars PROVE Held'
  <1>1. ASSUME UNCHANGED clientvars, cli' = cli PROVE Held'
    <2>1. UNCHANGED <<pc, cpool, conn, idle, cli, pools, resp>>
      BY <1>1, Zenon DEF clientvars
    <2>2. \A q \in Call : uses(q)' <=> uses(q)
      BY <2>1, Zenon DEF uses
    <2>3. \A q \in Call : resp'[q] # None => pc'[q] \in {"put", "done"} /\ conn[q] # None
      BY <2>1, Zenon DEF CInv, Held, Past
    <2>4. \A q \in Call : pc'[q] = "get" \/ uses(q)' => cpool'[q] = pools /\ pools \in Call
      BY <2>1, <2>2, Zenon DEF CInv, Held, Pooled
    <2>5. \A q \in Call : pc'[q] \in {"make", "store"} => pools # q
      BY <2>1, Zenon DEF CInv, Held, Pooled
    <2> QED
      BY <2>1, <2>2, <2>3, <2>4, <2>5, HeldQuiet, Zenon
  <1>2. CASE ServerStep \/ Shutdown \/ ShutdownExpires
    <2>1. UNCHANGED <<clientvars, cli>>
      BY <1>2, Zenon DEF ServerStep, Listen, Accept, AcceptFails, HandOver, StarterReturns, CloseListener,
                  ShutdownReturns, Shutdown, ShutdownExpires, shutdownvars, netvars
    <2> QED
      BY <1>1, <2>1, Zenon
  <1>3. CASE \E c \in Conn : ConnStep(c) \/ CloserStep(c)
    <2>1. UNCHANGED <<clientvars, cli>>
      BY <1>3, Zenon DEF ConnStep, ReadRequest, MarkBusy, UnknownOp, Execute, WriteAnswer, WriteError, HandlerReturns,
                  handlervars, CloserStep, CloserChecks, CloserCloses, closervars
    <2> QED
      BY <1>1, <2>1, Zenon
  <1>4. CASE \E p \in Call : CallStep(p)
    BY <1>4, CallQuiet, NewPoolHeld, StorePoolHeld, GetConnHeld, PutBackHeld, Zenon DEF CallStep
  <1>5. CASE Close
    BY <1>5, CloseHeld, Zenon
  <1>6. CASE UNCHANGED vars
    BY <1>1, <1>6, Zenon DEF vars, netvars
  <1> QED
    BY <1>2, <1>3, <1>4, <1>5, <1>6, Zenon DEF Next

-----------------------------------------------------------------------------
(* The server. *)

\* What the steps do to a connection at the server's end.
LEMMA NextServed == ASSUME TInv, CInv, [Next]_vars PROVE Served'
  <1> USE DEF CInv
  <1>0. /\ srv \in [Conn -> {"new", "backlog", "open", "closed"}] /\ busy \subseteq Conn
        /\ handler \in [Conn -> {"none", "read", "got", "error", "execute", "write", "returned"}]
        /\ closer \in [Conn -> {"none", "select", "close", "returned"}]
        /\ backlog \in Seq(Conn) /\ (acceptor = "send" => held \in Conn)
    BY Zenon DEF TypeOK, TInv, CTypeOK
  <1>1. \A i \in 1..Len(backlog) : backlog[i] \in Conn
    BY <1>0
  <1>2. ASSUME UNCHANGED <<busy, handler, closer, srv, cancelled, acceptor, held, backlog>> PROVE Served'
    BY <1>2, Zenon DEF Served
  <1>3. CASE Listen \/ AcceptFails
    BY <1>3 DEF Listen, AcceptFails, Served, netvars
  <1>4. CASE StarterReturns \/ ShutdownReturns \/ ShutdownExpires
    BY <1>2, <1>4, Zenon DEF StarterReturns, ShutdownReturns, ShutdownExpires, shutdownvars, netvars
  <1>5. CASE Shutdown
    BY <1>5, Zenon DEF Shutdown, Served, shutdownvars
  <1>6. CASE Accept
    <2>1. /\ held' = backlog[1] /\ 1 \in 1..Len(backlog) /\ held' \in Conn
          /\ Len(backlog') = Len(backlog) - 1
          /\ \A i \in 1..Len(backlog') : backlog'[i] = backlog[i + 1] /\ i + 1 \in 1..Len(backlog) /\ i + 1 # 1
      BY <1>0, <1>6 DEF Accept
    <2>2. srv'[held'] = "open" /\ \A c \in Conn : c # held' => srv'[c] = srv[c]
      BY <1>0, <1>6, <2>1, Zenon DEF Accept
    <2>3. \A i \in 1..Len(backlog') : srv'[backlog'[i]] = "backlog"
      BY <1>1, <2>1, <2>2 DEF Served, TInv, Fresh
    <2>4. UNCHANGED <<busy, handler, closer, cancelled>>
      BY <1>6, Zenon DEF Accept
    <2>5. ~cancelled => \A c \in Conn : handler[c] \notin {"none", "returned"} => closer[c] = "select" /\ srv'[c] = "open"
      BY <2>2, Zenon DEF Served
    <2> QED
      BY <2>2, <2>3, <2>4, <2>5, Zenon DEF Served
  <1>7. CASE HandOver
    <2>1. /\ held \in Conn /\ srv[held] = "open" /\ handler[held] = "none"
          /\ UNCHANGED <<busy, srv, cancelled, backlog>> /\ acceptor' = "accept"
      BY <1>0, <1>7, Zenon DEF HandOver, Served, netvars, TInv, Fresh
    <2>2. /\ handler'[held] = "read" /\ closer'[held] = "select"
          /\ \A c \in Conn : c # held => handler'[c] = handler[c] /\ closer'[c] = closer[c]
      BY <1>0, <1>7, <2>1, Zenon DEF HandOver
    <2>3. \A c \in Conn : c \in busy <=> handler'[c] \in {"execute", "write"}
      BY <2>1, <2>2, Zenon DEF Served
    <2> QED
      BY <2>1, <2>2, <2>3 DEF Served
  <1>8. CASE CloseListener
    <2>1. /\ UNCHANGED <<busy, handler, closer, cancelled, acceptor, held>> /\ backlog' = <<>>
          /\ \A c \in Conn : srv'[c] = IF srv[c] = "backlog" THEN "closed" ELSE srv[c]
      BY <1>8, Zenon DEF CloseListener, shutdownvars
    <2>2. acceptor = "send" => srv'[held] = "open"
      BY <1>0, <2>1, Zenon DEF Served
    <2>3. ~cancelled => \A c \in Conn : handler[c] \notin {"none", "returned"} => closer[c] = "select" /\ srv'[c] = "open"
      BY <2>1, Zenon DEF Served
    <2> QED
      BY <2>1, <2>2, <2>3 DEF Served
  <1>9. ASSUME NEW c \in Conn, ConnStep(c) PROVE Served'
    <2>1. UNCHANGED <<closer, srv, cancelled, acceptor, held, backlog>> /\ handler[c] \notin {"none", "returned"}
      BY <1>9, Zenon DEF ConnStep, ReadRequest, MarkBusy, UnknownOp, Execute, WriteAnswer, WriteError, HandlerReturns, handlervars
    <2>2. PICK st \in {"got", "error", "execute", "write", "read", "returned"} :
             /\ handler' = [handler EXCEPT ![c] = st]
             /\ busy' = IF st \in {"execute", "write"} THEN busy \cup {c} ELSE busy \ {c}
      <3>1. handler[c] \notin {"execute", "write"} => busy = busy \ {c}
        BY Zenon DEF Served
      <3>2. handler[c] = "execute" => busy = busy \cup {c}
        BY Zenon DEF Served
      <3>3. CASE ReadRequest(c)
        BY <3>1, <3>3, Zenon DEF ReadRequest
      <3>4. CASE MarkBusy(c)
        BY <3>4, Zenon DEF MarkBusy
      <3>5. CASE Execute(c)
        BY <3>2, <3>5, Zenon DEF Execute
      <3>6. CASE UnknownOp(c) \/ WriteAnswer(c) \/ HandlerReturns(c)
        BY <3>6, Zenon DEF UnknownOp, WriteAnswer, HandlerReturns
      <3>7. CASE WriteError(c)
        BY <3>1, <3>7, Zenon DEF WriteError
      <3> QED
        BY <1>9, <3>3, <3>4, <3>5, <3>6, <3>7, Zenon DEF ConnStep
    <2>3. handler'[c] = st /\ \A d \in Conn : d # c => handler'[d] = handler[d]
      BY <1>0, <2>2, Zenon
    <2>4. \A d \in Conn : d \in busy' <=> handler'[d] \in {"execute", "write"}
      BY <2>2, <2>3, Zenon DEF Served
    <2>5. ~cancelled => \A d \in Conn : handler'[d] \notin {"none", "returned"} => closer[d] = "select" /\ srv[d] = "open"
      BY <2>1, <2>3, Zenon DEF Served
    <2> QED
      BY <2>1, <2>4, <2>5, Zenon DEF Served
  <1>10. ASSUME NEW c \in Conn, CloserStep(c) PROVE Served'
    <2>1. UNCHANGED <<busy, handler, cancelled, acceptor, held, backlog>>
      BY <1>10, Zenon DEF CloserStep, CloserChecks, CloserCloses, closervars
    <2>2. closer[c] \in {"select", "close"} /\ (cancelled \/ handler[c] \in {"none", "returned"})
      <3>1. CASE CloserChecks(c)
        BY <3>1, Zenon DEF CloserChecks
      <3>2. CASE CloserCloses(c)
        BY <3>2, Zenon DEF CloserCloses, Served
      <3> QED
        BY <1>10, <3>1, <3>2, Zenon DEF CloserStep
    <2>3. /\ \A d \in Conn : d # c => closer'[d] = closer[d] /\ srv'[d] = srv[d]
      <3>1. CASE CloserChecks(c)
        BY <1>0, <3>1, Zenon DEF CloserChecks
      <3>2. CASE CloserCloses(c)
        BY <1>0, <3>2, Zenon DEF CloserCloses
      <3> QED
        BY <1>10, <3>1, <3>2, Zenon DEF CloserStep
    <2>4. /\ acceptor = "send" => held # c /\ held \in Conn
          /\ \A i \in 1..Len(backlog) : backlog[i] # c
      BY <1>0, <2>2, Zenon DEF TInv, Fresh
    <2>5. /\ acceptor = "send" => srv'[held] = "open"
          /\ \A i \in 1..Len(backlog) : srv'[backlog[i]] = "backlog"
      BY <1>1, <2>3, <2>4 DEF Served
    <2>6. ~cancelled => \A d \in Conn : handler[d] \notin {"none", "returned"} => closer'[d] = "select" /\ srv'[d] = "open"
      BY <2>2, <2>3 DEF Served
    <2> QED
      BY <2>1, <2>5, <2>6, Zenon DEF Served
  <1>11. ASSUME Dial(fresh), UNCHANGED <<busy, handler, closer, cancelled, acceptor, held>> PROVE Served'
    <2>1. PICK f \in Conn : /\ cli[f] = "new" /\ srv' = [srv EXCEPT ![f] = "backlog"]
                            /\ backlog' = Append(backlog, f)
      BY <1>11, Dialled, Zenon DEF Dial
    <2>2. srv'[f] = "backlog" /\ \A c \in Conn : c # f => srv'[c] = srv[c]
      BY <1>0, <2>1, Zenon
    <2>3. /\ Len(backlog') = Len(backlog) + 1 /\ Len(backlog) \in Nat /\ backlog'[Len(backlog) + 1] = f
          /\ \A i \in 1..Len(backlog) : backlog'[i] = backlog[i]
      BY <1>0, <2>1
    <2>4. \A i \in 1..Len(backlog') : i \in 1..Len(backlog) \/ i = Len(backlog) + 1
      BY <2>3
    <2>5. \A i \in 1..Len(backlog') : srv'[backlog'[i]] = "backlog"
      BY <1>1, <2>2, <2>3, <2>4 DEF Served
    <2>6. handler[f] = "none" /\ (acceptor = "send" => held # f)
      BY <2>1, Zenon DEF TInv, Fresh
    <2>7. acceptor = "send" => srv'[held] = "open"
      BY <1>0, <2>2, <2>6, Zenon DEF Served
    <2>8. ~cancelled => \A c \in Conn : handler[c] \notin {"none", "returned"} => closer[c] = "select" /\ srv'[c] = "open"
      BY <2>2, <2>6 DEF Served
    <2> QED
      BY <1>11, <2>5, <2>7, <2>8, Zenon DEF Served
  <1>12. ASSUME NEW p \in Call, NewPool(p) \/ GetConn(p) PROVE Served'
    <2>1. UNCHANGED <<busy, handler, closer, cancelled, acceptor, held>>
      BY <1>12, Zenon DEF NewPool, GetConn, dialvars
    <2>2. Dial(fresh) \/ UNCHANGED <<srv, backlog>>
      BY <1>12, Zenon DEF NewPool, GetConn
    <2> QED
      BY <1>2, <1>11, <2>1, <2>2, Zenon
  <1>13. ASSUME UNCHANGED <<servervars, srv>> PROVE Served'
    BY <1>2, <1>13, Zenon DEF servervars
  <1>14. CASE \E p \in Call : CallStep(p)
    <2>1. ASSUME NEW p \in Call, GetPool(p) \/ StorePool(p) \/ GetFails(p) \/ WriteRequest(p)
                                 \/ ReadAnswer(p) \/ RequestFails(p) \/ PutBack(p)
          PROVE  UNCHANGED <<servervars, srv>>
      BY <2>1, Zenon DEF GetPool, StorePool, GetFails, WriteRequest, ReadAnswer, RequestFails, PutBack, callvars, netvars
    <2> QED
      BY <1>12, <1>13, <1>14, <2>1, Zenon DEF CallStep
  <1>15. CASE Close \/ UNCHANGED vars
    BY <1>13, <1>15, Zenon DEF Close, callvars, vars, netvars
  <1> QED
    BY <1>3, <1>4, <1>5, <1>6, <1>7, <1>8, <1>9, <1>10, <1>14, <1>15, Zenon DEF Next, ServerStep

\* A connection that was not dialled is not known to the server.
LEMMA NextUnborn == ASSUME TInv, CInv, [Next]_vars PROVE Unborn'
  <1> USE DEF CInv
  <1>0. /\ srv \in [Conn -> {"new", "backlog", "open", "closed"}] /\ cli \in [Conn -> {"new", "open", "closed"}]
        /\ backlog \in Seq(Conn) /\ conn \in [Call -> Conn \cup {None}]
    BY Zenon DEF TypeOK, TInv, CTypeOK
  <1>1. CASE ServerStep \/ Shutdown \/ ShutdownExpires
    <2>1. cli' = cli
      BY <1>1, Zenon DEF ServerStep, Listen, Accept, AcceptFails, HandOver, StarterReturns, CloseListener,
                  ShutdownReturns, Shutdown, ShutdownExpires, shutdownvars, netvars
    <2>2. CASE Accept
      <3>1. srv' = [srv EXCEPT ![backlog[1]] = "open"] /\ 1 \in 1..Len(backlog)
        BY <1>0, <2>2 DEF Accept
      <3>2. cli[backlog[1]] # "new"
        BY <3>1, Zenon DEF TInv, Fresh
      <3> QED
        BY <1>0, <2>1, <3>1, <3>2, Zenon DEF Unborn
    <2>3. CASE CloseListener
      BY <2>1, <2>3, Zenon DEF CloseListener, Unborn
    <2>4. CASE ~Accept /\ ~CloseListener
      <3>1. srv' = srv
        BY <1>1, <2>4, Zenon DEF ServerStep, Listen, AcceptFails, HandOver, StarterReturns,
                  ShutdownReturns, Shutdown, ShutdownExpires, netvars
      <3> QED
        BY <2>1, <3>1, Zenon DEF Unborn
    <2> QED
      BY <2>2, <2>3, <2>4, Zenon
  <1>2. ASSUME NEW c \in Conn, ConnStep(c) \/ CloserStep(c) PROVE Unborn'
    <2>1. cli' = cli /\ (srv' = srv \/ (closer[c] = "close" /\ srv' = [srv EXCEPT ![c] = "closed"]))
      BY <1>2, Zenon DEF ConnStep, ReadRequest, MarkBusy, UnknownOp, Execute, WriteAnswer, WriteError, HandlerReturns,
                  handlervars, CloserStep, CloserChecks, CloserCloses, closervars
    <2>2. closer[c] = "close" => cli[c] # "new"
      BY Zenon DEF TInv, Fresh
    <2> QED
      BY <1>0, <2>1, <2>2, Zenon DEF Unborn
  <1>3. ASSUME Dial(fresh) PROVE Unborn'
    <2>1. PICK f \in Conn : cli' = [cli EXCEPT ![f] = "open"] /\ srv' = [srv EXCEPT ![f] = "backlog"]
      BY <1>3, Dialled, Zenon
    <2> QED
      BY <1>0, <2>1, Zenon DEF Unborn
  <1>4. ASSUME srv' = srv, \A c \in Conn : cli'[c] = "new" => cli[c] = "new" PROVE Unborn'
    BY <1>4, Zenon DEF Unborn
  <1>5. ASSUME NEW p \in Call, CallStep(p) PROVE Unborn'
    <2>1. CASE NewPool(p) \/ GetConn(p)
      BY <1>3, <1>4, <2>1, Zenon DEF NewPool, GetConn
    <2>2. CASE StorePool(p)
      BY <1>4, <2>2, Zenon DEF StorePool
    <2>3. CASE PutBack(p)
      <3>1. srv' = srv /\ (cli' = cli \/ cli' = [cli EXCEPT ![conn[p]] = "closed"])
        BY <2>3, Zenon DEF PutBack
      <3> QED
        BY <1>0, <1>4, <3>1, Zenon
    <2>4. CASE GetPool(p) \/ GetFails(p) \/ WriteRequest(p) \/ ReadAnswer(p) \/ RequestFails(p)
      BY <1>4, <2>4, Zenon DEF GetPool, GetFails, WriteRequest, ReadAnswer, RequestFails, netvars
    <2> QED
      BY <1>5, <2>1, <2>2, <2>3, <2>4, Zenon DEF CallStep
  <1>6. CASE Close
    BY <1>4, <1>6, Zenon DEF Close
  <1>7. CASE UNCHANGED vars
    BY <1>4, <1>7, Zenon DEF vars, netvars
  <1> QED
    BY <1>1, <1>2, <1>5, <1>6, <1>7, Zenon DEF Next

\* Shutdown is called before the context is cancelled.
LEMMA NextBegun == ASSUME CInv, [Next]_vars PROVE Begun'
  <1> USE DEF CInv
  <1>1. CASE Shutdown \/ CloseListener \/ ShutdownReturns \/ ShutdownExpires
    <2>1. shutdown' # "no"
      BY <1>1, Zenon DEF Shutdown, CloseListener, ShutdownReturns, ShutdownExpires
    <2> QED
      BY <2>1, Zenon DEF Begun
  <1>2. ASSUME UNCHANGED <<shutdown, cancelled>> PROVE Begun'
    BY <1>2, Zenon DEF Begun
  <1>3. CASE Listen \/ Accept \/ AcceptFails \/ HandOver \/ StarterReturns
    BY <1>2, <1>3, Zenon DEF Listen, Accept, AcceptFails, HandOver, StarterReturns
  <1>4. CASE \E c \in Conn : ConnStep(c) \/ CloserStep(c)
    BY <1>2, <1>4, Zenon DEF ConnStep, ReadRequest, MarkBusy, UnknownOp, Execute, WriteAnswer, WriteError, HandlerReturns,
                handlervars, CloserStep, CloserChecks, CloserCloses, closervars
  <1>5. CASE \E p \in Call : CallStep(p)
    BY <1>2, <1>5, Zenon DEF CallStep, GetPool, NewPool, StorePool, GetConn, GetFails, WriteRequest, ReadAnswer,
                RequestFails, PutBack, callvars, dialvars, servervars
  <1>6. CASE Close \/ UNCHANGED vars
    BY <1>2, <1>6, Zenon DEF Close, callvars, servervars, vars
  <1> QED
    BY <1>1, <1>3, <1>4, <1>5, <1>6, Zenon DEF Next, ServerStep
=============================================================================
