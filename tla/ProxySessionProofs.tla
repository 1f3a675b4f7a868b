------------------------- MODULE ProxySessionProofs -------------------------
(***************************************************************************)
(* The invariants of a session between the C++ client and the proxy, proved *)
(* for every set of calls and answers and any formats on which the two      *)
(* sides agree, one message at a time (FormatsAgree, which TLC evaluates    *)
(* for the formats of Wire).                                                *)
(*                                                                         *)
(* What is proved is that the stream stays in step.  The inductive          *)
(* invariant says, of a connection with no RDMA deadline passed, which      *)
(* requests can be under way (Requests), and of an open one what exactly is *)
(* in _mb and in either direction at each point of a call (Link, Incoming,  *)
(* Outgoing): at most one answer, and none that succeeded unless the call   *)
(* waits for it.  A closed connection returns nothing (Closed).             *)
(***************************************************************************)
EXTENDS ProxySession, TLAPS

(*------------------------ the inductive invariant ------------------------*)

request_message(tag, args) == <<Field("u32", tag)>> \o Request(tag, args)
answer_message(ser, tag, v) == <<Field("u32", 0)>> \o Response(ser, tag, v)
error_message(rc) == <<Field("u32", rc), Field("str", "what")>>

HelloMessage == [id |-> 0, whole |-> TRUE, body |-> <<>>]
CallMessage(n, tag, args) ==
    [id |-> n, whole |-> TRUE, body |-> request_message(tag, args)]

(* All messages a client can send in a connection that is in step.          *)
Messages ==
    {HelloMessage} \cup
    UNION {UNION {{CallMessage(n, tag, args) : args \in Arguments(n, tag)} : tag \in Tags} :
             n \in 1..MaxCalls}

ThisMessage == CallMessage(cl.n, cl.tag, cl.args)

IsCall(n, tag, args) == n \in 1..MaxCalls /\ tag \in Tags /\ args \in Arguments(n, tag)

ClientFields == {"pc", "n", "tag", "args", "late", "res", "answer"}
ProxyFields == {"pc", "ser", "last"}

Shape ==
    /\ cl = [f \in ClientFields |-> cl[f]]
    /\ srv = [f \in ProxyFields |-> srv[f]]
    /\ transport \in {"tcp", "rdma"} /\ cl.late \in BOOLEAN
    /\ sock \in {"open", "closed"}
    /\ cl.pc \in {"connect", "idle", "output", "size", "body"}
    /\ cl.n \in Nat /\ cl.n <= MaxCalls
    /\ cl.n > 0 => IsCall(cl.n, cl.tag, cl.args)
    /\ cl.pc \in {"output", "size", "body"} => cl.n > 0
    /\ cl.pc # "idle" => cl.res = NoResult /\ cl.answer = NoAnswer

(* A message of the current call is its request; so is what the proxy has   *)
(* parsed out of it.                                                        *)
Requests ==
    /\ out \in Seq(Messages)
    /\ \A i \in 1..Len(out) :
         /\ out[i].id \in Nat /\ out[i].id <= cl.n
         /\ out[i].id = cl.n /\ cl.n > 0 => out[i] = ThisMessage
    /\ srv.last.id \in Nat /\ srv.last.id <= cl.n
    /\ srv.last.id = cl.n /\ cl.n > 0 => srv.last.tag = cl.tag /\ srv.last.args = cl.args

(* Of every object the first update for it has taken effect.                *)
TakenEffect(objs, updates) ==
    \A u \in DOMAIN updates :
      (\A w \in 1..(u - 1) : updates[w].v[1] # updates[u].v[1])
        => objs[updates[u].v[1]] = Contents(updates[u])

(* The answer a, in the message body, to the call that waits for it.        *)
IsSuccess(objs, n, tag, args, a, body) ==
    /\ a.id = n /\ a.tag = tag /\ a.ser \in Versions
    /\ \E x \in Answers(n, a.ser, tag) : a.v = answer_of(objs, tag, args, x)
    /\ body = answer_message(a.ser, tag, a.v)
    /\ tag = 24 => TakenEffect(objs, args[4])

IsError(body) ==
    \E rc \in {UNKNOWN, UNKNOWN_OPERATION, PROTOCOL_VERSION_MISMATCH} :
      body = error_message(rc)

Size == [part |-> "size"]
Body(a, body) == [part |-> "body", body |-> body, answer |-> a]

(* An error, or the answer to the call that waits for it.                   *)
IsReply(a, body) ==
    \/ a.ok = FALSE /\ IsError(body)
    \/ /\ a.ok = TRUE /\ cl.pc \in {"size", "body"}
       /\ IsSuccess(objects, cl.n, cl.tag, cl.args, a, body)

Incoming ==
    \/ inp = <<>> /\ cl.pc # "body"
    \/ /\ cl.pc \in {"idle", "output", "size"}
       /\ \E a, body : IsReply(a, body) /\ inp = <<Size, Body(a, body)>>
    \/ /\ cl.pc = "body"
       /\ \E a, body : IsReply(a, body) /\ inp = <<Body(a, body)>>

(* What is under way to a proxy that is there, and that nothing else is.    *)
Outgoing ==
    /\ cl.pc = "connect" => srv.pc = "hello" /\ out = <<>> /\ inp = <<>>
    /\ cl.pc \in {"idle", "output"} =>
         inp = <<>> /\ out = IF srv.pc = "hello" THEN <<HelloMessage>> ELSE <<>>
    /\ cl.pc = "size" =>
         \/ inp = <<>> /\ out = IF srv.pc = "hello" THEN <<HelloMessage, ThisMessage>>
                                                    ELSE <<ThisMessage>>
         \/ inp # <<>> /\ srv.pc = "loop" /\ out = <<>>
    /\ cl.pc = "body" => srv.pc = "loop" /\ out = <<>>

(* What a call has returned.                                                *)
Returned ==
    /\ cl.res.st # "junk"
    /\ cl.res.st = "ok" =>
         /\ cl.answer.id = cl.n /\ cl.answer.tag = cl.tag /\ cl.answer.ok
         /\ IsResult(objects, cl.tag, cl.args, cl.answer.ser, cl.answer.v, cl.res.v)
         /\ cl.tag = 24 => TakenEffect(objects, cl.args[4])
    /\ cl.answer.ok /\ cl.answer.id = cl.n /\ cl.tag # 21 => cl.res.st = "ok"

Link ==
    /\ objects \in [Name -> Content]
    /\ srv.ser \in Versions
    /\ mb = IF cl.pc = "output" THEN request_message(cl.tag, cl.args) ELSE <<>>
    /\ Incoming
    /\ srv.pc # "gone" => srv.pc \in {"hello", "loop"} /\ Outgoing
    /\ cl.pc = "idle" => Returned

Closed == cl.late = TRUE /\ cl.pc \in {"idle", "output"} /\ cl.res.st \in {"none", "exn"}

SessionInv ==
    /\ Shape
    /\ InStep => Requests
    /\ InStep /\ sock = "open" => Link
    /\ InStep /\ sock = "closed" => Closed

(*------------------------------ the lemmas ------------------------------*)

(* The invariant holds of a new connection.                                 *)
LEMMA InitSession == Init => SessionInv
<1> SUFFICES ASSUME Init PROVE SessionInv
  OBVIOUS
<1>1. Shape
  BY SessionAssumption DEF Init, Shape, ClientFields, ProxyFields, NoResult, NoAnswer
<1>2. Requests
  BY DEF Init, Requests
<1>3. Link
  <2>1. objects \in [Name -> Content]
    BY SessionAssumption DEF Init
  <2>2. srv.ser \in Versions
    BY DEF Init, Versions
  <2>3. QED
    BY <2>1, <2>2 DEF Init, Link, Incoming, Outgoing
<1>4. sock = "open"
  BY DEF Init
<1>5. QED
  BY <1>1, <1>2, <1>3, <1>4 DEF SessionInv

(* The fields of the client's and of the proxy's state.                     *)
LEMMA SomeFields ==
    /\ {"pc", "n", "tag", "args", "late", "res", "answer"} \subseteq ClientFields
    /\ {"pc", "ser", "last"} \subseteq ProxyFields
BY Zenon DEF ClientFields, ProxyFields

(* Short sequences.                                                         *)
LEMMA Appended ==
    ASSUME NEW a, NEW b
    PROVE  Append(<<>>, a) = <<a>> /\ Append(<<a>>, b) = <<a, b>>
<1>1. <<>> \in Seq({a, b}) /\ <<a>> \in Seq({a, b}) /\ <<a, b>> \in Seq({a, b})
  OBVIOUS
<1>2. Append(<<a>>, b) \in Seq({a, b}) /\ Len(Append(<<a>>, b)) = 2
      /\ Append(<<a>>, b)[1] = a /\ Append(<<a>>, b)[2] = b
  BY <1>1, SMT
<1>3. \A s, t \in Seq({a, b}) : Len(s) = 2 /\ Len(t) = 2 /\ s[1] = t[1] /\ s[2] = t[2] => s = t
  BY SMT
<1>4. Len(<<a, b>>) = 2 /\ <<a, b>>[1] = a /\ <<a, b>>[2] = b
  OBVIOUS
<1>5. Append(<<a>>, b) = <<a, b>>
  BY <1>1, <1>2, <1>3, <1>4, Zenon
<1> QED
  BY <1>5, SMT

(* A connection that is in step has been so all along.                      *)
LEMMA InStepBefore ==
    ASSUME Shape, transport' = transport, cl.late => cl'.late, InStep' PROVE InStep
BY DEF InStep, Shape

(* The transport connected, the hello sent.                                 *)
LEMMA ConnectKeeps == ASSUME SessionInv, Connect PROVE SessionInv'
<1>1. /\ cl'.pc = "idle" /\ cl'.n = cl.n /\ cl'.tag = cl.tag /\ cl'.args = cl.args
      /\ cl'.late = cl.late /\ cl'.res = cl.res /\ cl'.answer = cl.answer
      /\ cl' = [f \in ClientFields |-> cl'[f]]
  BY SMT DEF SessionInv, Shape, ClientFields, Connect
<1>2. Shape'
  BY <1>1 DEF SessionInv, Shape, Connect
<1>3. ASSUME InStep' PROVE InStep
  BY <1>1, <1>3 DEF InStep, Connect
<1>4. ASSUME InStep' PROVE Requests'
  <2>1. InStep /\ Requests
    BY <1>3, <1>4 DEF SessionInv
  <2>2. out' = Append(out, HelloMessage) /\ HelloMessage \in Messages
    BY DEF Connect, HelloMessage, Messages
  <2>3. HelloMessage.id = 0 /\ cl.n \in Nat
    BY DEF HelloMessage, SessionInv, Shape
  <2>4. out' \in Seq(Messages) /\ Len(out') = Len(out) + 1
        /\ \A i \in 1..Len(out') : out'[i] = IF i = Len(out) + 1 THEN HelloMessage ELSE out[i]
    BY <2>1, <2>2, SMT DEF Requests
  <2>5. \A i \in 1..Len(out') : i = Len(out) + 1 \/ i \in 1..Len(out)
    BY <2>1, <2>4, SMT DEF Requests
  <2>6. ThisMessage' = ThisMessage
    BY <1>1 DEF ThisMessage
  <2>7. srv' = srv
    BY DEF Connect
  <2>8. QED
    BY <1>1, <2>1, <2>3, <2>4, <2>5, <2>6, <2>7, SMT DEF Requests
<1>5. ASSUME InStep', sock' = "open" PROVE Link'
  <2>1. Link /\ cl.pc = "connect"
    BY <1>3, <1>5 DEF SessionInv, Connect
  <2>2. inp = <<>> /\ mb = <<>>
    BY <2>1 DEF Link, Incoming
  <2>3. cl.res.st = "none" /\ cl.answer.ok = FALSE
    BY <2>1 DEF SessionInv, Shape, NoResult, NoAnswer
  <2> Append(<<>>, HelloMessage) = <<HelloMessage>>
    BY Appended, Zenon
  <2>4. srv.pc # "gone" => srv.pc = "hello" /\ out' = <<HelloMessage>>
    BY <2>1, Zenon DEF Link, Outgoing, Connect, HelloMessage
  <2>5. Incoming' /\ Returned'
    BY <1>1, <2>2, <2>3 DEF Incoming, Returned, Connect
  <2>6. QED
    BY <1>1, <2>1, <2>2, <2>4, <2>5 DEF Link, Outgoing, Connect
<1>6. sock = "closed" => ~InStep'
  BY <1>3 DEF SessionInv, Closed, Connect
<1>7. QED
  BY <1>2, <1>4, <1>5, <1>6 DEF SessionInv, Connect

(* A call begins: its number is new, so no message of it is under way.      *)
LEMMA CallKeeps ==
    ASSUME SessionInv, NEW tag \in Tags, NEW args \in Arguments(cl.n + 1, tag),
           Call(tag, args)
    PROVE  SessionInv'
<1>1. /\ cl'.pc \in {"idle", "output"} /\ cl'.n = cl.n + 1 /\ cl'.tag = tag
      /\ cl'.args = args /\ cl'.late = cl.late /\ cl'.res = NoResult
      /\ cl'.answer = NoAnswer
      /\ cl' = [f \in ClientFields |-> cl'[f]]
  <2> DEFINE started == [cl EXCEPT !.n = cl.n + 1, !.tag = tag, !.args = args,
                                   !.res = NoResult, !.answer = NoAnswer]
  <2>1. /\ started.pc = cl.pc /\ started.n = cl.n + 1 /\ started.tag = tag
        /\ started.args = args /\ started.late = cl.late /\ started.res = NoResult
        /\ started.answer = NoAnswer
        /\ started = [f \in ClientFields |-> started[f]]
    <3>1. cl = [f \in ClientFields |-> cl[f]]
      BY Zenon DEF SessionInv, Shape
    <3>2. QED
      BY <3>1, SomeFields, Zenon
  <2>2. cl.pc = "idle" /\ (cl' = started \/ cl' = [started EXCEPT !.pc = "output"])
    BY Zenon DEF Call
  <2> HIDE DEF started
  <2>3. CASE cl' = started
    BY <2>1, <2>2, <2>3, Zenon
  <2>4. CASE cl' = [started EXCEPT !.pc = "output"]
    BY <2>1, <2>4, SMT DEF ClientFields
  <2>5. QED
    BY <2>2, <2>3, <2>4
<1>2. cl.pc = "idle" /\ cl.n \in Nat /\ cl.n < MaxCalls /\ MaxCalls \in Nat
  BY SessionAssumption DEF Call, SessionInv, Shape
<1>11. \/ mb' = mb /\ cl'.pc = "idle"
       \/ /\ cl'.pc = "output"
          /\ mb' = mb \o <<Field("u32", tag)>> \o Request(tag, args)
  <2> DEFINE started == [cl EXCEPT !.n = cl.n + 1, !.tag = tag, !.args = args,
                                   !.res = NoResult, !.answer = NoAnswer]
  <2>1. cl.pc = "idle" => started.pc = "idle" /\ [started EXCEPT !.pc = "output"].pc = "output"
    BY SMT DEF SessionInv, Shape, ClientFields
  <2>2. QED
    BY <1>2, <2>1, Zenon DEF Call
<1>3. cl'.n \in Nat /\ cl'.n <= MaxCalls /\ cl'.n > 0 /\ cl'.n \in 1..MaxCalls
  BY <1>1, <1>2, SMT
<1>4. IsCall(cl.n + 1, tag, args)
  BY <1>1, <1>3, Zenon DEF IsCall
<1>5. Shape'
  BY <1>1, <1>3, <1>4 DEF SessionInv, Shape, Call
<1>6. ASSUME InStep' PROVE InStep
  BY <1>1, <1>6 DEF InStep, Call
<1>7. ASSUME InStep' PROVE Requests'
  <2>1. InStep /\ Requests
    BY <1>6, <1>7 DEF SessionInv
  <2>2. out' = out /\ srv' = srv
    BY DEF Call
  <2>3. \A i \in Nat : i <= cl.n => i <= cl'.n /\ i # cl'.n
    BY <1>1, <1>2, SMT
  <2>4. QED
    BY <2>1, <2>2, <2>3, Zenon DEF Requests
<1>8. ASSUME InStep', sock' = "open" PROVE Link'
  <2>1. Link
    BY <1>6, <1>8 DEF SessionInv, Call
  <2>2. cl'.res.st = "none" /\ cl'.answer.ok = FALSE
    BY <1>1 DEF NoResult, NoAnswer
  <2>3. Returned'
    BY <2>2, Zenon DEF Returned
  <2>4. mb' = IF cl'.pc = "output" THEN request_message(tag, args) ELSE <<>>
    <3>1. mb = <<>> /\ <<>> \o <<Field("u32", tag)>> = <<Field("u32", tag)>>
      BY <1>2, <2>1, SMT DEF Link
    <3>2. CASE mb' = mb /\ cl'.pc = "idle"
      BY <3>1, <3>2
    <3>3. CASE /\ cl'.pc = "output"
               /\ mb' = mb \o <<Field("u32", tag)>> \o Request(tag, args)
      BY <3>1, <3>3 DEF request_message
    <3>4. QED
      BY <1>11, <3>2, <3>3, Zenon
  <2>5. inp' = inp /\ out' = out /\ srv' = srv /\ objects' = objects
    BY DEF Call
  <2>6. Incoming'
    <3>1. CASE inp = <<>>
      BY <3>1, <1>1, <2>5 DEF Incoming
    <3>2. CASE inp # <<>>
      <4>1. PICK a, body : IsReply(a, body) /\ inp = <<Size, Body(a, body)>>
        BY <1>2, <2>1, <3>2 DEF Link, Incoming
      <4>2. IsReply(a, body)'
        BY <1>2, <4>1, Zenon DEF IsReply
      <4>3. QED
        BY <1>1, <2>5, <4>1, <4>2, Zenon DEF Incoming
    <3>3. QED
      BY <3>1, <3>2
  <2>7. srv.pc # "gone" => Outgoing'
    BY <1>1, <1>2, <2>1, <2>5 DEF Link, Outgoing
  <2>8. QED
    BY <1>1, <2>1, <2>3, <2>4, <2>5, <2>6, <2>7, Zenon DEF Link
<1>9. ASSUME InStep', sock' = "closed" PROVE Closed'
  <2>1. Closed
    BY <1>6, <1>9 DEF SessionInv, Call
  <2>2. QED
    BY <1>1, <2>1 DEF Closed, NoResult
<1>10. QED
  BY <1>5, <1>7, <1>8, <1>9 DEF SessionInv

(* What is in _mb is sent: it is this call's request and nothing else.      *)
LEMMA OutputKeeps == ASSUME SessionInv, Output PROVE SessionInv'
<1>1. /\ cl'.pc = "size" /\ cl'.n = cl.n /\ cl'.tag = cl.tag /\ cl'.args = cl.args
      /\ cl'.late = cl.late /\ cl'.res = cl.res /\ cl'.answer = cl.answer
      /\ cl' = [f \in ClientFields |-> cl'[f]]
  BY SMT DEF SessionInv, Shape, ClientFields, Output
<1>2. cl.pc = "output" /\ sock = "open" /\ sock' = "open" /\ cl.n \in Nat
      /\ cl.n > 0 /\ IsCall(cl.n, cl.tag, cl.args)
  BY DEF SessionInv, Shape, Output
<1>3. Shape'
  BY <1>1, <1>2 DEF SessionInv, Shape, Output
<1>4. ASSUME InStep' PROVE InStep /\ Requests /\ Link
  <2>1. InStep
    BY <1>1, <1>4 DEF InStep, Output
  <2>2. QED
    BY <1>2, <2>1, Zenon DEF SessionInv
<1>5. ASSUME InStep' PROVE out' = Append(out, ThisMessage) /\ mb' = <<>>
  BY <1>2, <1>4, <1>5, Zenon DEF Link, Output, ThisMessage, CallMessage
<1>6. ThisMessage' = ThisMessage
  BY <1>1, Zenon DEF ThisMessage
<1>7. ThisMessage \in Messages /\ ThisMessage.id = cl.n
  <2>1. ThisMessage.id = cl.n
    BY DEF ThisMessage, CallMessage
  <2>2. ThisMessage \in {CallMessage(cl.n, cl.tag, args) : args \in Arguments(cl.n, cl.tag)}
    BY <1>2, Zenon DEF ThisMessage, IsCall
  <2>3. ThisMessage \in UNION {{CallMessage(cl.n, tag, args) : args \in Arguments(cl.n, tag)} :
                                tag \in Tags}
    BY <1>2, <2>2, Zenon DEF IsCall
  <2> DEFINE Of(n) == UNION {{CallMessage(n, tag, args) : args \in Arguments(n, tag)} :
                               tag \in Tags}
  <2>4. ThisMessage \in Of(cl.n) /\ cl.n \in 1..MaxCalls
    BY <1>2, <2>3, Zenon DEF IsCall
  <2>5. Messages = {HelloMessage} \cup UNION {Of(n) : n \in 1..MaxCalls}
    BY Zenon DEF Messages
  <2> HIDE DEF Of
  <2>6. QED
    BY <2>1, <2>4, <2>5, Zenon
<1>8. ASSUME InStep' PROVE Requests'
  <2>1. out \in Seq(Messages)
    BY <1>4, <1>8, Zenon DEF Requests
  <2>2. out' \in Seq(Messages) /\ Len(out') = Len(out) + 1
        /\ \A i \in 1..Len(out') : out'[i] = IF i = Len(out) + 1 THEN ThisMessage ELSE out[i]
    BY <1>5, <1>7, <1>8, <2>1, SMT
  <2>3. \A i \in 1..Len(out') : i = Len(out) + 1 \/ i \in 1..Len(out)
    BY <2>1, <2>2, SMT
  <2>4. srv' = srv /\ cl.n <= cl.n
    BY <1>2, SMT DEF Output
  <2>5. QED
    BY <1>1, <1>2, <1>4, <1>6, <1>7, <1>8, <2>2, <2>3, <2>4, Zenon DEF Requests
<1>9. ASSUME InStep' PROVE Link'
  <2>1. inp' = inp /\ srv' = srv /\ objects' = objects
    BY DEF Output
  <2>2. Incoming'
    <3>1. CASE inp = <<>>
      BY <3>1, <1>1, <2>1 DEF Incoming
    <3>2. CASE inp # <<>>
      <4>1. PICK a, body : IsReply(a, body) /\ inp = <<Size, Body(a, body)>>
        BY <1>2, <1>4, <1>9, <3>2 DEF Link, Incoming
      <4>2. IsReply(a, body)'
        BY <1>2, <4>1, Zenon DEF IsReply
      <4>3. QED
        BY <1>1, <2>1, <4>1, <4>2, Zenon DEF Incoming
    <3>3. QED
      BY <3>1, <3>2
  <2>3. srv.pc # "gone" => Outgoing'
    <3>1. /\ Append(<<>>, ThisMessage) = <<ThisMessage>>
          /\ Append(<<HelloMessage>>, ThisMessage) = <<HelloMessage, ThisMessage>>
      BY Appended, Zenon
    <3>2. SUFFICES ASSUME srv.pc # "gone" PROVE Outgoing'
      OBVIOUS
    <3>3. inp = <<>> /\ out = IF srv.pc = "hello" THEN <<HelloMessage>> ELSE <<>>
      BY <1>2, <1>4, <1>9, <3>2 DEF Link, Outgoing
    <3>4. CASE srv.pc = "hello"
      BY <1>1, <1>5, <1>6, <1>9, <2>1, <3>1, <3>3, <3>4 DEF Outgoing
    <3>5. CASE srv.pc # "hello"
      BY <1>1, <1>5, <1>6, <1>9, <2>1, <3>1, <3>3, <3>5 DEF Outgoing
    <3>6. QED
      BY <3>4, <3>5
  <2>4. QED
    BY <1>1, <1>4, <1>5, <1>9, <2>1, <2>2, <2>3 DEF Link
<1>10. QED
  BY <1>2, <1>3, <1>8, <1>9 DEF SessionInv

(* A step that sends nothing and handles nothing.                           *)
LEMMA SameRequests ==
    ASSUME Requests, out' = out, srv'.last = srv.last,
           cl'.n = cl.n, cl'.tag = cl.tag, cl'.args = cl.args
    PROVE  Requests'
<1>1. ThisMessage' = ThisMessage
  BY Zenon DEF ThisMessage
<1>2. QED
  BY <1>1, Zenon DEF Requests

(* A write to a closed socket throws.                                       *)
LEMMA OutputOnClosedKeeps == ASSUME SessionInv, OutputOnClosed PROVE SessionInv'
<1>1. /\ cl'.pc = "idle" /\ cl'.n = cl.n /\ cl'.tag = cl.tag /\ cl'.args = cl.args
      /\ cl'.late = cl.late /\ cl'.res = Throws /\ cl'.answer = cl.answer
      /\ cl' = [f \in ClientFields |-> cl'[f]]
  BY SomeFields, Zenon DEF SessionInv, Shape, OutputOnClosed, Returns
<1>2. sock' = "closed" /\ sock = "closed"
  BY Zenon DEF OutputOnClosed
<1>3. Shape'
  BY <1>1, Zenon DEF SessionInv, Shape, OutputOnClosed
<1>4. ASSUME InStep' PROVE Requests' /\ Closed'
  <2>1. InStep
    BY <1>1, <1>4, Zenon DEF InStep, OutputOnClosed
  <2>2. Requests /\ Closed
    BY <1>2, <2>1, Zenon DEF SessionInv
  <2>3. out' = out /\ srv'.last = srv.last
    BY Zenon DEF OutputOnClosed
  <2>4. Requests'
    BY <1>1, <2>2, <2>3, SameRequests, Zenon
  <2>5. QED
    BY <1>1, <2>2, <2>4 DEF Closed, Throws
<1>5. sock' # "open"
  BY <1>2
<1>6. QED
  BY <1>3, <1>4, <1>5, Zenon DEF SessionInv

(* The deadline of TCP closes the socket.                                   *)
LEMMA TcpDeadlineKeeps == ASSUME SessionInv, TcpDeadline PROVE SessionInv'
<1>1. /\ cl'.pc = "idle" /\ cl'.n = cl.n /\ cl'.tag = cl.tag /\ cl'.args = cl.args
      /\ cl'.late = TRUE /\ cl'.res = Throws /\ cl'.answer = cl.answer
      /\ cl' = [f \in ClientFields |-> cl'[f]]
  BY SomeFields, Zenon DEF SessionInv, Shape, TcpDeadline
<1>2. sock' = "closed" /\ InStep
  BY Zenon DEF TcpDeadline, InStep
<1>3. Shape'
  BY <1>1, <1>2, Zenon DEF SessionInv, Shape, TcpDeadline
<1>4. Requests'
  <2>1. Requests /\ out' = out /\ srv'.last = srv.last
    BY <1>2, Zenon DEF SessionInv, TcpDeadline
  <2>2. QED
    BY <1>1, <2>1, SameRequests, Zenon
<1>5. Closed'
  BY <1>1 DEF Closed, Throws
<1>6. sock' # "open"
  BY <1>2
<1>7. QED
  BY <1>3, <1>4, <1>5, <1>6, Zenon DEF SessionInv

(* A deadline of RDMA leaves the connection out of step.                    *)
LEMMA RdmaDeadlineKeeps ==
    ASSUME SessionInv, RdmaWriteDeadline \/ RdmaReadDeadline PROVE SessionInv'
<1>1. /\ \/ cl' = [cl EXCEPT !.pc = "idle", !.res = Throws, !.late = TRUE]
         \/ cl' = [cl EXCEPT !.pc = "idle", !.res = Junk, !.late = TRUE]
         \/ cl' = [cl EXCEPT !.pc = "size", !.late = TRUE] /\ cl.pc = "output"
      /\ transport = "rdma" /\ transport' = transport /\ srv' = srv /\ sock' = sock
  BY Zenon DEF RdmaWriteDeadline, RdmaReadDeadline
<1>2. cl = [f \in ClientFields |-> cl[f]]
  BY Zenon DEF SessionInv, Shape
<1>3. /\ cl'.pc = "idle" \/ (cl'.pc = "size" /\ cl.pc = "output" /\ cl'.res = cl.res)
      /\ cl'.n = cl.n /\ cl'.tag = cl.tag /\ cl'.args = cl.args
      /\ cl'.late = TRUE /\ cl'.answer = cl.answer
      /\ cl' = [f \in ClientFields |-> cl'[f]]
  <2>1. CASE cl' = [cl EXCEPT !.pc = "idle", !.res = Throws, !.late = TRUE]
    BY <1>2, <2>1, SomeFields, Zenon
  <2>2. CASE cl' = [cl EXCEPT !.pc = "idle", !.res = Junk, !.late = TRUE]
    BY <1>2, <2>2, SomeFields, Zenon
  <2>3. CASE cl' = [cl EXCEPT !.pc = "size", !.late = TRUE] /\ cl.pc = "output"
    BY <1>2, <2>3, SomeFields, Zenon
  <2>4. QED
    BY <1>1, <2>1, <2>2, <2>3, Zenon
<1>4. Shape'
  <2>1. CASE cl'.pc = "idle"
    BY <1>1, <1>3, <2>1, Zenon DEF SessionInv, Shape
  <2>2. CASE cl'.pc = "size" /\ cl.pc = "output" /\ cl'.res = cl.res
    BY <1>1, <1>3, <2>2 DEF SessionInv, Shape
  <2>3. QED
    BY <1>3, <2>1, <2>2, Zenon
<1>5. ~InStep'
  BY <1>1, <1>3 DEF InStep
<1>6. QED
  BY <1>4, <1>5, Zenon DEF SessionInv

(* The length of an answer: on an open connection it is one.                *)
LEMMA ReadSizeKeeps == ASSUME SessionInv, ReadSize PROVE SessionInv'
<1>1. /\ cl' = [cl EXCEPT !.pc = "body"] \/ cl' = [cl EXCEPT !.pc = "idle", !.res = Junk]
      /\ cl.pc = "size" /\ sock = "open" /\ sock' = sock /\ transport' = transport
      /\ srv' = srv /\ out' = out /\ mb' = mb /\ objects' = objects
  BY Zenon DEF ReadSize, Returns
<1>2. cl = [f \in ClientFields |-> cl[f]]
  BY Zenon DEF SessionInv, Shape
<1>3. /\ cl'.pc = "idle" \/ (cl'.pc = "body" /\ cl'.res = cl.res)
      /\ cl'.n = cl.n /\ cl'.tag = cl.tag /\ cl'.args = cl.args
      /\ cl'.late = cl.late /\ cl'.answer = cl.answer
      /\ cl' = [f \in ClientFields |-> cl'[f]]
  <2>1. CASE cl' = [cl EXCEPT !.pc = "body"]
    BY <1>2, <2>1, SomeFields, Zenon
  <2>2. CASE cl' = [cl EXCEPT !.pc = "idle", !.res = Junk]
    BY <1>2, <2>2, SomeFields, Zenon
  <2>3. QED
    BY <1>1, <2>1, <2>2, Zenon
<1>4. Shape'
  <2>1. CASE cl'.pc = "idle"
    BY <1>1, <1>3, <2>1, Zenon DEF SessionInv, Shape
  <2>2. CASE cl'.pc = "body" /\ cl'.res = cl.res
    BY <1>1, <1>3, <2>2 DEF SessionInv, Shape
  <2>3. QED
    BY <1>3, <2>1, <2>2, Zenon
<1>5. ASSUME InStep' PROVE InStep /\ Requests /\ Link
  <2>1. InStep
    BY <1>1, <1>3, <1>5, Zenon DEF InStep
  <2>2. QED
    BY <1>1, <2>1, Zenon DEF SessionInv
<1>6. ASSUME InStep' PROVE Requests'
  BY <1>1, <1>3, <1>5, <1>6, SameRequests, Zenon
<1>7. ASSUME InStep' PROVE Link'
  <2>1. PICK a, body : IsReply(a, body) /\ inp = <<Size, Body(a, body)>>
    BY <1>1, <1>5, <1>7 DEF ReadSize, Link, Incoming
  <2>2. inp[1] = Size /\ Tail(inp) = <<Body(a, body)>> /\ inp # <<>>
    BY <2>1
  <2>3. cl' = [cl EXCEPT !.pc = "body"] /\ inp' = <<Body(a, body)>>
    <3>1. inp[1].part = "size"
      BY <2>2 DEF Size
    <3>2. QED
      BY <2>2, <3>1, Zenon DEF ReadSize
  <2>4. cl'.pc = "body"
    BY <1>2, <2>3, SomeFields, Zenon
  <2>5. IsReply(a, body)'
    BY <1>1, <1>3, <2>1, <2>4 DEF IsReply
  <2>6. Incoming'
    BY <2>3, <2>4, <2>5, Zenon DEF Incoming
  <2>7. srv.pc # "gone" => srv.pc = "loop" /\ out = <<>>
    <3>1. CASE srv.pc # "gone"
      BY <1>1, <1>5, <1>7, <2>2, <3>1, Zenon DEF Link, Outgoing
    <3>2. QED
      BY <3>1
  <2>8. srv.pc # "gone" => srv.pc \in {"hello", "loop"} /\ Outgoing'
    BY <1>1, <2>4, <2>7 DEF Outgoing
  <2>9. QED
    BY <1>1, <1>5, <1>7, <2>4, <2>6, <2>8 DEF Link
<1>8. sock' # "closed"
  BY <1>1
<1>9. QED
  BY <1>4, <1>6, <1>7, <1>8, Zenon DEF SessionInv

(* An error is no result.                                                   *)
LEMMA ErrorResult ==
    ASSUME NEW tag, NEW args, NEW body, IsError(body)
    PROVE  Result(tag, args, body).st \in {"rc", "empty"}
<1>1. PICK rc \in {1, 13, 17} : body = error_message(rc)
  BY Zenon DEF IsError, UNKNOWN, UNKNOWN_OPERATION, PROTOCOL_VERSION_MISMATCH
<1>2. body # <<>> /\ body[1] = Field("u32", rc)
  BY <1>1 DEF error_message
<1>3. read_status(body).v = rc
  BY <1>2 DEF read_status, prim_from, Field, Got
<1>4. rc # 0
  OBVIOUS
<1>5. QED
  BY <1>3, <1>4, Zenon DEF Result

(* The body of an answer: it is an error, or the answer to this call.       *)
LEMMA ReadBodyKeeps == ASSUME AnswersAgree, SessionInv, ReadBody PROVE SessionInv'
<1> DEFINE answer == inp[1].answer
           others == answer.ok /\ (answer.id # cl.n \/ answer.tag # cl.tag)
           res == IF others THEN Junk ELSE Result(cl.tag, cl.args, inp[1].body)
<1>1. /\ cl' = [cl EXCEPT !.pc = "idle", !.answer = answer, !.res = res]
      /\ cl.pc = "body" /\ sock = "open" /\ sock' = sock /\ transport' = transport
      /\ srv' = srv /\ out' = out /\ mb' = mb /\ objects' = objects /\ inp' = Tail(inp)
  BY Zenon DEF ReadBody
<1>2. cl = [f \in ClientFields |-> cl[f]]
  BY Zenon DEF SessionInv, Shape
<1> HIDE DEF res
<1>3. /\ cl'.pc = "idle" /\ cl'.n = cl.n /\ cl'.tag = cl.tag /\ cl'.args = cl.args
      /\ cl'.late = cl.late /\ cl'.answer = answer /\ cl'.res = res
      /\ cl' = [f \in ClientFields |-> cl'[f]]
  BY <1>1, <1>2, SomeFields, Zenon
<1>4. Shape'
  BY <1>1, <1>3, Zenon DEF SessionInv, Shape
<1>5. ASSUME InStep' PROVE InStep /\ Requests /\ Link
  <2>1. InStep
    BY <1>1, <1>3, <1>5, Zenon DEF InStep
  <2>2. QED
    BY <1>1, <2>1, Zenon DEF SessionInv
<1>6. ASSUME InStep' PROVE Requests'
  BY <1>1, <1>3, <1>5, <1>6, SameRequests, Zenon
<1>7. ASSUME InStep' PROVE Link'
  <2>1. PICK a, body : IsReply(a, body) /\ inp = <<Body(a, body)>>
    BY <1>1, <1>5, <1>7 DEF Link, Incoming
  <2>2. inp[1] = Body(a, body) /\ Tail(inp) = <<>>
    BY <2>1
  <2>3. answer = a /\ inp[1].body = body /\ inp' = <<>>
    BY <1>1, <2>2 DEF Body
  <2>4. Returned'
    <3>1. CASE a.ok = FALSE /\ IsError(body)
      <4>1. res = Result(cl.tag, cl.args, body)
        BY <2>3, <3>1, Zenon DEF res
      <4>2. res.st \in {"rc", "empty"}
        BY <3>1, <4>1, ErrorResult, Zenon
      <4>3. QED
        BY <1>3, <2>3, <3>1, <4>2 DEF Returned
    <3>2. CASE a.ok = TRUE /\ IsSuccess(objects, cl.n, cl.tag, cl.args, a, body)
      <4>1. res = Result(cl.tag, cl.args, body)
        BY <2>3, <3>2, Zenon DEF res, IsSuccess
      <4>2. PICK x \in Answers(cl.n, a.ser, cl.tag) :
              a.v = answer_of(objects, cl.tag, cl.args, x)
        BY <3>2, Zenon DEF IsSuccess
      <4>3. /\ cl.n \in 1..MaxCalls /\ cl.tag \in Tags /\ a.ser \in Versions
            /\ objects \in [Name -> Content] /\ cl.args \in Arguments(cl.n, cl.tag)
        BY <1>1, <1>5, <1>7, <3>2 DEF SessionInv, Shape, IsCall, Link, IsSuccess
      <4>4. res = Result(cl.tag, cl.args, <<Field("u32", 0)>> \o Response(a.ser, cl.tag, a.v))
        BY <3>2, <4>1, Zenon DEF IsSuccess, answer_message
      <4>5. AnswerAgrees(objects, a.ser, cl.tag, cl.args, x)
        BY <4>3, Zenon DEF AnswersAgree
      <4>6. /\ res.st = "ok" => IsResult(objects, cl.tag, cl.args, a.ser, a.v, res.v)
            /\ res.st = "ok" \/ (cl.tag = 21 /\ res.st = "exn")
        <5> DEFINE v == answer_of(objects, cl.tag, cl.args, x)
                   r == Result(cl.tag, cl.args, <<Field("u32", 0)>> \o Response(a.ser, cl.tag, v))
        <5>1. /\ r.st = "ok" => IsResult(objects, cl.tag, cl.args, a.ser, v, r.v)
              /\ r.st = "ok" \/ (cl.tag = 21 /\ r.st = "exn")
          BY <4>5, Zenon DEF AnswerAgrees
        <5>2. r = res /\ v = a.v
          BY <4>2, <4>4, Zenon
        <5> HIDE DEF r, v
        <5>3. QED
          BY <5>1, <5>2, Zenon
      <4>7. res.st # "junk"
        BY <4>6
      <4>8. QED
        BY <1>1, <1>3, <2>3, <3>2, <4>6, <4>7, Zenon DEF Returned, IsSuccess
    <3>3. QED
      BY <2>1, <3>1, <3>2, Zenon DEF IsReply
  <2>5. Incoming'
    BY <1>3, <2>3 DEF Incoming
  <2>6. srv.pc # "gone" => srv.pc = "loop" /\ out = <<>>
    BY <1>1, <1>5, <1>7, Zenon DEF Link, Outgoing
  <2>7. srv.pc # "gone" => srv.pc \in {"hello", "loop"} /\ Outgoing'
    BY <1>1, <1>3, <2>3, <2>6 DEF Outgoing
  <2>8. QED
    BY <1>1, <1>3, <1>5, <1>7, <2>4, <2>5, <2>7 DEF Link
<1>8. sock' # "closed"
  BY <1>1
<1>9. QED
  BY <1>4, <1>6, <1>7, <1>8, Zenon DEF SessionInv

(* The end of the stream.                                                   *)
LEMMA ReadEofKeeps == ASSUME SessionInv, ReadEof PROVE SessionInv'
<1>1. /\ cl'.pc = "idle" /\ cl'.n = cl.n /\ cl'.tag = cl.tag /\ cl'.args = cl.args
      /\ cl'.late = cl.late /\ cl'.res = Throws /\ cl'.answer = cl.answer
      /\ cl' = [f \in ClientFields |-> cl'[f]]
  BY SomeFields, Zenon DEF SessionInv, Shape, ReadEof, Returns
<1>2. /\ cl.pc \in {"size", "body"} /\ srv.pc = "gone" /\ inp = <<>>
      /\ sock' = sock /\ transport' = transport /\ inp' = inp
      /\ srv' = srv /\ out' = out /\ mb' = mb /\ objects' = objects
  BY Zenon DEF ReadEof
<1>3. Shape'
  BY <1>1, <1>2, Zenon DEF SessionInv, Shape
<1>4. ASSUME InStep' PROVE InStep /\ Requests
  BY <1>1, <1>2, <1>4, Zenon DEF InStep, SessionInv
<1>5. ASSUME InStep' PROVE Requests'
  BY <1>1, <1>2, <1>4, <1>5, SameRequests, Zenon
<1>6. ASSUME InStep', sock' = "open" PROVE Link'
  <2>1. Link
    BY <1>2, <1>4, <1>6, Zenon DEF SessionInv
  <2>2. cl'.res.st = "exn" /\ cl'.answer.ok = FALSE
    BY <1>1, <1>2 DEF SessionInv, Shape, Throws, NoAnswer
  <2>3. Returned' /\ Incoming'
    BY <1>1, <1>2, <2>2 DEF Returned, Incoming
  <2>4. QED
    BY <1>1, <1>2, <2>1, <2>3 DEF Link
<1>7. ASSUME InStep', sock' = "closed" PROVE FALSE
  BY <1>2, <1>4, <1>7 DEF SessionInv, Closed
<1>8. QED
  BY <1>3, <1>5, <1>6, <1>7, Zenon DEF SessionInv

(* What the handlers make of the objects is what objects can be.            *)
LEMMA EffectTyped ==
    ASSUME NEW n, NEW tag, NEW args, IsCall(n, tag, args), objects \in [Name -> Content]
    PROVE  effect(tag, args) \in [Name -> Content]
<1>1. /\ tag \in {11, 21} => args[3] \in Content
      /\ tag = 24 =>
           /\ DOMAIN args[4] = 1..Len(args[4]) /\ Len(args[4]) \in Nat
           /\ \A i \in DOMAIN args[4] :
                args[4][i].v[1] \in Name /\ Contents(args[4][i]) \in Content
  BY ArgumentsAssumption, Zenon DEF IsCall
<1>2. CASE tag \in {11, 21}
  <2>1. effect(tag, args) = [objects EXCEPT ![args[2]] = args[3]] /\ args[3] \in Content
    BY <1>1, <1>2 DEF effect
  <2>2. QED
    BY <2>1, Zenon
<1>3. CASE tag = 8
  <2>1. effect(tag, args) = [objects EXCEPT ![args[2]] = None] /\ None \in Content
    BY <1>3, SessionAssumption DEF effect
  <2>2. QED
    BY <2>1, Zenon
<1>4. CASE tag = 24
  <2> DEFINE updates == Reverse(args[4])
  <2>1. \A i \in DOMAIN updates : Contents(updates[i]) \in Content
    <3>1. \A i \in 1..Len(args[4]) : (Len(args[4]) - i) + 1 \in 1..Len(args[4])
      BY <1>1, <1>4, SMT
    <3>2. updates = [i \in 1..Len(args[4]) |-> args[4][(Len(args[4]) - i) + 1]]
      BY Zenon DEF Reverse
    <3> HIDE DEF updates
    <3>3. QED
      BY <1>1, <1>4, <3>1, <3>2, Zenon
  <2>2. effect(tag, args) = nsm_apply_sequence(objects, updates)
    BY <1>4, SMT DEF effect, with_alba_sequence_updates
  <2> HIDE DEF updates
  <2>3. ASSUME NEW m \in Name, LastOf(updates, m) # {}
        PROVE  Contents(updates[CHOOSE i \in LastOf(updates, m) : TRUE]) \in Content
    <3>1. (CHOOSE i \in LastOf(updates, m) : TRUE) \in LastOf(updates, m)
      BY <2>3, Zenon
    <3>2. QED
      BY <2>1, <3>1, Zenon DEF LastOf
  <2>4. QED
    BY <2>2, <2>3, Zenon DEF nsm_apply_sequence
<1>5. CASE tag \notin {8, 11, 21, 24}
  BY <1>5, SMT DEF effect
<1>6. QED
  BY <1>2, <1>3, <1>4, <1>5

(* apply_sequence does with every object what the first update of it says.  *)
LEMMA EffectTaken ==
    ASSUME NEW n, NEW args, IsCall(n, 24, args)
    PROVE  TakenEffect(effect(24, args), args[4])
<1> DEFINE updates == args[4]
           turned == Reverse(args[4])
           len == Len(args[4])
<1>1. /\ DOMAIN updates = 1..len /\ len \in Nat
      /\ \A i \in DOMAIN updates : updates[i].v[1] \in Name
  BY ArgumentsAssumption, Zenon DEF IsCall
<1>2. turned = [i \in 1..len |-> updates[(len - i) + 1]] /\ Len(turned) = len
  BY <1>1 DEF Reverse
<1>3. effect(24, args) = nsm_apply_sequence(objects, turned)
  BY SMT DEF effect, with_alba_sequence_updates
<1> HIDE DEF updates, turned, len
<1>4. ASSUME NEW u \in DOMAIN updates,
             \A w \in 1..(u - 1) : updates[w].v[1] # updates[u].v[1]
      PROVE  nsm_apply_sequence(objects, turned)[updates[u].v[1]] = Contents(updates[u])
  <2> DEFINE m == updates[u].v[1]
             k == (len - u) + 1
  <2>1. k \in 1..len /\ (len - k) + 1 = u /\ u \in 1..len
    BY <1>1, SMT
  <2>2. turned[k] = updates[u]
    BY <1>2, <2>1, Zenon
  <2>3. \A j \in (k + 1)..len : turned[j].v[1] # m
    <3>1. \A j \in (k + 1)..len : j \in 1..len /\ (len - j) + 1 \in 1..(u - 1)
      BY <1>1, <2>1, SMT
    <3>2. QED
      BY <1>2, <1>4, <3>1, Zenon
  <2>4. LastOf(turned, m) = {k}
    <3>1. k \in LastOf(turned, m)
      BY <1>2, <2>1, <2>2, <2>3, Zenon DEF LastOf
    <3>2. ASSUME NEW i \in LastOf(turned, m) PROVE i = k
      <4>1. /\ i \in 1..len /\ turned[i].v[1] = m
            /\ \A j \in (i + 1)..len : turned[j].v[1] # m
        BY <1>2, Zenon DEF LastOf
      <4>2. k \notin (i + 1)..len /\ i \notin (k + 1)..len
        BY <2>2, <2>3, <4>1, Zenon
      <4> HIDE DEF k
      <4>3. QED
        BY <1>1, <2>1, <4>1, <4>2, SMT
    <3>3. QED
      BY <3>1, <3>2, Zenon
  <2>5. (CHOOSE i \in LastOf(turned, m) : TRUE) = k /\ LastOf(turned, m) # {}
    BY <2>4, Zenon
  <2>6. m \in Name
    BY <1>1, Zenon
  <2> HIDE DEF m, k
  <2>7. nsm_apply_sequence(objects, turned)[m] = Contents(turned[k])
    BY <2>5, <2>6, Zenon DEF nsm_apply_sequence
  <2>8. QED
    BY <2>2, <2>7, Zenon DEF m
<1>5. QED
  BY <1>3, <1>4, Zenon DEF TakenEffect, updates

(* A read answers with what is there, and changes nothing.                  *)
LEMMA AnswerAfter ==
    ASSUME NEW tag, NEW args, NEW x
    PROVE  answer_of(effect(tag, args), tag, args, x) = answer_of(objects, tag, args, x)
<1>1. CASE tag \in {13, 23}
  <2>1. effect(tag, args) = objects
    BY <1>1 DEF effect
  <2>2. QED
    BY <2>1
<1>2. CASE tag \notin {13, 23}
  BY <1>2 DEF answer_of
<1>3. QED
  BY <1>1, <1>2

(* The session has a version it can have.                                   *)
LEMMA UpdateSessionTyped ==
    ASSUME NEW n, NEW args, IsCall(n, 32, args), NEW ser \in Versions
    PROVE  UpdateSession(ser, args) \in Versions
<1>1. n \in 1..MaxCalls /\ args \in Arguments(n, 32)
  BY Zenon DEF IsCall
<1>2. UpdateSession(ser, args) \in {ser, UpdateSession(1, args)}
  BY Zenon DEF UpdateSession
<1>3. UpdateSession(1, args) \in Versions
  <2> DEFINE Of(i) == {UpdateSession(1, as) : as \in Arguments(i, 32)}
  <2>1. UpdateSession(1, args) \in Of(n)
    BY <1>1, Zenon
  <2>2. Versions = {1} \cup UNION {Of(i) : i \in 1..MaxCalls}
    BY Zenon DEF Versions
  <2> HIDE DEF Of
  <2>3. QED
    BY <1>1, <2>1, <2>2, Zenon
<1>4. QED
  BY <1>2, <1>3, Zenon

(* An answer is put behind nothing.                                         *)
LEMMA ReplyIs ==
    ASSUME NEW a, NEW body, inp = <<>>
    PROVE  Reply(a, body) = <<Size, Body(a, body)>>
<1>1. \A x, y : <<>> \o <<x, y>> = <<x, y>>
  OBVIOUS
<1>2. QED
  BY <1>1, Zenon DEF Reply, Size, Body

(* So is an error.                                                          *)
LEMMA ErrorIs ==
    ASSUME NEW id, NEW rc \in {UNKNOWN, UNKNOWN_OPERATION, PROTOCOL_VERSION_MISMATCH},
           inp = <<>>
    PROVE  \E a, body : /\ a.ok = FALSE /\ IsError(body)
                        /\ return_err_response(id, rc) = <<Size, Body(a, body)>>
<1> DEFINE a == [NoAnswer EXCEPT !.id = id, !.v = <<rc>>]
<1>1. a.ok = FALSE
  BY DEF NoAnswer
<1> HIDE DEF a
<1>2. IsError(error_message(rc))
  BY Zenon DEF IsError
<1>3. return_err_response(id, rc) = <<Size, Body(a, error_message(rc))>>
  BY ReplyIs, Zenon DEF return_err_response, error_message, a
<1>4. QED
  BY <1>1, <1>2, <1>3, Zenon

(* A step of the proxy that takes a message.                                *)
LEMMA TakenRequests ==
    ASSUME Requests, out # <<>>, out' = Tail(out), cl' = cl,
           srv'.last.id \in Nat, srv'.last.id <= cl.n,
           srv'.last.id = cl.n /\ cl.n > 0 => srv'.last.tag = cl.tag /\ srv'.last.args = cl.args
    PROVE  Requests'
<1>1. out \in Seq(Messages)
  BY Zenon DEF Requests
<1>2. out' \in Seq(Messages) /\ \A i \in 1..Len(out') : i + 1 \in 1..Len(out) /\ out'[i] = out[i + 1]
  BY <1>1, SMT
<1>3. ThisMessage' = ThisMessage
  BY Zenon DEF ThisMessage
<1>4. \A i \in 1..Len(out) :
        /\ out[i].id \in Nat /\ out[i].id <= cl.n
        /\ out[i].id = cl.n /\ cl.n > 0 => out[i] = ThisMessage
  BY Zenon DEF Requests
<1>5. QED
  BY <1>2, <1>3, <1>4, Zenon DEF Requests

(* The handshake.                                                           *)
LEMMA HelloKeeps == ASSUME SessionInv, Hello PROVE SessionInv'
<1>1. /\ cl' = cl /\ sock' = sock /\ transport' = transport /\ mb' = mb /\ objects' = objects
      /\ srv.pc = "hello" /\ out # <<>> /\ out' = Tail(out)
  BY Zenon DEF Hello
<1>2. /\ srv'.ser = srv.ser /\ srv'.last = srv.last
      /\ srv' = [f \in ProxyFields |-> srv'[f]]
      /\ \/ srv'.pc = "loop" /\ inp' = inp
         \/ srv'.pc = "gone" /\ inp' = return_err_response(0, PROTOCOL_VERSION_MISMATCH)
  <2>1. srv = [f \in ProxyFields |-> srv[f]]
    BY Zenon DEF SessionInv, Shape
  <2>2. CASE srv' = [srv EXCEPT !.pc = "loop"] /\ inp' = inp
    BY <2>1, <2>2, SomeFields, Zenon
  <2>3. CASE /\ srv' = [srv EXCEPT !.pc = "gone"]
             /\ inp' = return_err_response(0, PROTOCOL_VERSION_MISMATCH)
    BY <2>1, <2>3, SomeFields, Zenon
  <2>4. QED
    BY <2>2, <2>3, Zenon DEF Hello
<1>3. Shape'
  BY <1>1, <1>2, Zenon DEF SessionInv, Shape
<1>4. ASSUME InStep' PROVE InStep /\ Requests
  BY <1>1, <1>4, Zenon DEF InStep, SessionInv
<1>5. ASSUME InStep' PROVE Requests'
  <2>1. /\ srv.last.id \in Nat /\ srv.last.id <= cl.n
        /\ srv.last.id = cl.n /\ cl.n > 0 => srv.last.tag = cl.tag /\ srv.last.args = cl.args
    BY <1>4, <1>5, Zenon DEF Requests
  <2>2. QED
    BY <1>1, <1>2, <1>4, <1>5, <2>1, TakenRequests, Zenon
<1>6. ASSUME InStep', sock' = "open" PROVE Link'
  <2>1. Link
    BY <1>1, <1>4, <1>6, Zenon DEF SessionInv
  <2>2. Outgoing
    BY <1>1, <2>1 DEF Link
  <2>3. /\ inp = <<>> /\ cl.pc \in {"idle", "output", "size"}
        /\ out = IF cl.pc = "size" THEN <<HelloMessage, ThisMessage>> ELSE <<HelloMessage>>
    <3>1. cl.pc \in {"connect", "idle", "output", "size", "body"}
      BY Zenon DEF SessionInv, Shape
    <3>2. QED
      BY <1>1, <2>2, <3>1 DEF Outgoing
  <2>4. Tail(out) = IF cl.pc = "size" THEN <<ThisMessage>> ELSE <<>>
    BY <2>3
  <2>5. ThisMessage' = ThisMessage
    BY <1>1, Zenon DEF ThisMessage
  <2>6. cl.pc = "idle" => Returned'
    BY <1>1, <2>1, Zenon DEF Link, Returned
  <2>7. CASE srv'.pc = "loop" /\ inp' = inp
    <3>1. Incoming'
      BY <1>1, <2>3, <2>7 DEF Incoming
    <3>2. Outgoing'
      BY <1>1, <2>3, <2>4, <2>5, <2>7 DEF Outgoing
    <3>3. QED
      BY <1>1, <1>2, <2>1, <2>6, <2>7, <3>1, <3>2 DEF Link
  <2>8. CASE srv'.pc = "gone" /\ inp' = return_err_response(0, PROTOCOL_VERSION_MISMATCH)
    <3>1. PICK a, body : /\ a.ok = FALSE /\ IsError(body)
                         /\ return_err_response(0, PROTOCOL_VERSION_MISMATCH)
                              = <<Size, Body(a, body)>>
      BY <2>3, ErrorIs, Zenon
    <3>2. IsReply(a, body)'
      BY <3>1, Zenon DEF IsReply
    <3>3. Incoming'
      BY <1>1, <2>3, <2>8, <3>1, <3>2, Zenon DEF Incoming
    <3>4. QED
      BY <1>1, <1>2, <2>1, <2>6, <2>8, <3>3, Zenon DEF Link
  <2>9. QED
    BY <1>2, <2>7, <2>8, Zenon
<1>7. ASSUME InStep', sock' = "closed" PROVE Closed'
  BY <1>1, <1>4, <1>7, Zenon DEF SessionInv, Closed
<1>8. QED
  BY <1>3, <1>5, <1>6, <1>7, Zenon DEF SessionInv

(* The proxy stops.                                                         *)
LEMMA ProxyGoneKeeps == ASSUME SessionInv, ProxyGone PROVE SessionInv'
<1>1. /\ cl' = cl /\ sock' = sock /\ transport' = transport /\ mb' = mb /\ objects' = objects
      /\ out' = out /\ inp' = inp /\ srv' = [srv EXCEPT !.pc = "gone"]
  BY Zenon DEF ProxyGone
<1>2. /\ srv'.pc = "gone" /\ srv'.ser = srv.ser /\ srv'.last = srv.last
      /\ srv' = [f \in ProxyFields |-> srv'[f]]
  BY <1>1, SomeFields, Zenon DEF SessionInv, Shape
<1>3. Shape'
  BY <1>1, <1>2, Zenon DEF SessionInv, Shape
<1>4. ASSUME InStep' PROVE InStep /\ Requests
  BY <1>1, <1>4, Zenon DEF InStep, SessionInv
<1>5. ASSUME InStep' PROVE Requests'
  BY <1>1, <1>2, <1>4, <1>5, SameRequests, Zenon
<1>6. ASSUME InStep', sock' = "open" PROVE Link'
  <2>1. Link
    BY <1>1, <1>4, <1>6, Zenon DEF SessionInv
  <2>2. Incoming' /\ (cl.pc = "idle" => Returned')
    BY <1>1, <2>1, Zenon DEF Link, Incoming, IsReply, Returned
  <2>3. QED
    BY <1>1, <1>2, <2>1, <2>2, Zenon DEF Link
<1>7. ASSUME InStep', sock' = "closed" PROVE Closed'
  BY <1>1, <1>4, <1>7, Zenon DEF SessionInv, Closed
<1>8. QED
  BY <1>3, <1>5, <1>6, <1>7, Zenon DEF SessionInv

(* All messages of a connection in step are whole.                          *)
LEMMA ServeJunkKeeps == ASSUME SessionInv, ServeJunk PROVE SessionInv'
<1>1. /\ cl' = cl /\ sock' = sock /\ transport' = transport /\ srv' = srv
      /\ Len(out) > 1 /\ ~out[1].whole
  BY Zenon DEF ServeJunk
<1>2. Shape'
  BY <1>1, Zenon DEF SessionInv, Shape
<1>3. ASSUME InStep' PROVE FALSE
  <2>1. Requests
    BY <1>1, <1>3, Zenon DEF InStep, SessionInv
  <2>2. out[1] \in Messages
    BY <1>1, <2>1, SMT DEF Requests
  <2>3. HelloMessage.whole = TRUE /\ \A n, tag, args : CallMessage(n, tag, args).whole = TRUE
    BY DEF HelloMessage, CallMessage
  <2>4. \A m \in Messages : m.whole = TRUE
    <3>1. TAKE m \in Messages
    <3>2. CASE m = HelloMessage
      BY <2>3, <3>2, Zenon
    <3>3. CASE m # HelloMessage
      <4>1. PICK n \in 1..MaxCalls :
              m \in UNION {{CallMessage(n, tag, args) : args \in Arguments(n, tag)} : tag \in Tags}
        BY <3>3, Zenon DEF Messages
      <4>2. PICK tag \in Tags : m \in {CallMessage(n, tag, args) : args \in Arguments(n, tag)}
        BY <4>1, Zenon
      <4>3. QED
        BY <2>3, <4>2, Zenon
    <3>4. QED
      BY <3>2, <3>3
  <2>5. QED
    BY <1>1, <2>2, <2>4, Zenon
<1>4. QED
  BY <1>2, <1>3, Zenon DEF SessionInv

(* What Serve can do with a message that parses as a request.               *)
LEMMA ServeCases ==
    ASSUME NEW tag, NEW args, Serve, out[1].body = request_message(tag, args),
           RequestAgrees(tag, args)
    PROVE  \/ Refuse(out[1].id, UNKNOWN_OPERATION)
           \/ Handle(out[1].id, tag, args)
<1> DEFINE code == prim_from("u32", out[1].body)
           x == RequestFrom(tag, code.rest)
<1>1. code.v = tag /\ x.ok /\ x.v = args
  BY Zenon DEF RequestAgrees, request_message
<1>2. CASE tag \notin known
  BY <1>1, <1>2, Zenon DEF Serve
<1>3. CASE tag \in known
  <2>1. \E y \in {RequestFrom(code.v, code.rest)} :
          IF y.ok THEN Handle(out[1].id, code.v, y.v) ELSE Refuse(out[1].id, UNKNOWN)
    BY <1>1, <1>3, Zenon DEF Serve
  <2> HIDE DEF code
  <2>2. QED
    BY <1>1, <2>1, Zenon
<1>4. QED
  BY <1>2, <1>3, Zenon

(* What is left of the proxy's state when a request is refused or handled.  *)
LEMMA ServedProxy ==
    ASSUME NEW id, NEW tag, NEW args, srv = [f \in ProxyFields |-> srv[f]],
           \/ \E rc : Refuse(id, rc)
           \/ Handle(id, tag, args)
    PROVE  /\ srv' = [f \in ProxyFields |-> srv'[f]] /\ srv'.pc = srv.pc
           /\ \/ srv'.last = srv.last
              \/ srv'.last.id = id /\ srv'.last.tag = tag /\ srv'.last.args = args
           /\ srv'.ser = srv.ser \/ (tag = 32 /\ srv'.ser = UpdateSession(srv.ser, args))
<1> DEFINE last == [id |-> id, tag |-> tag, args |-> args]
<1>1. last.id = id /\ last.tag = tag /\ last.args = args
  OBVIOUS
<1>2. CASE \E rc : Refuse(id, rc)
  BY <1>2, Zenon DEF Refuse
<1>3. CASE Handle(id, tag, args)
  <2>1. \/ srv' = [srv EXCEPT !.last = last]
        \/ srv' = [srv EXCEPT !.last = last,
                              !.ser = IF tag = 32 THEN UpdateSession(srv.ser, args) ELSE srv.ser]
    BY <1>3, Zenon DEF Handle
  <2> HIDE DEF last
  <2>2. CASE srv' = [srv EXCEPT !.last = last]
    BY <1>1, <2>2, SomeFields, Zenon
  <2>3. CASE srv' = [srv EXCEPT !.last = last,
                                !.ser = IF tag = 32 THEN UpdateSession(srv.ser, args) ELSE srv.ser]
    BY <1>1, <2>3, SomeFields, Zenon
  <2>4. QED
    BY <2>1, <2>2, <2>3, Zenon
<1>4. QED
  BY <1>2, <1>3, Zenon

(* ... and the version of manifests only as update_session asks.            *)
LEMMA ServedVersion ==
    ASSUME NEW id, NEW tag, NEW args, srv = [f \in ProxyFields |-> srv[f]],
           (\E rc : Refuse(id, rc)) \/ Handle(id, tag, args)
    PROVE  srv'.ser = srv.ser \/ (tag = 32 /\ srv'.ser = UpdateSession(srv.ser, args))
BY ServedProxy, Zenon

(* The answer to the call that waits for it.                                *)
LEMMA ServedReply ==
    ASSUME Link, IsCall(cl.n, cl.tag, cl.args), inp = <<>>, cl.pc = "size", cl' = cl,
           \/ Refuse(cl.n, UNKNOWN_OPERATION)
           \/ Handle(cl.n, cl.tag, cl.args)
    PROVE  /\ objects' \in [Name -> Content]
           /\ \E a, body : IsReply(a, body)' /\ inp' = <<Size, Body(a, body)>>
<1>1. objects \in [Name -> Content] /\ srv.ser \in Versions
  BY Zenon DEF Link
<1>2. effect(cl.tag, cl.args) \in [Name -> Content]
  BY <1>1, EffectTyped, Zenon
<1>3. ASSUME NEW rc \in {UNKNOWN, UNKNOWN_OPERATION, PROTOCOL_VERSION_MISMATCH},
             inp' = return_err_response(cl.n, rc)
      PROVE  \E a, body : IsReply(a, body)' /\ inp' = <<Size, Body(a, body)>>
  <2>1. PICK a, body : /\ a.ok = FALSE /\ IsError(body)
                       /\ return_err_response(cl.n, rc) = <<Size, Body(a, body)>>
    BY ErrorIs, Zenon
  <2>2. IsReply(a, body)'
    BY <2>1, Zenon DEF IsReply
  <2>3. QED
    BY <1>3, <2>1, <2>2, Zenon
<1>4. CASE Refuse(cl.n, UNKNOWN_OPERATION)
  BY <1>1, <1>3, <1>4, Zenon DEF Refuse
<1>5. CASE /\ objects' \in {objects, effect(cl.tag, cl.args)}
           /\ inp' = return_err_response(cl.n, UNKNOWN)
  BY <1>1, <1>2, <1>3, <1>5, Zenon
<1>6. CASE /\ objects' = effect(cl.tag, cl.args)
           /\ \E x \in Answers(cl.n, srv.ser, cl.tag) :
                LET v == answer_of(objects, cl.tag, cl.args, x)
                IN  inp' = Reply([id |-> cl.n, tag |-> cl.tag, ok |-> TRUE, v |-> v,
                                  ser |-> srv.ser],
                                 <<Field("u32", 0)>> \o Response(srv.ser, cl.tag, v))
  <2>1. PICK x \in Answers(cl.n, srv.ser, cl.tag) :
               LET v == answer_of(objects, cl.tag, cl.args, x)
               IN  inp' = Reply([id |-> cl.n, tag |-> cl.tag, ok |-> TRUE, v |-> v,
                                 ser |-> srv.ser],
                                <<Field("u32", 0)>> \o Response(srv.ser, cl.tag, v))
    BY <1>6, Zenon
  <2> DEFINE v == answer_of(objects, cl.tag, cl.args, x)
             a == [id |-> cl.n, tag |-> cl.tag, ok |-> TRUE, v |-> v, ser |-> srv.ser]
             body == answer_message(srv.ser, cl.tag, v)
  <2>2. inp' = Reply(a, body)
    BY <2>1, Zenon DEF answer_message
  <2>3. v = answer_of(objects', cl.tag, cl.args, x)
    BY <1>6, AnswerAfter, Zenon
  <2> HIDE DEF v
  <2>4. a.id = cl.n /\ a.tag = cl.tag /\ a.ok = TRUE /\ a.v = v /\ a.ser = srv.ser
    OBVIOUS
  <2> HIDE DEF a
  <2>5. body = answer_message(a.ser, cl.tag, a.v)
    BY <2>4, Zenon
  <2> HIDE DEF body
  <2>6. cl.tag = 24 => TakenEffect(objects', cl.args[4])
    BY <1>6, EffectTaken, Zenon
  <2>7. IsSuccess(objects', cl.n, cl.tag, cl.args, a, body)
    BY <1>1, <2>1, <2>3, <2>4, <2>5, <2>6, Zenon DEF IsSuccess
  <2>8. PICK b, m : b = a /\ m = body
    OBVIOUS
  <2>9. b.ok = TRUE /\ IsSuccess(objects', cl'.n, cl'.tag, cl'.args, b, m) /\ cl'.pc = "size"
    BY <2>4, <2>7, <2>8, Zenon
  <2>10. IsReply(b, m)'
    BY <2>9 DEF IsReply
  <2>11. inp' = <<Size, Body(b, m)>>
    BY <2>2, <2>8, ReplyIs, Zenon
  <2>12. QED
    BY <1>2, <1>6, <2>10, <2>11, Zenon
<1>7. QED
  BY <1>4, <1>5, <1>6, Zenon DEF Handle

(* A message is taken and answered.                                         *)
LEMMA ServeKeeps == ASSUME RequestsAgree, SessionInv, Serve PROVE SessionInv'
<1>1. /\ cl' = cl /\ sock' = sock /\ transport' = transport /\ mb' = mb
      /\ srv.pc = "loop" /\ out # <<>> /\ out' = Tail(out)
  BY Zenon DEF Serve
<1>2. srv = [f \in ProxyFields |-> srv[f]]
  BY Zenon DEF SessionInv, Shape
<1>3. \E tag, args : (\E rc : Refuse(out[1].id, rc)) \/ Handle(out[1].id, tag, args)
  BY Zenon DEF Serve
<1>4. /\ srv' = [f \in ProxyFields |-> srv'[f]] /\ srv'.pc = srv.pc
      /\ srv'.last = srv.last \/ srv'.last.id = out[1].id
  BY <1>2, <1>3, ServedProxy, Zenon
<1>5. Shape'
  BY <1>1, <1>4, Zenon DEF SessionInv, Shape
<1>6. ASSUME InStep' PROVE InStep /\ Requests
  BY <1>1, <1>6, Zenon DEF InStep, SessionInv
<1>7. ASSUME IsCall(cl.n, cl.tag, cl.args), out[1] = ThisMessage
      PROVE  /\ out[1].id = cl.n
             /\ \/ Refuse(cl.n, UNKNOWN_OPERATION)
                \/ Handle(cl.n, cl.tag, cl.args)
  <2>1. out[1].id = cl.n /\ out[1].body = request_message(cl.tag, cl.args)
    BY <1>7 DEF ThisMessage, CallMessage
  <2>2. RequestAgrees(cl.tag, cl.args)
    BY <1>7, Zenon DEF RequestsAgree, IsCall
  <2>3. QED
    BY <2>1, <2>2, ServeCases, Zenon
<1>8. ASSUME InStep' PROVE Requests'
  <2>1. 1 \in 1..Len(out)
    BY <1>1, <1>6, <1>8, SMT DEF Requests
  <2>2. /\ out[1].id \in Nat /\ out[1].id <= cl.n
        /\ out[1].id = cl.n /\ cl.n > 0 => out[1] = ThisMessage
        /\ srv.last.id \in Nat /\ srv.last.id <= cl.n
        /\ srv.last.id = cl.n /\ cl.n > 0 => srv.last.tag = cl.tag /\ srv.last.args = cl.args
    BY <1>6, <1>8, <2>1, Zenon DEF Requests
  <2>3. ASSUME srv'.last.id = cl.n, cl.n > 0
        PROVE  srv'.last.tag = cl.tag /\ srv'.last.args = cl.args
    <3>1. CASE srv'.last = srv.last
      BY <2>2, <2>3, <3>1, Zenon
    <3>2. CASE srv'.last # srv.last
      <4>1. out[1] = ThisMessage /\ IsCall(cl.n, cl.tag, cl.args)
        BY <1>4, <2>2, <2>3, <3>2, Zenon DEF SessionInv, Shape
      <4>2. QED
        BY <1>2, <1>7, <3>2, <4>1, ServedProxy, Zenon
    <3>3. QED
      BY <3>1, <3>2
  <2>4. srv'.last.id \in Nat /\ srv'.last.id <= cl.n
    BY <1>4, <2>2, Zenon
  <2>5. QED
    BY <1>1, <1>6, <1>8, <2>3, <2>4, TakenRequests, Zenon
<1>9. ASSUME InStep', sock' = "open" PROVE Link'
  <2>1. Link
    BY <1>1, <1>6, <1>9, Zenon DEF SessionInv
  <2>2. cl.pc = "size" /\ inp = <<>> /\ out = <<ThisMessage>>
    <3>1. Outgoing
      BY <1>1, <2>1 DEF Link
    <3>2. cl.pc \in {"connect", "idle", "output", "size", "body"}
      BY Zenon DEF SessionInv, Shape
    <3>3. QED
      BY <1>1, <3>1, <3>2 DEF Outgoing
  <2>3. out[1] = ThisMessage /\ Tail(out) = <<>>
    BY <2>2
  <2>4. IsCall(cl.n, cl.tag, cl.args)
    BY <2>2 DEF SessionInv, Shape
  <2>5. Refuse(cl.n, UNKNOWN_OPERATION) \/ Handle(cl.n, cl.tag, cl.args)
    BY <1>7, <2>3, <2>4, Zenon
  <2>6. objects' \in [Name -> Content]
    BY <1>1, <2>1, <2>2, <2>4, <2>5, ServedReply, Zenon
  <2>7. PICK a, body : IsReply(a, body)' /\ inp' = <<Size, Body(a, body)>>
    BY <1>1, <2>1, <2>2, <2>4, <2>5, ServedReply, Zenon
  <2>8. srv'.ser \in Versions
    <3>1. srv'.ser = srv.ser \/ (cl.tag = 32 /\ srv'.ser = UpdateSession(srv.ser, cl.args))
      <4>1. (\E rc : Refuse(cl.n, rc)) \/ Handle(cl.n, cl.tag, cl.args)
        BY <2>5, Zenon
      <4>2. QED
        BY <1>2, <4>1, ServedVersion, Zenon
    <3>2. QED
      BY <2>1, <2>4, <3>1, UpdateSessionTyped, Zenon DEF Link
  <2>9. inp' # <<>>
    BY <2>7
  <2>10. Incoming'
    BY <1>1, <2>2, <2>7 DEF Incoming
  <2>11. Outgoing'
    BY <1>1, <1>4, <2>2, <2>3, <2>9 DEF Outgoing
  <2>12. QED
    BY <1>1, <1>4, <2>1, <2>2, <2>6, <2>8, <2>10, <2>11 DEF Link
<1>10. ASSUME InStep', sock' = "closed" PROVE Closed'
  BY <1>1, <1>6, <1>10, Zenon DEF SessionInv, Closed
<1>11. QED
  BY <1>5, <1>8, <1>9, <1>10, Zenon DEF SessionInv

(*------------------------------ the theorems ------------------------------*)

(* Every step keeps the invariant ...                                       *)
LEMMA SessionStep == SessionInv /\ [Next]_vars => SessionInv'
<1> SUFFICES ASSUME SessionInv, [Next]_vars PROVE SessionInv'
  OBVIOUS
<1>1. CASE UNCHANGED vars
  <2>1. /\ cl' = cl /\ sock' = sock /\ transport' = transport /\ mb' = mb /\ objects' = objects
        /\ out' = out /\ inp' = inp /\ srv' = srv
    BY <1>1 DEF vars
  <2>2. QED
    <3>1. ThisMessage' = ThisMessage /\ InStep' = InStep
      BY <2>1, Zenon DEF ThisMessage, InStep
    <3>2. Shape' /\ (Closed => Closed')
      BY <2>1, Zenon DEF SessionInv, Shape, Closed
    <3>3. Requests => Requests'
      BY <2>1, <3>1, Zenon DEF Requests
    <3>4. (Incoming => Incoming') /\ (Returned => Returned')
      BY <2>1, Zenon DEF Incoming, IsReply, Returned
    <3>5. Outgoing => Outgoing'
      BY <2>1, <3>1, Zenon DEF Outgoing
    <3>6. Link => Link'
      BY <2>1, <3>4, <3>5, Zenon DEF Link
    <3>7. QED
      BY <2>1, <3>1, <3>2, <3>3, <3>6, Zenon DEF SessionInv
<1>2. CASE \E tag \in Tags : \E args \in Arguments(cl.n + 1, tag) : Call(tag, args)
  BY <1>2, CallKeeps, Zenon
<1>3. CASE Connect \/ Output \/ OutputOnClosed \/ TcpDeadline
  BY <1>3, ConnectKeeps, OutputKeeps, OutputOnClosedKeeps, TcpDeadlineKeeps, Zenon
<1>4. CASE RdmaWriteDeadline \/ RdmaReadDeadline
  BY <1>4, RdmaDeadlineKeeps, Zenon
<1>5. CASE ReadSize \/ ReadBody \/ ReadEof
  BY <1>5, FormatsAgree, ReadSizeKeeps, ReadBodyKeeps, ReadEofKeeps, Zenon
<1>6. CASE Hello \/ Serve \/ ServeJunk \/ ProxyGone
  BY <1>6, FormatsAgree, HelloKeeps, ServeKeeps, ServeJunkKeeps, ProxyGoneKeeps, Zenon
<1>7. QED
  BY <1>1, <1>2, <1>3, <1>4, <1>5, <1>6, Zenon DEF Next

(* ... so it holds throughout a session.                                    *)
LEMMA SessionInvHolds == Spec => []SessionInv
BY InitSession, SessionStep, PTL DEF Spec

(* What the proxy parses out of a message of a connection in step is the    *)
(* call that sent it, whatever was called before and how it ended: _mb      *)
(* holds one request when it is sent, and a call that ended with a TCP      *)
(* deadline leaves a closed socket.                                         *)
THEOREM SessionRequestsArriveAsSent == Spec => []RequestsArriveAsSent
<1>1. SessionInv => RequestsArriveAsSent
  BY Zenon DEF SessionInv, Requests, RequestsArriveAsSent
<1>2. QED
  BY <1>1, SessionInvHolds, PTL

(* A call that returns normally returns the answer to itself: no error of   *)
(* the handshake, answer to an earlier call or part of one is taken for it. *)
THEOREM SessionAnswersBelongToTheirCall == Spec => []AnswersBelongToTheirCall
<1>1. SessionInv => AnswersBelongToTheirCall
  <2> SUFFICES ASSUME SessionInv, InStep, cl.pc = "idle", cl.res.st \in {"ok", "junk"}
               PROVE  /\ cl.answer.id = cl.n /\ cl.answer.tag = cl.tag /\ cl.answer.ok
                      /\ IsResult(objects, cl.tag, cl.args, cl.answer.ser, cl.answer.v, cl.res.v)
    BY Zenon DEF AnswersBelongToTheirCall
  <2>1. sock # "closed"
    BY DEF SessionInv, Closed
  <2>2. Returned
    BY <2>1, Zenon DEF SessionInv, Shape, Link
  <2>3. QED
    BY <2>2, Zenon DEF Returned
<1>2. QED
  BY <1>1, SessionInvHolds, PTL

(* A call whose request was answered, with no deadline passed, returns      *)
(* normally, unless the answer is a single manifest it cannot read.         *)
THEOREM SessionNoCallFailsToParse == Spec => []NoCallFailsToParse
<1>1. SessionInv => NoCallFailsToParse
  <2> SUFFICES ASSUME SessionInv, InStep, ~cl.late, cl.pc = "idle", cl.answer.ok,
                      cl.answer.id = cl.n, cl.tag # 21
               PROVE  cl.res.st = "ok"
    BY Zenon DEF NoCallFailsToParse
  <2>1. sock # "closed"
    BY DEF SessionInv, Closed
  <2>2. Returned
    BY <2>1, Zenon DEF SessionInv, Shape, Link
  <2>3. QED
    BY <2>2, Zenon DEF Returned
<1>2. QED
  BY <1>1, SessionInvHolds, PTL

(* After apply_sequence has returned normally each object it names is what  *)
(* the first update for it makes of it, for every list of updates: the      *)
(* proxy turns the list round, the filter of the NSM keeps the last update  *)
(* of the turned list, and nothing handles another request before the next  *)
(* call.  A caller who lists two updates for a name gets the first one.     *)
THEOREM SessionFirstUpdateTakesEffect == Spec => []FirstUpdateTakesEffect
<1>1. SessionInv => FirstUpdateTakesEffect
  <2> SUFFICES ASSUME SessionInv, InStep, cl.tag = 24, cl.pc = "idle", cl.res.st = "ok"
               PROVE  TakenEffect(objects, cl.args[4])
    BY Zenon DEF FirstUpdateTakesEffect, TakenEffect
  <2>1. sock # "closed"
    BY DEF SessionInv, Closed
  <2>2. Returned
    BY <2>1, Zenon DEF SessionInv, Shape, Link
  <2>3. QED
    BY <2>2, Zenon DEF Returned
<1>2. QED
  BY <1>1, SessionInvHolds, PTL
=============================================================================
