---------------------------- MODULE ProxySession ----------------------------
(***************************************************************************)
(* One connection between a GenericProxy_client (C++) and the proxy that    *)
(* serves it (proxy_server.ml): the calls of the client, the bytes under    *)
(* way in both directions, and the proxy's loop.                            *)
(*                                                                         *)
(* What the two sides write and read after the tag of a request and after   *)
(* the return code of an answer is a parameter, so that what the session    *)
(* does with messages can be reasoned about apart from their formats; Wire  *)
(* has the formats.                                                         *)
(*                                                                         *)
(* The transport is TCP or RDMA.  A deadline that passes makes both throw,  *)
(* but only TCP closes its socket; and an RDMA transfer that is under way   *)
(* when the deadline passes returns as if it were complete.                 *)
(***************************************************************************)
EXTENDS Llio, Integers, FiniteSets, SequencesExt

CONSTANTS Name,               \* names of objects
          Content,            \* what an object can hold, None included
          Stored,             \* what the namespace can hold at first
          MaxCalls,           \* calls of a session
          Tags,               \* the tags of the calls of the client
          OldProxy,           \* tags a proxy of an earlier version does not know
          Arguments(_, _),    \* the arguments of the n-th call, with a tag
          Answers(_, _, _),   \* what a handler can answer to the n-th call, in
                              \* a session of some version, with a tag
          Request(_, _),      \* a tag and arguments -> fields
          RequestFrom(_, _),  \* a tag and fields -> arguments, or an exception
          Response(_, _, _),  \* a version, a tag and an answer -> fields
          ResponseFrom(_, _, _)  \* a tag, arguments and fields -> a result

None == "none"

(* What an update of a sequence makes of its object: 3 deletes.             *)
Contents(u) == IF u.tag = 3 THEN None ELSE u.v[2]

ASSUME SessionAssumption ==
    /\ MaxCalls \in Nat
    /\ None \in Content /\ Stored \subseteq [Name -> Content]

(* The arguments that say what becomes of the objects.                      *)
ASSUME ArgumentsAssumption ==
    \A n \in 1..MaxCalls, tag \in Tags : \A args \in Arguments(n, tag) :
      /\ tag \in {11, 21} => args[3] \in Content
      /\ tag = 24 =>
           /\ DOMAIN args[4] = 1..Len(args[4]) /\ Len(args[4]) \in Nat
           /\ \A i \in DOMAIN args[4] :
                args[4][i].v[1] \in Name /\ Contents(args[4][i]) \in Content

VARIABLES transport,   \* "tcp" or "rdma"
          known,       \* the tags in the proxy's command_map
          mb,          \* _mb, the client's message_builder
          cl,          \* the client's thread: where it is in which call
          sock,        \* the client's socket
          out, inp,    \* bytes to and from the proxy
          srv,         \* the proxy's loop for this connection
          objects      \* what the namespace holds: name -> contents

vars == <<transport, known, mb, cl, sock, out, inp, srv, objects>>

(*------------------------------ the client ------------------------------*)

SlicesTags == {13, 23}

(* osd_info and osd_info2 are the calls that do not end in check_status.    *)
checked(tag) == tag \notin {22, 28}

(* The return code, 0 if there is an answer. *)
read_status(m) == prim_from("u32", m)

(* read_status, then the response, then check_status. *)
Result(tag, args, m) ==
    LET Checked(rc, x) ==
          CASE rc # 0 -> [st |-> IF checked(tag) THEN "rc" ELSE "empty", v |-> <<rc>>]
            [] rc = 0 /\ x.ok -> [st |-> "ok", v |-> x.v]
            [] rc = 0 /\ terminates(x) -> [st |-> "terminated", v |-> <<>>]
            [] OTHER -> [st |-> "exn", v |-> <<>>]
        status == read_status(m)
    IN  Checked(status.v, ResponseFrom(tag, args, status.rest))

NoResult == [st |-> "none", v |-> <<>>]
Throws == [st |-> "exn", v |-> <<>>]
Junk == [st |-> "junk", v |-> <<>>]
NoAnswer == [id |-> 0, tag |-> 0, ok |-> FALSE, v |-> <<>>, ser |-> 1]
Returns(res) == cl' = [cl EXCEPT !.pc = "idle", !.res = res]

(* make_proxy_client: the transport is connected, init_ writes magic and    *)
(* version.                                                                 *)
Connect ==
    /\ cl.pc = "connect"
    /\ cl' = [cl EXCEPT !.pc = "idle"]
    /\ out' = Append(out, [id |-> 0, whole |-> TRUE, body |-> <<>>])
    /\ UNCHANGED <<transport, known, mb, sock, inp, srv, objects>>

(* A call writes its request into _mb.  Reading no slices is no call, and   *)
(* after an answer that ended the process there is none.                    *)
Call(tag, args) ==
    LET started == [cl EXCEPT !.n = @ + 1, !.tag = tag, !.args = args,
                          !.res = NoResult, !.answer = NoAnswer]
    IN  /\ cl.pc = "idle" /\ cl.n < MaxCalls /\ cl.res.st # "terminated"
        /\ IF tag \in SlicesTags /\ args[2] = <<>>
           THEN cl' = started /\ UNCHANGED mb
           ELSE /\ cl' = [started EXCEPT !.pc = "output"]
                /\ mb' = mb \o <<Field("u32", tag)>> \o Request(tag, args)
        /\ UNCHANGED <<transport, known, sock, out, inp, srv, objects>>

(* Mutant: _mb is not reset. *)
OutputNoReset ==
    /\ cl.pc = "output" /\ sock = "open"
    /\ out' = Append(out, [id |-> cl.n, whole |-> TRUE, body |-> mb])
    /\ cl' = [cl EXCEPT !.pc = "size"]
    /\ UNCHANGED <<transport, known, mb, sock, inp, srv, objects>>

(* _output: write_exact of what is in _mb, then _mb.reset().                *)
Output ==
    /\ cl.pc = "output" /\ sock = "open"
    /\ out' = Append(out, [id |-> cl.n, whole |-> TRUE, body |-> mb])
    /\ mb' = <<>>
    /\ cl' = [cl EXCEPT !.pc = "size"]
    /\ UNCHANGED <<transport, known, sock, inp, srv, objects>>

(* A closed socket makes every later write_exact throw.                     *)
OutputOnClosed ==
    /\ cl.pc = "output" /\ sock = "closed"
    /\ Returns(Throws)
    /\ UNCHANGED <<transport, known, mb, sock, out, inp, srv, objects>>

(* Mutant: no deadline while the body of an answer is read. *)
TcpDeadlineOnce ==
    /\ transport = "tcp" /\ sock = "open"
    /\ cl.pc \in {"output", "size"}
    /\ sock' = "closed"
    /\ cl' = [cl EXCEPT !.pc = "idle", !.res = Throws, !.late = TRUE]
    /\ UNCHANGED <<transport, known, mb, out, inp, srv, objects>>

(* Mutant: the socket stays open. *)
TcpDeadlineOpen ==
    /\ transport = "tcp" /\ sock = "open"
    /\ cl.pc \in {"output", "size", "body"}
    /\ cl' = [cl EXCEPT !.pc = "idle", !.res = Throws, !.late = TRUE]
    /\ UNCHANGED <<transport, known, mb, sock, out, inp, srv, objects>>

(* The deadline passes on TCP: _check_deadline closes the socket, the       *)
(* transfer under way ends with an error, and it is thrown.                 *)
TcpDeadline ==
    /\ transport = "tcp" /\ sock = "open"
    /\ cl.pc \in {"output", "size", "body"}
    /\ sock' = "closed"
    /\ cl' = [cl EXCEPT !.pc = "idle", !.res = Throws, !.late = TRUE]
    /\ UNCHANGED <<transport, known, mb, out, inp, srv, objects>>

(* The deadline passes in RDMA_transport::write_exact: rpoll gives up       *)
(* before anything or after a part was sent, or the loop ends with a part   *)
(* unsent, which nobody notices.                                            *)
RdmaWriteDeadline ==
    /\ transport = "rdma" /\ cl.pc = "output"
    /\ LET part == Append(out, [id |-> cl.n, whole |-> FALSE, body |-> <<>>])
       IN  \/ /\ out' \in {out, part}
              /\ cl' = [cl EXCEPT !.pc = "idle", !.res = Throws, !.late = TRUE]
              /\ UNCHANGED mb
           \/ /\ out' = part /\ mb' = <<>>
              /\ cl' = [cl EXCEPT !.pc = "size", !.late = TRUE]
    /\ UNCHANGED <<transport, known, sock, inp, srv, objects>>

(* The deadline passes in RDMA_transport::read_exact, before or after a     *)
(* part was read: it throws, or returns with that part, and the rest stays  *)
(* in the stream.                                                           *)
RdmaReadDeadline ==
    /\ transport = "rdma" /\ cl.pc \in {"size", "body"}
    /\ \/ UNCHANGED inp
       \/ inp # <<>> /\ inp' = <<[part |-> "rest"]>> \o Tail(inp)
    /\ \E res \in {Throws, Junk} :
         cl' = [cl EXCEPT !.pc = "idle", !.res = res, !.late = TRUE]
    /\ UNCHANGED <<transport, known, mb, sock, out, srv, objects>>

(* message_buffer::from_reader reads a length, and then as many bytes.  A   *)
(* length taken from the middle of an answer is junk, and so is what comes  *)
(* of parsing the answer to another call.                                   *)
ReadSize ==
    /\ cl.pc = "size" /\ sock = "open" /\ inp # <<>>
    /\ inp' = Tail(inp)
    /\ IF inp[1].part = "size" THEN cl' = [cl EXCEPT !.pc = "body"] ELSE Returns(Junk)
    /\ UNCHANGED <<transport, known, mb, sock, out, srv, objects>>

ReadBody ==
    /\ cl.pc = "body" /\ sock = "open" /\ inp # <<>>
    /\ inp' = Tail(inp)
    /\ LET answer == inp[1].answer
           others == answer.ok /\ (answer.id # cl.n \/ answer.tag # cl.tag)
       IN  cl' = [cl EXCEPT !.pc = "idle", !.answer = answer,
                    !.res = IF others THEN Junk
                            ELSE Result(cl.tag, cl.args, inp[1].body)]
    /\ UNCHANGED <<transport, known, mb, sock, out, srv, objects>>

(* End of file: the proxy is gone and all it sent has been read.            *)
ReadEof ==
    /\ cl.pc \in {"size", "body"} /\ srv.pc = "gone" /\ inp = <<>>
    /\ Returns(Throws)
    /\ UNCHANGED <<transport, known, mb, sock, out, inp, srv, objects>>

(*------------------------------- the proxy -------------------------------*)

UNKNOWN == 1
UNKNOWN_OPERATION == 13
PROTOCOL_VERSION_MISMATCH == 17

Reply(answer, body) ==
    inp \o <<[part |-> "size"], [part |-> "body", body |-> body, answer |-> answer]>>
return_err_response(id, rc) ==
    Reply([NoAnswer EXCEPT !.id = id, !.v = <<rc>>],
          <<Field("u32", rc), Field("str", "what")>>)

(* _read_objects_slices: the slices' bytes in the order of the request.     *)
slices_data(objs, objects_slices) ==
    FlattenSeq(FlattenSeq([o \in DOMAIN objects_slices |->
      LET name == objects_slices[o][1]
          slices == objects_slices[o][2]
      IN  [s \in DOMAIN slices |->
             [b \in 1..slices[s][2] |-> <<name, objs[name], slices[s][1] + b>>]]]))

(* apply_sequence of proxy_server.ml conses the updates onto a list. *)
with_alba_sequence_updates(updates) == Reverse(updates)

(* The update of n that no other update of n follows.                       *)
LastOf(updates, n) ==
    {i \in DOMAIN updates : /\ updates[i].v[1] = n
                            /\ \A j \in (i + 1)..Len(updates) : updates[j].v[1] # n}

(* apply_sequence of nsm_model.ml: of the updates of a name the last one in *)
(* the list has effect.                                                     *)
nsm_apply_sequence(objs, updates) ==
    [n \in Name |->
       LET mine == LastOf(updates, n)
       IN  IF mine = {} THEN objs[n] ELSE Contents(updates[CHOOSE i \in mine : TRUE])]

(* What an assert needs of the object; whether its id or checksum is the    *)
(* one named is left open.                                                  *)
assert_may_hold(a) == (objects[a.v[1]] = None) = (a.tag = 2)

(* update_session: the version asked for by a pair of "manifest_ser" and a  *)
(* value, 2 at most; the last such pair counts.  Pairs without a value or   *)
(* with another key are passed over, also in the answer.                    *)
AsksVersion(pair) == pair[1] = "manifest_ser" /\ pair[2] # <<>>
new_version(pair) == LET wanted == pair[2][1] IN IF wanted < 2 THEN wanted ELSE 2

UpdateSession(ser, args) ==
    LET asks == {i \in DOMAIN args[1] :
                   /\ AsksVersion(args[1][i])
                   /\ \A j \in (i + 1)..Len(args[1]) : ~AsksVersion(args[1][j])}
    IN  IF asks = {} THEN ser ELSE new_version(args[1][CHOOSE i \in asks : TRUE])

session_versions(args) ==
    LET asking == SelectSeq(args[1], AsksVersion)
    IN  [i \in DOMAIN asking |-> <<asking[i][1], new_version(asking[i])>>]

(* The handlers: when they can succeed, what they change, and what they     *)
(* answer, which is x where it is left open.                                *)
may_succeed(tag, args) ==
    CASE tag \in SlicesTags -> \A o \in DOMAIN args[2] : objects[args[2][o][1]] # None
      [] tag \in {11, 21} -> args[4] \/ objects[args[2]] = None
      [] tag = 8 -> args[3] \/ objects[args[2]] # None
      [] tag = 24 -> \A a \in DOMAIN args[3] : assert_may_hold(args[3][a])
      [] OTHER -> TRUE

effect(tag, args) ==
    CASE tag \in {11, 21} -> [objects EXCEPT ![args[2]] = args[3]]
      [] tag = 8 -> [objects EXCEPT ![args[2]] = None]
      [] tag = 24 -> nsm_apply_sequence(objects, with_alba_sequence_updates(args[4]))
      [] OTHER -> objects

answer_of(objs, tag, args, x) ==
    CASE tag = 13 -> [data |-> slices_data(objs, args[2]), infos |-> <<>>]
      [] tag = 23 -> [data |-> slices_data(objs, args[2]), infos |-> x]
      [] tag = 32 -> <<session_versions(args)>>
      [] OTHER -> x

(* The handshake: magic and version are read; a proxy of another version    *)
(* answers with an error nobody asked for yet, and closes.                  *)
Hello ==
    /\ srv.pc = "hello" /\ out # <<>>
    /\ out' = Tail(out)
    /\ \/ srv' = [srv EXCEPT !.pc = "loop"] /\ UNCHANGED inp
       \/ /\ srv' = [srv EXCEPT !.pc = "gone"]
          /\ inp' = return_err_response(0, PROTOCOL_VERSION_MISMATCH)
    /\ UNCHANGED <<transport, known, mb, cl, sock, objects>>

(* The request args, in the message of call id, is handled: it succeeds     *)
(* with an answer, or fails before or after its effect.                    *)
Handle(id, tag, args) ==
    LET last == [id |-> id, tag |-> tag, args |-> args]
    IN  \/ /\ may_succeed(tag, args)
           /\ objects' = effect(tag, args)
           /\ srv' = [srv EXCEPT !.last = last,
                        !.ser = IF tag = 32 THEN UpdateSession(@, args) ELSE @]
           /\ \E x \in Answers(id, srv.ser, tag) :
                LET v == answer_of(objects, tag, args, x)
                IN  inp' = Reply([id |-> id, tag |-> tag, ok |-> TRUE, v |-> v,
                                  ser |-> srv.ser],
                                 <<Field("u32", 0)>> \o Response(srv.ser, tag, v))
        \/ /\ objects' \in {objects, effect(tag, args)}
           /\ srv' = [srv EXCEPT !.last = last]
           /\ inp' = return_err_response(id, UNKNOWN)

(* A request that is not in the command map, or does not parse.             *)
Refuse(id, rc) == inp' = return_err_response(id, rc) /\ UNCHANGED <<srv, objects>>

(* One message is read, its first request handled, one answer written.      *)
(* What follows the first request in the message is not looked at.          *)
Serve ==
    /\ srv.pc = "loop" /\ out # <<>> /\ out[1].whole
    /\ out' = Tail(out)
    /\ LET id == out[1].id
           code == prim_from("u32", out[1].body)
           tag == code.v
       IN  IF tag \notin known
           THEN Refuse(id, UNKNOWN_OPERATION)
           ELSE \E x \in {RequestFrom(tag, code.rest)} :
                  IF x.ok THEN Handle(id, tag, x.v) ELSE Refuse(id, UNKNOWN)
    /\ UNCHANGED <<transport, known, mb, cl, sock>>

(* A message cut short is completed with the bytes of the next one.         *)
ServeJunk ==
    /\ srv.pc = "loop" /\ Len(out) > 1 /\ ~out[1].whole
    /\ out' = Tail(Tail(out))
    /\ inp' = return_err_response(0, UNKNOWN)
    /\ UNCHANGED <<transport, known, mb, cl, sock, srv, objects>>

(* The proxy stops, or its side of the connection does.                     *)
ProxyGone ==
    /\ srv.pc # "gone"
    /\ srv' = [srv EXCEPT !.pc = "gone"]
    /\ UNCHANGED <<transport, known, mb, cl, sock, out, inp, objects>>

(*------------------------- the specification -------------------------*)

Init ==
    /\ transport \in {"tcp", "rdma"}
    /\ known \in {Tags, Tags \ OldProxy}
    /\ mb = <<>>
    /\ cl = [pc |-> "connect", n |-> 0, tag |-> 0, args |-> <<>>, late |-> FALSE,
             res |-> NoResult, answer |-> NoAnswer]
    /\ sock = "open"
    /\ out = <<>> /\ inp = <<>>
    /\ srv = [pc |-> "hello", ser |-> 1, last |-> [id |-> 0, tag |-> 0, args |-> <<>>]]
    /\ objects \in Stored

Next ==
    \/ Connect
    \/ \E tag \in Tags : \E args \in Arguments(cl.n + 1, tag) : Call(tag, args)
    \/ Output \/ OutputOnClosed \/ TcpDeadline
    \/ RdmaWriteDeadline \/ RdmaReadDeadline
    \/ ReadSize \/ ReadBody \/ ReadEof
    \/ Hello \/ Serve \/ ServeJunk
    \/ ProxyGone

Spec == Init /\ [][Next]_vars

(* The deadline timer of TCP goes off, and a write to a closed socket ends  *)
(* at once.  Of the proxy and of the network nothing is assumed.            *)
Fairness == WF_vars(TcpDeadline) /\ WF_vars(OutputOnClosed)

FairSpec == Spec /\ Fairness

(*----------------------------- properties -----------------------------*)

(* No deadline has passed on this RDMA connection.                          *)
InStep == transport = "tcp" \/ ~cl.late

(* What the proxy parsed out of a message is the call that sent it, with    *)
(* its arguments: the write_..._request functions of proxy_protocol.cc and  *)
(* deser_request_i of proxy_protocol.ml agree, and no earlier request is    *)
(* left in _mb.                                                             *)
RequestsArriveAsSent ==
    InStep /\ srv.last.id = cl.n /\ cl.n > 0 =>
      srv.last.tag = cl.tag /\ srv.last.args = cl.args

(* What the client makes of manifests and OSDs it is sent, and the bytes of *)
(* each slice: those of its own object and range.                           *)
Readable(x) == x.mf.head[4].v[2].tag \in 1..4
InfoSeen(ser, x) ==
    LET seen(fr) == IF ser = 1 THEN SubSeq(fr, 1, 3) \o <<<<>>, <<>>>> ELSE fr
    IN  <<x.mf.head[1], x.alba_id,
          [head |-> x.mf.head,
           fragments |-> [c \in DOMAIN x.mf.fragments |->
                            [g \in DOMAIN x.mf.fragments[c] |-> seen(x.mf.fragments[c][g])]]],
          x.namespace_id>>
InfosSeen(ser, infos) ==
    {InfoSeen(ser, infos[i]) : i \in {j \in DOMAIN infos : Readable(infos[j])}}
OsdsSeen(osds) ==
    [i \in DOMAIN osds |->
       LET kind == osds[i][2].v[1]
       IN  <<osds[i][1],
             [tag |-> 3, v |-> [tag |-> kind.tag,
                v |-> IF kind.tag = 1 THEN Append(kind.v, osds[i][2].v[2]) ELSE <<>>]],
             osds[i][3]>>]
SlicesSeen(objs, args) ==
    FlattenSeq([o \in DOMAIN args[2] |->
      [s \in DOMAIN args[2][o][2] |->
         [b \in 1..args[2][o][2][s][2] |->
            <<args[2][o][1], objs[args[2][o][1]], args[2][o][2][s][1] + b>>]]])

(* res is what a call has to return when v is the proxy's answer, while the *)
(* objects are objs.                                                        *)
IsResult(objs, tag, args, ser, v, res) ==
    CASE tag = 13 -> res.slices = SlicesSeen(objs, args)
      [] tag = 23 -> /\ res.slices = SlicesSeen(objs, args)
                     /\ ToSet(res.infos) = InfosSeen(ser, v.infos)
      [] tag = 24 -> ToSet(res) = InfosSeen(ser, v)
      [] tag = 21 -> res = SubSeq(InfoSeen(ser, v), 3, 4)
      [] tag = 22 -> res = <<OsdsSeen(v[1])>>
      [] tag = 28 -> res = <<[l \in DOMAIN v[1] |-> <<v[1][l][1], OsdsSeen(v[1][l][2])>>]>>
      [] OTHER -> res = v

(* A call that returns normally returns the answer to itself, field by      *)
(* field: each slice has the bytes of its own range, every manifest that    *)
(* can be read is there and only those, and an error is never taken for an  *)
(* answer but by osd_info and osd_info2.  This is the agreement of          *)
(* deser_request_o with the read_..._response functions, the order of       *)
(* vectors on the wire, the skipping of unreadable manifests, and that no   *)
(* answer is left in the stream for the next call.                          *)
AnswersBelongToTheirCall ==
    LET a == cl.answer
    IN  InStep /\ cl.pc = "idle" /\ cl.res.st \in {"ok", "junk"} =>
          /\ a.id = cl.n /\ a.tag = cl.tag /\ a.ok
          /\ IsResult(objects, cl.tag, cl.args, a.ser, a.v, cl.res.v)

(* An answer that parses wrongly, or an error the proxy did not report,     *)
(* does not occur on a connection in step: a call throws because of the     *)
(* proxy's own error, a deadline, the end of the connection, or a single    *)
(* manifest it cannot read (write_object_fs2).                              *)
NoCallFailsToParse ==
    InStep /\ ~cl.late /\ cl.pc = "idle" /\ cl.answer.ok /\ cl.answer.id = cl.n
      /\ cl.tag # 21 => cl.res.st = "ok"

(* After apply_sequence has returned normally each object it names is what  *)
(* the first update for it makes of it, whatever the other updates for it   *)
(* are: the vector and the list of the wire keep the order, the proxy turns *)
(* it round, and the namespace manager keeps the last one of what it gets.  *)
FirstUpdateTakesEffect ==
    LET updates == cl.args[4]
    IN  InStep /\ cl.tag = 24 /\ cl.pc = "idle" /\ cl.res.st = "ok" =>
          \A u \in DOMAIN updates :
            (\A w \in 1..(u - 1) : updates[w].v[1] # updates[u].v[1])
              => objects[updates[u].v[1]] = Contents(updates[u])

(* "only the last update for the name has effect" (nsm_model.ml:1739), for  *)
(* the updates as the caller of apply_sequence lists them: after it has     *)
(* returned normally each object is what the last update for it makes of    *)
(* it.  with_alba_sequence_updates of the proxy turns the list round.       *)
LastUpdateTakesEffect ==
    LET updates == cl.args[4]
    IN  InStep /\ cl.tag = 24 /\ cl.pc = "idle" /\ cl.res.st = "ok" =>
          \A n \in Name : \A u \in LastOf(updates, n) : objects[n] = Contents(updates[u])

(* On TCP a call returns or throws, whatever becomes of the proxy: the      *)
(* deadline of each read and write sees to it.                              *)
CallsEnd ==
    (transport = "tcp" /\ cl.pc \in {"output", "size", "body"}) ~> cl.pc = "idle"

(*--------------------------- the two formats ---------------------------*)

RequestAgrees(tag, args) ==
    LET code == prim_from("u32", <<Field("u32", tag)>> \o Request(tag, args))
        x == RequestFrom(tag, code.rest)
    IN  code.v = tag /\ x.ok /\ x.v = args

(* The two sides agree on requests: the proxy reads the message of a call   *)
(* as that call.  This is about the write_..._request functions of          *)
(* proxy_protocol.cc and deser_request_i of proxy_protocol.ml alone.        *)
RequestsAgree ==
    \A n \in 1..MaxCalls, tag \in Tags :
      \A args \in Arguments(n, tag) : RequestAgrees(tag, args)

(* The versions of manifests a session can come to have.                    *)
Versions ==
    {1} \cup UNION {{UpdateSession(1, args) : args \in Arguments(n, 32)} : n \in 1..MaxCalls}

AnswerAgrees(objs, ser, tag, args, x) ==
    LET v == answer_of(objs, tag, args, x)
        res == Result(tag, args, <<Field("u32", 0)>> \o Response(ser, tag, v))
    IN  /\ res.st = "ok" => IsResult(objs, tag, args, ser, v, res.v)
        /\ res.st = "ok" \/ (tag = 21 /\ res.st = "exn")

(* The two sides agree on answers: a call that is answered returns what it  *)
(* has to, and fails only on a single manifest it cannot read.  This is     *)
(* about deser_request_o and the read_..._response functions alone.         *)
AnswersAgree ==
    \A n \in 1..MaxCalls, tag \in Tags, ser \in Versions, objs \in [Name -> Content] :
      \A args \in Arguments(n, tag), x \in Answers(n, ser, tag) :
        AnswerAgrees(objs, ser, tag, args, x)

(* What is said of a session above is about more than single messages, and  *)
(* can hold only if those are read as they were written.                    *)
ASSUME FormatsAgree == RequestsAgree /\ AnswersAgree
=============================================================================
