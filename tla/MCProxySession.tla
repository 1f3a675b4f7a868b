--------------------------- MODULE MCProxySession ---------------------------
(* ProxySession with the formats of Wire, for TLC.  The tags of OldProxy are *)
(* those the constructor of RoraProxy_client expects an older proxy to       *)
(* answer with UNKNOWN_OPERATION.                                            *)
EXTENDS ProxySession, Wire

CONSTANT Samples       \* the argument lists and answers a call is tried with

const_ProxyCompressions == 1..5
const_OldProxy == {28, 31, 32, 33}
const_Tags == DOMAIN cpp
const_Stored == {"a" :> "a" @@ "b" :> "a", "a" :> "a" @@ "b" :> None}

(* The i-th sample of a format: neighbouring fields get different values,   *)
(* so that a swap, a reversal or a dropped field shows.                     *)
RECURSIVE Sample(_, _)
Sample(f, i) ==
    CASE f.t = "prim" -> CASE f.k = "bool" -> i % 2 = 0
                           [] f.k \in {"str", "small"} -> <<"a", "b">>[1 + (i % 2)]
                           [] OTHER -> i % 3
      [] f.t = "x64" -> <<1, MAX_INT32, MAX_INT32 + 1>>[1 + (i % 3)]
      [] f.t = "opt" -> IF i % 2 = 0 THEN <<>> ELSE <<Sample(f.f, i)>>
      [] f.t = "list" ->
           IF i % 3 = 0 THEN <<>> ELSE <<Sample(f.f, i), Sample(f.f, i + (i % 3))>>
      [] f.t = "tup" -> Eager([j \in DOMAIN f.fs |-> Sample(f.fs[j], i + j)])
      [] f.t = "alt" -> LET tags == SetToSortSeq(DOMAIN f.fs, <)
                            tag == tags[1 + (i % Len(tags))]
                        IN  [tag |-> tag, v |-> Sample(f.fs[tag], i)]
      [] f.t = "box" -> Sample(f.f, i)

SampleManifest(i) ==
    [head |-> Sample(ml_head, i), fragments |-> Sample(Lst(Lst(ml_Fragment)), i),
     tail |-> <<i, i, i>>]

SampleInfos(i) ==
    Eager([j \in 1..(i % 3) |->
             [mf |-> SampleManifest(i + j), alba_id |-> Sample(Str, i + j),
              namespace_id |-> Sample(X64, i + j)]])

(* Pairs with and without a value, of this key and of another.              *)
SamplePairs(i) ==
    LET asks == <<"manifest_ser", <<i>>>>
    IN  CASE i = 1 -> << <<"a", <<2>>>>, <<"manifest_ser", <<>>>> >>
          [] i = 2 -> << <<"manifest_ser", <<1>>>>, asks, <<"manifest_ser", <<>>>> >>
          [] OTHER -> <<asks>>

SampleArguments(tag, i) == IF tag = 32 THEN <<SamplePairs(i)>> ELSE Sample(cpp[tag].req, i)

SampleAnswer(tag, i) ==
    CASE tag \in {13, 32} -> <<>>
      [] tag \in {23, 24} -> SampleInfos(i)
      [] tag = 21 -> SampleInfos(1)[1]
      [] OTHER -> Sample(deser_request_o[tag], i)

(* Tables, which TLC evaluates once.                                        *)
AllArguments == [tag \in DOMAIN cpp |-> {SampleArguments(tag, i) : i \in Samples}]
OneArgument == [tag \in DOMAIN cpp |-> {SampleArguments(tag, 3)}]
AllAnswers == [tag \in DOMAIN cpp |-> {SampleAnswer(tag, i) : i \in Samples}]
OneAnswer == [tag \in DOMAIN cpp |-> {SampleAnswer(tag, 1)}]

(* The first call is made with every sample, later ones with one; every     *)
(* answer is given to the first call and in a session of version 2.         *)
const_Arguments(n, tag) == (IF n = 1 THEN AllArguments ELSE OneArgument)[tag]
const_Answers(n, ser, tag) == (IF n = 1 \/ ser = 2 THEN AllAnswers ELSE OneAnswer)[tag]
=============================================================================
