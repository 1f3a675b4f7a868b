-------------------------------- MODULE Wire --------------------------------
(***************************************************************************)
(* The protocol between the C++ client and the OCaml proxy, as both sides   *)
(* write and read it.  A message is a sequence of typed fields; what a      *)
(* function of proxy_protocol.cc, manifest.cc, osd_info.cc, ... writes or   *)
(* reads is a format, a value that To and From interpret.  The formats of   *)
(* the C++ side come first, those of the OCaml side (ml_...) after them:    *)
(* nothing in the code ties the two together, only a test against a proxy.  *)
(***************************************************************************)
EXTENDS Llio, Integers, SequencesExt, TLC

CONSTANTS MAX_INT32,          \* alba_common.h: the mark of a long x_uint64_t
          ProxyCompressions   \* the compressions the proxy can name; the
                              \* client knows 1..4, a later proxy may add some

ASSUME WireAssumption == MAX_INT32 \in Nat /\ 1..4 \subseteq ProxyCompressions

(*--------------------------- formats ---------------------------*)

Prim(k) == [t |-> "prim", k |-> k]
Bool == Prim("bool")
U8 == Prim("u8")
U32 == Prim("u32")
U64 == Prim("u64")
Str == Prim("str")
Dbl == Prim("dbl")
X64 == [t |-> "x64"]
Opt(f) == [t |-> "opt", f |-> f]
Maybe(f) == [t |-> "maybe", f |-> f]
Lst(f) == [t |-> "list", f |-> f]
Tup(fs) == [t |-> "tup", fs |-> fs]
Alt(fs) == [t |-> "alt", fs |-> fs, open |-> FALSE]
AltOrSkip(fs) == [t |-> "alt", fs |-> fs, open |-> TRUE]   \* in a Box only
Box(k, f) == [t |-> "box", k |-> k, f |-> f]
Nothing == Tup(<<>>)

(* A vector goes out from its last element to its first, and is filled in   *)
(* from its last index: llio.h.                                             *)
vector_to(ts) == Reverse(ts)
vector_from(ts) == Reverse(ts)

(* The OCaml side: _list_to writes List.rev, counted_list_from conses.      *)
list_to(ts) == Reverse(ts)
list_from(ts) == Reverse(ts)

(* The sequence s, which TLC then computes once and not at every use.       *)
Eager(s) == s \o <<>>

ListTo(side, ts) == Eager(IF side = "cpp" THEN vector_to(ts) ELSE list_to(ts))
ListFrom(side, ts) == Eager(IF side = "cpp" THEN vector_from(ts) ELSE list_from(ts))

x_uint64_to(i) ==
    IF i < MAX_INT32 THEN <<Field("u32", i)>>
                     ELSE <<Field("u32", MAX_INT32), Field("u64", i)>>

x_uint64_from(m) ==
    Then(prim_from("u32", m), LAMBDA i32 :
           IF i32.v < MAX_INT32 THEN i32 ELSE prim_from("u64", i32.rest))

RECURSIVE To(_, _, _)
To(side, f, v) ==
    CASE f.t = "prim" -> <<Field(f.k, v)>>
      [] f.t = "x64" -> x_uint64_to(v)
      [] f.t \in {"opt", "maybe"} ->
           <<Field("bool", v # <<>>)>>
             \o (IF v = <<>> THEN <<>> ELSE To(side, f.f, v[1]))
      [] f.t = "list" ->
           <<Field("u32", Len(v))>>
             \o LET ts == ListTo(side, v)
                IN  FlattenSeq([i \in 1..Len(v) |-> To(side, f.f, ts[i])])
      [] f.t = "tup" ->
           FlattenSeq([i \in 1..Len(f.fs) |-> To(side, f.fs[i], v[i])])
      [] f.t = "alt" -> <<Field("u8", v.tag)>> \o To(side, f.fs[v.tag], v.v)
      [] f.t = "box" -> <<Field(f.k, To(side, f.f, v))>>

(* from of a vector and of an optional is noexcept in llio.h, and so is from *)
(* of a pair or tuple, which the client reads inside those only.            *)
noexcept(side, x) == IF side = "cpp" /\ ~x.ok THEN Terminates ELSE x

RECURSIVE From(_, _, _)
From(side, f, m) ==
    LET Fields(fs, m0) ==
          LET upto[i \in 0..Len(fs)] ==
                IF i = 0 THEN Got(<<>>, m0)
                ELSE Then(upto[i - 1], LAMBDA acc :
                       Then(From(side, fs[i], acc.rest), LAMBDA x :
                         Got(Append(acc.v, x.v), x.rest)))
          IN  upto[Len(fs)]
        Present(g) ==
          noexcept(side, Then(prim_from("bool", m), LAMBDA b :
            IF b.v THEN Fields(<<g>>, b.rest) ELSE Got(<<>>, b.rest)))
    IN  CASE f.t = "prim" -> prim_from(f.k, m)
          [] f.t = "x64" -> x_uint64_from(m)
          [] f.t = "opt" -> Present(f.f)
          [] f.t = "maybe" -> IF m = <<>> THEN Got(<<>>, m) ELSE Present(f.f)
          [] f.t = "tup" -> Fields(f.fs, m)
          [] f.t = "list" ->
               noexcept(side, Then(prim_from("u32", m), LAMBDA n :
                 Then(Fields([i \in 1..n.v |-> f.f], n.rest), LAMBDA x :
                   Got(ListFrom(side, x.v), x.rest))))
          [] f.t = "alt" ->
               Then(prim_from("u8", m), LAMBDA tag :
                 IF tag.v \in DOMAIN f.fs
                 THEN Then(From(side, f.fs[tag.v], tag.rest), LAMBDA x :
                        Got([tag |-> tag.v, v |-> x.v], x.rest))
                 ELSE IF f.open THEN Got([tag |-> tag.v, v |-> <<>>], <<>>) ELSE Bad(m))
          [] f.t = "box" ->
               Then(prim_from(f.k, m), LAMBDA b :
                 LET x == From(side, f.f, b.v)
                 IN  CASE x.ok -> Got(x.v, b.rest)
                       [] terminates(x) -> x
                       [] OTHER -> Bad(b.rest))

(*--------------------------- the C++ side: parts ---------------------------*)

Checksum ==
    Alt(1 :> Nothing @@ 2 :> Tup(<<Str>>) @@ 3 :> Tup(<<U32>>))

EncodingScheme == Alt(1 :> Tup(<<U32, U32, U8>>))
Compression == Alt([c \in 1..4 |-> Nothing])

(* algo with chaining mode and key length, then a KeySha256. *)
Encrypted ==
    Tup(<<Alt(1 :> Tup(<<Alt(1 :> Nothing @@ 2 :> Nothing), Alt(1 :> Nothing)>>)),
          Alt(1 :> Str)>>)
EncryptInfo == Alt(1 :> Nothing @@ 2 :> Encrypted)

ManifestHead ==
    <<Str, Str, Lst(U32), Alt(1 :> Tup(<<EncodingScheme, Compression>>)),
      EncryptInfo, Checksum, U64>>
fragment_location_t == Tup(<<Opt(X64), U32>>)
layout(f) == Alt(1 :> Lst(Lst(f)))

(* A small string has a varint for its length. *)
small_string == Prim("small")
Fragment ==
    Box("small", Alt(1 :> Tup(<<fragment_location_t, Checksum, U32,
                                Maybe(small_string), Maybe(small_string)>>)))

Each(frags, op(_)) ==
    Eager([c \in DOMAIN frags |-> Eager([g \in DOMAIN frags[c] |-> op(frags[c][g])])])
Column(frags, i) == Each(frags, LAMBDA fr : fr[i])

(* Version 1 holds a layout per property of a fragment; the reader stops    *)
(* before the layout of counters, so these fragments have none.             *)
_from_version1(m) ==
    Then(From("cpp", Box("str", Tup(ManifestHead
           \o <<layout(fragment_location_t), layout(Checksum), layout(U32),
                U32, U32, Dbl>>)), m),
         LAMBDA x :
           LET locs == x.v[8].v
           IN  Got([head |-> SubSeq(x.v, 1, 7),
                    fragments |->
                      Eager([c \in DOMAIN locs |-> Eager([g \in DOMAIN locs[c] |->
                         <<locs[c][g], x.v[9].v[c][g], x.v[10].v[c][g], <<>>, <<>>>>])])],
                   x.rest))

_from_version2(m) ==
    Then(From("cpp", Box("str", Tup(ManifestHead \o <<layout(Fragment)>>)), m),
         LAMBDA x : Got([head |-> SubSeq(x.v, 1, 7),
                         fragments |-> Each(x.v[8].v, LAMBDA fr : fr.v)],
                        x.rest))

(* ok_to_continue is set once the compressed string has been passed.        *)
Manifest_from2(m) ==
    LET version == prim_from("u8", m)
        x == IF version.v = 1 THEN _from_version1(version.rest)
                              ELSE _from_version2(version.rest)
    IN  IF ~version.ok \/ version.v \notin {1, 2}
        THEN [m |-> Bad(m), ok_to_continue |-> FALSE]
        ELSE [m |-> x, ok_to_continue |-> x.rest # version.rest /\ ~terminates(x)]

ManifestWithNamespaceId_from2(m) ==
    LET WithId(mf, id) ==
          [m |-> CASE mf.m.ok /\ id.ok -> Got(<<mf.m.v, id.v>>, id.rest)
                   [] terminates(mf.m) -> mf.m
                   [] mf.ok_to_continue /\ id.ok -> Bad(id.rest)
                   [] OTHER -> Bad(mf.m.rest),
           ok_to_continue |-> mf.ok_to_continue]
        mf2 == Manifest_from2(m)
    IN  WithId(mf2, x_uint64_from(mf2.m.rest))

(* A manifest that cannot be read but was passed is left out of the result. *)
RECURSIVE object_infos_from(_, _, _)
object_infos_from(n, m, acc) ==
    LET One(key, mf) ==
          IF mf.m.ok
          THEN object_infos_from(n - 1, mf.m.rest, Append(acc, key.v \o mf.m.v))
          ELSE IF mf.ok_to_continue THEN object_infos_from(n - 1, mf.m.rest, acc)
          ELSE IF terminates(mf.m) THEN mf.m ELSE Bad(m)
    IN  IF n = 0 THEN Got(acc, m)
        ELSE Then(From("cpp", Tup(<<Str, Str>>), m), LAMBDA key :
               One(key, ManifestWithNamespaceId_from2(key.rest)))

_read_object_infos(m) ==
    Then(prim_from("u32", m), LAMBDA n : object_infos_from(n.v, n.rest, <<>>))

(* Only an ASD is read further; of any other kind only that it is none.     *)
OsdInfo ==
    Alt(3 :> Box("str", AltOrSkip(1 :> Tup(<<Lst(Str), U32, Bool, Bool, Str, Str>>))))

(* Version 1 has no length, so an unknown tag is an error; version 2 has    *)
(* one, and what is not understood is skipped.                              *)
OsdCapability ==
    Alt(1 :> Alt(1 :> Nothing @@ 2 :> Nothing @@ 3 :> Tup(<<U32>>))
     @@ 2 :> Box("str", AltOrSkip(1 :> Nothing @@ 2 :> Nothing @@ 3 :> Tup(<<U32>>)
                                  @@ 4 :> Tup(<<Lst(Str), U32, Str>>))))

osd_infos == Lst(Tup(<<X64, Box("str", OsdInfo), Lst(OsdCapability)>>))

SequenceAssert ==
    Alt(1 :> Tup(<<Str>>) @@ 2 :> Tup(<<Str>>)
     @@ 3 :> Tup(<<Str, Str>>) @@ 4 :> Tup(<<Str, Checksum>>))

SequenceUpdate ==
    Alt(1 :> Tup(<<Str, Str, Opt(Checksum)>>) @@ 2 :> Tup(<<Str, Str, Opt(Checksum)>>)
     @@ 3 :> Tup(<<Str>>))

SliceDescriptor == Tup(<<U64, U32>>)
ObjectSlices == Tup(<<Str, Lst(SliceDescriptor)>>)

(*------------------- the C++ side: requests and responses -------------------*)

Messages(req, resp) == [req |-> Tup(req), resp |-> Tup(resp)]
write_range_params == Tup(<<Str, Bool, Opt(Tup(<<Str, Bool>>)), U32, Bool>>)

list_namespaces == Messages(<<write_range_params>>, <<Lst(Str), Bool>>)
namespace_exists == Messages(<<Str>>, <<Bool>>)
create_namespace == Messages(<<Str, Opt(Str)>>, <<>>)
delete_namespace == Messages(<<Str>>, <<>>)
list_objects == Messages(<<Str, write_range_params>>, <<Lst(Str), Bool>>)
read_object_fs == Messages(<<Str, Str, Str, Bool, Bool>>, <<>>)
write_object_fs == Messages(<<Str, Str, Str, Bool, Opt(Checksum)>>, <<>>)
delete_object == Messages(<<Str, Str, Bool>>, <<>>)
get_object_info == Messages(<<Str, Str, Bool, Bool>>, <<U64, Checksum>>)
read_objects_slices_request == <<Str, Lst(ObjectSlices), Bool>>
update_session == Messages(<<Lst(Tup(<<Str, Opt(Str)>>))>>, <<Lst(Tup(<<Str, Str>>))>>)
apply_sequence_request == <<Str, Bool, Lst(SequenceAssert), Lst(SequenceUpdate)>>
invalidate_cache == Messages(<<Str>>, <<>>)
drop_cache == Messages(<<Str>>, <<>>)
get_proxy_version == Messages(<<>>, <<U32, U32, U32, Str>>)
ping == Messages(<<Dbl>>, <<Dbl>>)
osd_info == Messages(<<>>, <<osd_infos>>)
osd_info2 == Messages(<<>>, <<Lst(Tup(<<Str, osd_infos>>))>>)
has_local_fragment_cache == Messages(<<>>, <<Bool>>)
get_fragment_encryption_key == Messages(<<Str, U64>>, <<Opt(Str)>>)

(* The tags of proxy_protocol.cc.  The formats of the three responses that  *)
(* hold manifests are in read_response.                                     *)
cpp ==
    1 :> list_namespaces @@ 2 :> namespace_exists @@ 3 :> create_namespace
 @@ 4 :> delete_namespace @@ 5 :> list_objects @@ 8 :> delete_object
 @@ 9 :> get_object_info @@ 10 :> read_object_fs @@ 11 :> write_object_fs
 @@ 13 :> Messages(read_objects_slices_request, <<>>) @@ 14 :> invalidate_cache
 @@ 16 :> drop_cache @@ 17 :> get_proxy_version @@ 20 :> ping
 @@ 21 :> write_object_fs @@ 22 :> osd_info
 @@ 23 :> Messages(read_objects_slices_request, <<>>)
 @@ 24 :> Messages(apply_sequence_request, <<>>) @@ 28 :> osd_info2
 @@ 31 :> has_local_fragment_cache @@ 32 :> update_session
 @@ 33 :> get_fragment_encryption_key

(*---------------------------- the OCaml side ----------------------------*)

ml_Checksum == Alt(1 :> Nothing @@ 2 :> Tup(<<Str>>) @@ 3 :> Tup(<<U32>>))
ml_Encoding_scheme == Alt(1 :> Tup(<<U32, U32, U8>>))
ml_Storage_scheme ==
    Alt(1 :> Tup(<<ml_Encoding_scheme, Alt([c \in ProxyCompressions |-> Nothing])>>))
ml_algo ==
    Alt(1 :> Tup(<<Alt(1 :> Nothing @@ 2 :> Nothing), Alt(1 :> Nothing)>>))
ml_EncryptInfo == Alt(1 :> Nothing @@ 2 :> Tup(<<ml_algo, Alt(1 :> Str)>>))
ml_head ==
    Tup(<<Str, Str, Lst(U32), ml_Storage_scheme, ml_EncryptInfo, ml_Checksum, U64>>)
ml_Fragment ==
    Tup(<<Tup(<<Opt(X64), U32>>), ml_Checksum, U32,
          Opt(Prim("small")), Opt(Prim("small"))>>)
ml_layout(f) == Alt(1 :> Lst(Lst(f)))
Version1(v) == [tag |-> 1, v |-> v]

inner_to_buffer_1(mf) ==
    To("ml", Tup(<<ml_head, ml_layout(Tup(<<Opt(X64), U32>>)), ml_layout(ml_Checksum),
                   ml_layout(U32), U32, U32, Dbl, ml_layout(Opt(Str))>>),
       <<mf.head, Version1(Column(mf.fragments, 1)), Version1(Column(mf.fragments, 2)),
         Version1(Column(mf.fragments, 3))>>
       \o mf.tail \o <<Version1(Column(mf.fragments, 4))>>)

inner_to_buffer_2(mf) ==
    To("ml", Tup(<<ml_head, ml_layout(Box("small", Alt(1 :> ml_Fragment))), U32, U32, Dbl>>),
       <<mf.head, Version1(Each(mf.fragments, Version1))>> \o mf.tail)

Manifest_to(ser, mf) ==
    <<Field("u8", ser),
      Field("str", IF ser = 1 THEN inner_to_buffer_1(mf) ELSE inner_to_buffer_2(mf))>>

manifest_with_id_to(ser, x) == Manifest_to(ser, x.mf) \o x_uint64_to(x.namespace_id)

object_infos_to(ser, infos) ==
    <<Field("u32", Len(infos))>>
      \o FlattenSeq([i \in DOMAIN infos |->
           LET x == list_to(infos)[i]
           IN  To("ml", Tup(<<Str, Str>>), <<x.mf.head[1], x.alba_id>>)
                 \o manifest_with_id_to(ser, x)])

(* kind_to and _to_buffer_3; the arakoon configuration is one field.        *)
ml_OsdInfo ==
    LET conn_info == <<Lst(Str), U32, Bool, Bool>>
        alba_cfg == Tup(<<Str, Str, Str, Str>>)
    IN  Alt(3 :> Box("str",
          Tup(<<Alt(1 :> Tup(conn_info \o <<Str>>) @@ 2 :> Tup(conn_info \o <<Str>>)
                 @@ 3 :> alba_cfg @@ 4 :> alba_cfg @@ 5 :> Tup(<<Lst(Str), Str, Str, Str>>)),
                Str, Bool, Str, U64, U64, Lst(Dbl), Lst(Dbl), Lst(Dbl),
                Lst(Tup(<<Dbl, Str>>)), U64, Opt(Dbl)>>)))

ml_capability ==
    Alt(1 :> Alt(1 :> Nothing @@ 2 :> Nothing @@ 3 :> Tup(<<U32>>))
     @@ 2 :> Box("str", Alt(4 :> Tup(<<Lst(Str), U32, Str>>))))

ml_osd_infos == Lst(Tup(<<X64, Box("str", ml_OsdInfo), Lst(ml_capability)>>))

ml_Assert ==
    Alt(1 :> Tup(<<Str>>) @@ 2 :> Tup(<<Str>>)
     @@ 3 :> Tup(<<Str, Str>>) @@ 4 :> Tup(<<Str, ml_Checksum>>))

ml_Update ==
    Alt(1 :> Tup(<<Str, Str, Opt(ml_Checksum)>>) @@ 2 :> Tup(<<Str, Str, Opt(ml_Checksum)>>)
     @@ 3 :> Tup(<<Str>>))

(* RangeQueryArgs.deser' `MaxThenReverse *)
ml_range == Tup(<<Str, Bool, Opt(Tup(<<Str, Bool>>)), U32, Bool>>)

deser_request_i ==
    LET slices == Tup(<<Str, Lst(Tup(<<Str, Lst(Tup(<<U64, U32>>))>>)), Bool>>)
        upload == Tup(<<Str, Str, Str, Bool, Opt(ml_Checksum)>>)
    IN  1 :> Tup(<<ml_range>>) @@ 2 :> Tup(<<Str>>) @@ 3 :> Tup(<<Str, Opt(Str)>>)
     @@ 4 :> Tup(<<Str>>) @@ 5 :> Tup(<<Str, ml_range>>) @@ 8 :> Tup(<<Str, Str, Bool>>)
     @@ 9 :> Tup(<<Str, Str, Bool, Bool>>) @@ 10 :> Tup(<<Str, Str, Str, Bool, Bool>>)
     @@ 11 :> upload @@ 13 :> slices @@ 14 :> Tup(<<Str>>) @@ 16 :> Tup(<<Str>>)
     @@ 17 :> Nothing @@ 20 :> Tup(<<Dbl>>) @@ 21 :> upload @@ 22 :> Nothing
     @@ 23 :> slices @@ 24 :> Tup(<<Str, Bool, Lst(ml_Assert), Lst(ml_Update)>>)
     @@ 28 :> Nothing @@ 31 :> Nothing @@ 32 :> Tup(<<Lst(Tup(<<Str, Opt(Str)>>))>>)
     @@ 33 :> Tup(<<Str, U64>>)

(* The responses without manifests and slices. *)
deser_request_o ==
    1 :> Tup(<<Lst(Str), Bool>>) @@ 2 :> Tup(<<Bool>>) @@ 3 :> Nothing @@ 4 :> Nothing
 @@ 5 :> Tup(<<Lst(Str), Bool>>) @@ 8 :> Nothing @@ 9 :> Tup(<<U64, ml_Checksum>>)
 @@ 10 :> Nothing @@ 11 :> Nothing @@ 14 :> Nothing @@ 16 :> Nothing
 @@ 17 :> Tup(<<U32, U32, U32, Str>>) @@ 20 :> Tup(<<Dbl>>) @@ 22 :> Tup(<<ml_osd_infos>>)
 @@ 28 :> Tup(<<Lst(Tup(<<Str, ml_osd_infos>>))>>) @@ 31 :> Tup(<<Bool>>)
 @@ 32 :> Tup(<<Lst(Tup(<<Str, Str>>))>>) @@ 33 :> Tup(<<Opt(Str)>>)

(*------------------------- whole messages -------------------------*)

(* A request after its tag, written by the client and read by the proxy.    *)
request_to(tag, args) == To("cpp", cpp[tag].req, args)
request_from(tag, m) == From("ml", deser_request_i[tag], m)

(* An answer after the return code, written by the proxy in a session with  *)
(* manifests of version ser, ...                                            *)
answer_to(ser, tag, v) ==
    CASE tag = 13 -> <<Field("str", v.data)>>
      [] tag = 23 -> <<Field("str", v.data)>> \o object_infos_to(ser, v.infos)
      [] tag = 21 -> manifest_with_id_to(ser, v)
      [] tag = 24 -> object_infos_to(ser, v)
      [] OTHER -> To("ml", deser_request_o[tag], v)

(* ... and read by the client.                                              *)
(* memcpy of the slices, one after the other, in the caller's order.        *)
RECURSIVE slices_from(_, _)
slices_from(lens, data) ==
    IF lens = <<>> THEN <<>>
    ELSE <<SubSeq(data, 1, lens[1])>>
           \o slices_from(Tail(lens), SubSeq(data, lens[1] + 1, Len(data)))

Lengths(objects_slices) ==
    FlattenSeq([o \in DOMAIN objects_slices |->
                  [s \in DOMAIN objects_slices[o][2] |-> objects_slices[o][2][s][2]]])

(* The read_..._response functions: [ok, v].  The result of a call that     *)
(* returns slices is [slices, infos].                                       *)
read_response(tag, args, m) ==
    LET filled(data) == slices_from(Lengths(args[2]), data)
    IN  CASE tag = 13 ->
               Then(prim_from("str", m), LAMBDA data :
                 Got([slices |-> filled(data.v), infos |-> <<>>], data.rest))
          [] tag = 23 ->
               Then(prim_from("str", m), LAMBDA data :
                 Then(_read_object_infos(data.rest), LAMBDA infos :
                   Got([slices |-> filled(data.v), infos |-> infos.v], infos.rest)))
          [] tag = 21 -> ManifestWithNamespaceId_from2(m).m
          [] tag = 24 -> _read_object_infos(m)
          [] OTHER -> From("cpp", cpp[tag].resp, m)
=============================================================================
