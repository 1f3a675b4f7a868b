------------------------------- MODULE Slices -------------------------------
(***************************************************************************)
(* Where the bytes of an object are: the arithmetic by which the C++ client *)
(* finds, for a slice of an object, the parts of fragments that hold it     *)
(* (rora_proxy_client.cc), and by which it decrypts a part from the middle  *)
(* of a fragment that was encrypted with AES in counter mode                *)
(* (encryption.cc).  Positions count from 0, chunks and fragments from 1.   *)
(***************************************************************************)
EXTENDS Integers, Sequences

CONSTANTS
    Word,     \* 2^64: a counter has two words, the high one first
    Block     \* 16: the bytes of a block, which one counter encrypts

ASSUME SlicesAssumption == Word \in Nat \ {0} /\ Block \in Nat \ {0}

Words == 0..(Word - 1)

(* A layout: how an object is cut into chunks of k fragments each.  Chunks  *)
(* are padded to k fragments of one length.  A fragment encrypted in        *)
(* counter mode has no more blocks than a word counts; its counter may be   *)
(* missing from the manifest.                                               *)
IsLayout(l) ==
    /\ l.k \in Nat \ {0}
    /\ l.sizes \in Seq(Nat \ {0})
    /\ \A c \in DOMAIN l.sizes :
         /\ l.sizes[c] % l.k = 0
         /\ l.encryption = "ctr" =>
              /\ l.sizes[c] \div l.k <= Word * Block
              /\ \A f \in 1..l.k : \/ l.fragments[c][f].ctr = <<>>
                                   \/ l.fragments[c][f].ctr \in Words \X Words

(*------------------------------- locations -------------------------------*)

(* totals(sizes)[c]: the bytes in the first c chunks. *)
totals(sizes) ==
    LET total[c \in 0..Len(sizes)] == IF c = 0 THEN 0 ELSE total[c - 1] + sizes[c]
    IN  total

(* get_location leaves the loop over chunk_sizes at the first chunk that    *)
(* ends after pos; when there is none it reads past the end of the vector.  *)
Inside(sizes, pos) == pos < totals(sizes)[Len(sizes)]
chunk_of(sizes, pos) ==
    CHOOSE c \in DOMAIN sizes : totals(sizes)[c - 1] <= pos /\ pos < totals(sizes)[c]

(* The fragment that has position pos of a chunk, where pos is in it, and   *)
(* how much of len it has.                                                  *)
in_chunk(chunk_size, k, pos, len) ==
    LET fragment_length == chunk_size \div k
        fragment_index == pos \div fragment_length
        pos_in_fragment == pos - fragment_index * fragment_length
        rest == fragment_length - pos_in_fragment
    IN  [index |-> fragment_index,
         offset |-> pos_in_fragment,
         length |-> IF len < rest THEN len ELSE rest]

(* get_location.  target is where in the reader's buffer the part goes.     *)
get_location(mf, pos, len, target) ==
    LET c == chunk_of(mf.sizes, pos)
        l == in_chunk(mf.sizes[c], mf.k, pos - totals(mf.sizes)[c - 1], len)
        fragment == mf.fragments[c][l.index + 1]
    IN  [id |-> mf.id, chunk |-> c, fragment |-> l.index + 1,
         osd |-> fragment.osd, ctr |-> fragment.ctr,
         offset |-> l.offset, length |-> l.length,
         compressed |-> mf.compressed, encryption |-> mf.encryption,
         target |-> target]

(* _resolve_slice_one_level *)
resolve_slice(mf, slice, target) ==
    LET end == slice.offset + slice.size
        from[pos \in slice.offset..end] ==
          IF pos = end THEN <<>>
          ELSE LET l == get_location(mf, pos, end - pos, target + pos - slice.offset)
               IN  <<l>> \o from[pos + l.length]
    IN  from[slice.offset]

(*------------------------------ decryption -------------------------------*)

(* What the cipher does with a counter after every block. *)
advance(ctr, blocks) ==
    LET n == ctr[1] * Word + ctr[2] + blocks
    IN  <<(n \div Word) % Word, n % Word>>

(* The same in the arithmetic of two words.  max is the largest word.       *)
skip(ctr, blocks) ==
    LET high == ctr[1]
        low == ctr[2]
        max == Word - 1
    IN  <<IF max - low < blocks THEN (high + 1) % Word ELSE high,
          (low + blocks) % Word>>

(* The key stream at byte i of a fragment encrypted from counter ctr on.    *)
KeyAt(ctr, i) == <<advance(ctr, i \div Block), i % Block>>

(* The key stream partial_decrypt uses for byte i of a part that begins at  *)
(* offset: blocks are skipped, and the bytes before offset in its block are *)
(* burned.                                                                  *)
partial_decrypt(ctr, offset, i) ==
    LET to_burn == offset % Block
        ctr_with_offset == skip(ctr, offset \div Block)
    IN  <<advance(ctr_with_offset, (to_burn + i) \div Block), (to_burn + i) % Block>>
=============================================================================
