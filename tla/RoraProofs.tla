----------------------------- MODULE RoraProofs -----------------------------
(***************************************************************************)
(* What TLAPS proves about RoraProxy_client, for any number of clients,     *)
(* objects, levels and calls: the alba levels are there when they are used, *)
(* and the manifest cache keeps its bound and its keys.                     *)
(*                                                                         *)
(* The second half prepares what RoraReadProofs concludes about reads: what *)
(* get_location and resolve find in a manifest, what the buffers of a read  *)
(* hold once its locations are read, the inductive invariant ReadInv, and   *)
(* that the steps of the direct path keep it.                               *)
(***************************************************************************)
EXTENDS Rora, WellFoundedInduction, TLAPS

-----------------------------------------------------------------------------
(* Locations and decryption (module Slices): a location is the part of a    *)
(* fragment that has the bytes asked for, and a part from the middle of a   *)
(* fragment is decrypted with the key stream it was encrypted with.         *)

(* Division with a remainder has one outcome. *)
LEMMA DivMod ==
    ASSUME NEW d \in Nat \ {0}, NEW q \in Int, NEW r \in 0..(d - 1)
    PROVE  (q * d + r) \div d = q /\ (q * d + r) % d = r
<1>1. DEFINE a == q * d + r
             x == a \div d
             y == a % d
<1>2. a \in Int /\ x \in Int /\ y \in 0..(d - 1) /\ a = d * x + y
  BY SMT
<1>3. d * (x - q) = r - y
  BY <1>2, SMT
<1>4. x = q
  <2>1. CASE x > q
    <3>1. d * (x - q) >= d
      BY <2>1, <1>2, SMT
    <3> QED BY <3>1, <1>2, <1>3, SMT
  <2>2. CASE x < q
    <3>1. d * (x - q) <= -d
      BY <2>2, <1>2, SMT
    <3> QED BY <3>1, <1>2, <1>3, SMT
  <2> QED BY <2>1, <2>2, <1>2, SMT
<1> QED BY <1>2, <1>3, <1>4, SMT

(* Every integer has a quotient and a remainder. *)
LEMMA Split ==
    ASSUME NEW d \in Nat \ {0}, NEW a \in Int
    PROVE  a \div d \in Int /\ a % d \in 0..(d - 1) /\ a = (a \div d) * d + (a % d)
BY SMT

(* in_chunk, for a chunk of k fragments of equal length: the fragment has   *)
(* position pos of the chunk at the offset it gives, and the part stays     *)
(* within the fragment and is shorter than asked for only if it goes up to  *)
(* its end.  So the parts resolve_slice makes are never empty, follow each  *)
(* other, and read exactly the bytes of the slice.                          *)
THEOREM LocationsAreExact ==
    ASSUME NEW k \in Nat \ {0}, NEW n \in Nat \ {0},
           NEW pos \in 0..(k * n - 1), NEW len \in Nat \ {0}
    PROVE  LET l == in_chunk(k * n, k, pos, len)
           IN  /\ l.index \in 0..(k - 1)
               /\ l.index * n + l.offset = pos
               /\ l.offset \in 0..(n - 1)
               /\ l.length \in 1..len
               /\ l.offset + l.length <= n
               /\ l.length = len \/ l.offset + l.length = n
<1> DEFINE l == in_chunk(k * n, k, pos, len)
           q == pos \div n
           r == pos % n
           rest == n - r
<1>1. (k * n) \div k = n
  <2>1. n * k + 0 = k * n /\ 0 \in 0..(k - 1)
    BY SMT
  <2> QED BY <2>1, DivMod
<1>2. q \in Int /\ r \in 0..(n - 1) /\ pos = q * n + r
  BY Split
<1>3. l.index = q /\ l.offset = r /\ l.length = IF len < rest THEN len ELSE rest
  <2>1. pos - q * n = r
    BY <1>2, SMT
  <2> QED BY <1>1, <2>1 DEF in_chunk
<1>4. q \in 0..(k - 1)
  <2>1. q >= 0
    <3>1. SUFFICES ASSUME q <= -1 PROVE FALSE
      BY <1>2, SMT
    <3>2. q * n <= -n
      BY <3>1, <1>2, SMT
    <3> QED BY <3>2, <1>2, SMT
  <2>2. q <= k - 1
    <3>1. SUFFICES ASSUME q >= k PROVE FALSE
      BY <1>2, SMT
    <3>2. q * n >= k * n
      BY <3>1, <1>2, SMT
    <3> QED BY <3>2, <1>2, SMT
  <2> QED BY <2>1, <2>2, <1>2, SMT
<1>5. /\ l.index \in 0..(k - 1)
      /\ l.index * n + l.offset = pos
      /\ l.offset \in 0..(n - 1)
      /\ l.length \in 1..len
      /\ l.offset + l.length <= n
      /\ l.length = len \/ l.offset + l.length = n
  <2> HIDE DEF l, q, r
  <2> QED BY <1>2, <1>3, <1>4, SMT
<1> QED BY <1>5

(* n divided by d is q, and r remains. *)
Divided(n, d, q, r) == n \in Int /\ q \in Int /\ r \in 0..(d - 1) /\ n = q * d + r
LEMMA DividedIs ==
    ASSUME NEW d \in Nat \ {0}, NEW n, NEW q, NEW r, Divided(n, d, q, r)
    PROVE  n \div d = q /\ n % d = r
BY DivMod DEF Divided

LEMMA DividedExists ==
    ASSUME NEW d \in Nat \ {0}, NEW n \in Int
    PROVE  Divided(n, d, n \div d, n % d)
BY Split DEF Divided

(* advance, word by word. *)
LEMMA AdvanceIs ==
    ASSUME NEW h \in Int, NEW low \in Int, NEW b \in Int
    PROVE  advance(<<h, low>>, b)
             = <<(h + ((low + b) \div Word)) % Word, (low + b) % Word>>
<1> USE SlicesAssumption
<1> DEFINE n == h * Word + low + b
           q == (low + b) \div Word
           r == (low + b) % Word
<1>1. Divided(low + b, Word, q, r)
  <2>1. low + b \in Int
    BY SMT
  <2> QED BY <2>1, DividedExists
<1>2. Divided(n, Word, h + q, r)
  <2> HIDE DEF q, r
  <2>1. (h + q) * Word = h * Word + q * Word
    BY <1>1, SMT DEF Divided
  <2>2. h * Word \in Int /\ q * Word \in Int
    BY <1>1, SMT DEF Divided
  <2> QED BY <1>1, <2>1, <2>2, SMT DEF Divided
<1>3. n \div Word = h + q /\ n % Word = r
  <2> HIDE DEF n, q, r
  <2> QED BY <1>2, DividedIs
<1> QED BY <1>3 DEF advance

(* The two words partial_decrypt computes are the 128-bit counter of the    *)
(* cipher after that many blocks: the carry is right, also when the counter *)
(* wraps around.                                                            *)
THEOREM SkipIsAdvance ==
    ASSUME NEW ctr \in Words \X Words, NEW blocks \in Words
    PROVE  skip(ctr, blocks) = advance(ctr, blocks)
<1> USE SlicesAssumption
<1>0. PICK h \in Words, low \in Words : ctr = <<h, low>>
  OBVIOUS
<1>i. h \in Int /\ low \in Int /\ blocks \in Int
  BY SMT DEF Words
<1> DEFINE n == low + blocks
<1>1. CASE n < Word
  <2>1. Divided(n, Word, 0, n) /\ Divided(h + 0, Word, 0, h)
    BY <1>1, SMT DEF Words, Divided
  <2>2. n \div Word = 0 /\ n % Word = n /\ (h + 0) % Word = h
    BY <2>1, DividedIs
  <2>3. advance(<<h, low>>, blocks) = <<(h + (n \div Word)) % Word, n % Word>>
    BY <1>i, AdvanceIs, Zenon
  <2>4. advance(<<h, low>>, blocks) = <<h, n % Word>>
    BY <2>2, <2>3, Zenon
  <2>5. ~(Word - 1 - low < blocks)
    BY <1>1, SMT DEF Words
  <2> QED BY <1>0, <2>5, <2>4 DEF skip
<1>2. CASE n >= Word
  <2> DEFINE l2 == n - Word
  <2>1. Divided(n, Word, 1, l2)
    BY <1>2, SMT DEF Words, Divided
  <2>2. n % Word = l2
    BY <2>1, DividedIs
  <2>3. Word - 1 - low < blocks
    BY <1>2, SMT DEF Words
  <2>4. n \div Word = 1
    BY <2>1, DividedIs
  <2> QED BY <1>0, <1>i, <2>2, <2>3, <2>4, AdvanceIs DEF skip
<1> QED BY <1>i, <1>1, <1>2, SMT DEF Words

(* Advancing twice is advancing by the sum. *)
LEMMA AdvanceTwice ==
    ASSUME NEW ctr \in Words \X Words, NEW a \in Nat, NEW b \in Nat
    PROVE  advance(advance(ctr, a), b) = advance(ctr, a + b)
<1> USE SlicesAssumption
<1>0. PICK h \in Words, low \in Words : ctr = <<h, low>>
  OBVIOUS
<1>i. h \in Int /\ low \in Int /\ a \in Int /\ b \in Int /\ a + b \in Int
  BY SMT DEF Words
<1>1. PICK q1, l1 : Divided(low + a, Word, q1, l1)
  <2>1. low + a \in Int
    BY <1>i, SMT DEF Divided
  <2>2. Divided(low + a, Word, (low + a) \div Word, (low + a) % Word)
    BY <2>1, DividedExists
  <2> QED BY <2>2, Zenon
<1>2. PICK p1, h1 : Divided(h + q1, Word, p1, h1)
  <2>1. h + q1 \in Int
    BY <1>1, <1>i, SMT DEF Divided
  <2>2. Divided(h + q1, Word, (h + q1) \div Word, (h + q1) % Word)
    BY <2>1, DividedExists
  <2> QED BY <2>2, Zenon
<1>3. PICK q2, l2 : Divided(l1 + b, Word, q2, l2)
  <2>1. l1 + b \in Int
    BY <1>1, SMT DEF Divided
  <2>2. Divided(l1 + b, Word, (l1 + b) \div Word, (l1 + b) % Word)
    BY <2>1, DividedExists
  <2> QED BY <2>2, Zenon
<1>4. PICK p2, h2 : Divided(h1 + q2, Word, p2, h2)
  <2>1. h1 + q2 \in Int
    BY <1>2, <1>3, SMT DEF Divided
  <2>2. Divided(h1 + q2, Word, (h1 + q2) \div Word, (h1 + q2) % Word)
    BY <2>1, DividedExists
  <2> QED BY <2>2, Zenon
<1>t. /\ q1 \in Int /\ l1 \in Int /\ p1 \in Int /\ h1 \in Int
      /\ q2 \in Int /\ p2 \in Int
  BY <1>1, <1>2, <1>3, <1>4 DEF Divided
<1>5. advance(<<h, low>>, a) = <<h1, l1>>
  <2>1. /\ (low + a) \div Word = q1 /\ (low + a) % Word = l1
        /\ (h + q1) % Word = h1
    BY <1>1, <1>2, DividedIs
  <2>2. advance(<<h, low>>, a) = <<(h + ((low + a) \div Word)) % Word, (low + a) % Word>>
    BY <1>i, <1>t, AdvanceIs, Zenon
  <2> QED BY <2>1, <2>2, Zenon
<1>6. advance(<<h1, l1>>, b) = <<h2, l2>>
  <2>1. /\ (l1 + b) \div Word = q2 /\ (l1 + b) % Word = l2
        /\ (h1 + q2) % Word = h2
    BY <1>t, <1>3, <1>4, DividedIs
  <2>2. advance(<<h1, l1>>, b) = <<(h1 + ((l1 + b) \div Word)) % Word, (l1 + b) % Word>>
    BY <1>i, <1>t, AdvanceIs, Zenon
  <2> QED BY <2>1, <2>2, Zenon
<1>7. Divided(low + (a + b), Word, q1 + q2, l2)
  <2>1. (q1 + q2) * Word = q1 * Word + q2 * Word
    BY <1>t, SMT
  <2>2. q1 * Word \in Int /\ q2 * Word \in Int
    BY <1>t, SMT
  <2> QED BY <2>1, <2>2, <1>i, <1>t, <1>1, <1>3, SMT DEF Divided
<1>8. Divided(h + (q1 + q2), Word, p1 + p2, h2)
  <2>1. (p1 + p2) * Word = p1 * Word + p2 * Word
    BY <1>t, SMT
  <2>2. p1 * Word \in Int /\ p2 * Word \in Int
    BY <1>t, SMT
  <2> QED BY <2>1, <2>2, <1>i, <1>t, <1>2, <1>4, SMT DEF Divided
<1>9. advance(<<h, low>>, a + b) = <<h2, l2>>
  <2>1. /\ (low + (a + b)) \div Word = q1 + q2 /\ (low + (a + b)) % Word = l2
        /\ (h + (q1 + q2)) % Word = h2
    BY <1>7, <1>8, DividedIs
  <2>2. advance(<<h, low>>, a + b) = <<(h + ((low + (a + b)) \div Word)) % Word, (low + (a + b)) % Word>>
    BY <1>i, <1>t, AdvanceIs, Zenon
  <2> QED BY <2>1, <2>2, Zenon
<1> QED BY <1>0, <1>5, <1>6, <1>9

(* partial_decrypt: every byte of a part that begins anywhere in a fragment *)
(* is decrypted with the key stream that encrypted it, which began at the   *)
(* fragment's first byte.                                                   *)
THEOREM PartialDecryptIsRight ==
    ASSUME NEW ctr \in Words \X Words, NEW offset \in Nat, NEW i \in Nat,
           offset \div Block \in Words
    PROVE  partial_decrypt(ctr, offset, i) = KeyAt(ctr, offset + i)
<1> USE SlicesAssumption
<1>1. PICK s, burn : /\ Divided(offset, Block, s, burn)
                     /\ s = offset \div Block /\ burn = offset % Block
  <2>1. Divided(offset, Block, offset \div Block, offset % Block)
    <3>1. offset \in Int
      BY SMT
    <3> QED BY <3>1, DividedExists
  <2> QED BY <2>1, Zenon
<1>2. PICK t, u : /\ Divided(burn + i, Block, t, u)
                  /\ t = (burn + i) \div Block /\ u = (burn + i) % Block
  <2>1. burn + i \in Int
    BY <1>1, SMT DEF Divided
  <2>2. Divided(burn + i, Block, (burn + i) \div Block, (burn + i) % Block)
    BY <2>1, DividedExists
  <2> QED BY <2>2, Zenon
<1>t. s \in Int /\ burn \in 0..(Block - 1) /\ t \in Int /\ u \in 0..(Block - 1)
  BY <1>1, <1>2 DEF Divided
<1>3. t \in Nat
  <2>1. ASSUME t <= -1 PROVE FALSE
    <3>1. t * Block <= -Block
      BY <2>1, <1>t, SMT
    <3> QED BY <3>1, <1>t, <1>2, SMT DEF Divided
  <2> QED BY <2>1, <1>t, SMT
<1>4. Divided(offset + i, Block, s + t, u)
  <2>1. (s + t) * Block = s * Block + t * Block
    BY <1>t, SMT
  <2>2. s * Block \in Int /\ t * Block \in Int
    BY <1>t, SMT
  <2> QED BY <2>1, <2>2, <1>t, <1>1, <1>2, SMT DEF Divided
<1>5. (offset + i) \div Block = s + t /\ (offset + i) % Block = u
  BY <1>4, DividedIs
<1>6. advance(skip(ctr, s), t) = advance(ctr, s + t)
  <2>1. s \in Words /\ s \in Nat
    BY <1>1, SMT DEF Words
  <2> QED BY <1>3, <2>1, SkipIsAdvance, AdvanceTwice
<1> QED BY <1>1, <1>2, <1>5, <1>6 DEF partial_decrypt, KeyAt

-----------------------------------------------------------------------------
(* Calls as records.                                                        *)

Fields == DOMAIN Idle
IsCall(r) == r = [f \in Fields |-> r[f]]
(* The fields the proofs look at.                                           *)
LEMMA SomeFields == {"pc", "kind", "req", "ret", "wrong", "via", "locs", "got", "infos", "mcp",
                     "mf", "src", "work", "lv", "failures", "recent", "mark", "from"}
                    \subseteq Fields
BY Zenon DEF Fields, Idle

(* What a call that ends leaves behind is a call.                           *)
LEMMA FreshIs ==
    ASSUME NEW r
    PROVE  /\ IsCall(Fresh(r)) /\ Fresh(r).pc = "idle" /\ Fresh(r).wrong = "nothing"
           /\ Fresh(r).ret = "none"
<1>1. IsCall(Idle) /\ Idle.pc = "idle" /\ Idle.wrong = "nothing" /\ Idle.ret = "none"
  BY Zenon DEF IsCall, Fields, Idle
<1> QED
  BY <1>1, SomeFields, Zenon DEF Fresh, IsCall

-----------------------------------------------------------------------------
(* The alba levels.                                                         *)

(* What call r relies on: who looks at the levels, or comes back to reading *)
(* after an update, has seen some, and who waits will find the filler or    *)
(* what it filled in.                                                       *)
LevelsOk(r) ==
    /\ r.wrong # "levels"
    /\ r.pc \in {"copy", "resolve", "read"} => levels # <<>>
    /\ r.pc \in {"update", "wait", "fill", "ask", "push"} =>
         r.ret \in {"copy", "read", "first"} /\ (r.ret = "read" => levels # <<>>)
    /\ r.pc = "wait" => filler # NoClient \/ levels # <<>>
CallsInv == th = [c \in Client |-> th[c]] /\ \A c \in Client : IsCall(th[c])
LevelsInv == bad \/ refilled \/ \A c \in Client : LevelsOk(th[c])
(* The levels as far as they are pushed.                                    *)
Pushed(be) == {<<>>, <<be[1]>>, <<be[1], be[2]>>}
RoraInv == CallsInv /\ LevelsInv /\ backend \in AlbaLevels /\ levels \in Pushed(backend)
(* Where a call does not need the levels.                                   *)
Away == {"idle", "undefined", "levels", "decrypt", "lookup", "get", "change", "changed",
         "process", "first", "add", "insert", "invalidate"}
IsAway(r) == IsCall(r) /\ r.pc \in Away /\ (bad \/ refilled \/ r.wrong # "levels")
(* What is known of a call: it is one, and it has not found the levels away.*)
LEMMA CallIs ==
    ASSUME RoraInv, NEW c \in Client
    PROVE  IsCall(th[c]) /\ (bad \/ refilled \/ LevelsOk(th[c]))
                         /\ (bad \/ refilled \/ th[c].wrong # "levels")
BY Zenon DEF RoraInv, CallsInv, LevelsInv, LevelsOk

(* One level more.                                                          *)
LEMMA PushedNext ==
    ASSUME NEW be, Len(be) \in 1..2, NEW lv \in Pushed(be), Len(lv) < Len(be)
    PROVE  Append(lv, be[Len(lv) + 1]) # <<>> /\ Append(lv, be[Len(lv) + 1]) \in Pushed(be)
<1>1. CASE lv = <<>>
  <2>1. Len(<<>>) = 0 /\ (\A a : <<a>> # <<>>)
    OBVIOUS
  <2>2. \A a : <<a>> = Append(<<>>, a)
    OBVIOUS
  <2>3. be[Len(lv) + 1] = be[1]
    BY <1>1, <2>1
  <2> QED
    BY <1>1, <2>1, <2>2, <2>3 DEF Pushed
<1>2. CASE lv = <<be[1]>>
  <2>1. \A a : Len(<<a>>) = 1
    OBVIOUS
  <2>2. <<be[1], be[2]>> # <<>> /\ <<be[1], be[2]>> = Append(<<be[1]>>, be[2])
    <3>1. <<be[1]>> \in Seq({be[1]})
      OBVIOUS
    <3>2. Len(<<be[1]>>) = 1 /\ <<be[1]>>[1] = be[1]
      OBVIOUS
    <3> DEFINE s == Append(<<be[1]>>, be[2])
    <3>3. Len(s) = 2 /\ s[1] = be[1] /\ s[2] = be[2] /\ s \in Seq({be[1], be[2]})
      BY <3>1, <3>2
    <3> HIDE DEF s
    <3> QED
      BY <3>3
  <2>3. be[Len(lv) + 1] = be[2]
    BY <1>2, <2>1
  <2>4. Append(lv, be[Len(lv) + 1]) = Append(<<be[1]>>, be[2])
    BY <1>2, <2>3, Zenon
  <2>5. <<be[1], be[2]>> \in Pushed(be)
    BY DEF Pushed
  <2> QED
    BY <2>2, <2>4, <2>5, Zenon
<1>3. CASE lv = <<be[1], be[2]>>
  <2>1. \A a, b : Len(<<a, b>>) = 2
    OBVIOUS
  <2> QED
    BY <1>3, <2>1
<1> QED
  BY <1>1, <1>2, <1>3 DEF Pushed

(* How many there are, and which one is the first.                          *)
LEMMA PushedIs ==
    ASSUME NEW be, NEW lv \in Pushed(be), lv # <<>>
    PROVE  Len(lv) \in 1..2 /\ lv[1] = be[1]
<1>1. (\A a : Len(<<a>>) = 1 /\ <<a>>[1] = a) /\ (\A a, b : Len(<<a, b>>) = 2 /\ <<a, b>>[1] = a)
  OBVIOUS
<1>2. 1 \in 1..2 /\ 2 \in 1..2
  OBVIOUS
<1> QED
  BY <1>1, <1>2 DEF Pushed

(* Every step keeps the invariant.                                          *)
LEMMA RoraStepKeeps == RoraInv /\ [Next]_vars => RoraInv'
(* A step of one call that leaves OsdAccess alone.                          *)
<1>CallStep.
    ASSUME RoraInv, NEW c \in Client, NEW r, Goes(c, r), IsCall(r),
           bad \/ refilled \/ LevelsOk(r), UNCHANGED <<accessVars, backend>>
    PROVE  RoraInv'
  <2> USE <1>CallStep
  <2>1. th' = [d \in Client |-> IF d = c THEN r ELSE th[d]]
    BY Zenon DEF RoraInv, CallsInv, Goes
  <2>2. CallsInv'
    BY <2>1, Zenon DEF RoraInv, CallsInv, IsCall
  <2>3. \A d \in Client : th'[d] = r \/ th'[d] = th[d]
    BY <2>1, Zenon
  <2>4. LevelsInv'
    BY <2>3, Zenon DEF RoraInv, LevelsInv, LevelsOk, accessVars
  <2> QED
    BY <2>2, <2>4, Zenon DEF RoraInv, accessVars
(* returns: the call goes on where it wanted to after the update, or ends.  *)
<1>ReturnsIs.
    ASSUME RoraInv, NEW c \in Client, NEW ok \in BOOLEAN
    PROVE  /\ IsCall(returns(c, ok))
           /\ \/ returns(c, ok).pc = "idle" /\ returns(c, ok).wrong = "nothing"
              \/ returns(c, ok).pc = th[c].ret /\ returns(c, ok).wrong = th[c].wrong
  <2> USE <1>ReturnsIs
  <2>1. IsCall(th[c])
    BY Zenon DEF RoraInv, CallsInv
  <2>2. CASE th[c].ret = "read" \/ ok
    BY <2>1, <2>2, SomeFields, Zenon DEF returns, IsCall
  <2>3. CASE ~(th[c].ret = "read" \/ ok)
    BY <2>3, FreshIs, Zenon DEF returns, Thrown
  <2> QED
    BY <2>2, <2>3, Zenon
(* OsdAccess::update *)
<1>UpdateKeeps.
    ASSUME RoraInv, NEW c \in Client, Update(c) \/ Wait(c) \/ Fill(c)
    PROVE  RoraInv'
  <2> USE <1>UpdateKeeps
  <2>1. IsCall(th[c]) /\ th = [d \in Client |-> th[d]]
    BY Zenon DEF RoraInv, CallsInv
  <2>2. CASE Update(c)
    <3> DEFINE r == [th[c] EXCEPT !.pc = IF filler = NoClient THEN "fill" ELSE "wait"]
    <3>1. /\ IsCall(r) /\ r.wrong = th[c].wrong /\ r.ret = th[c].ret
          /\ r.pc = IF filler = NoClient THEN "fill" ELSE "wait"
      BY <2>1, SomeFields, Zenon DEF IsCall
    <3>2. Goes(c, r) /\ th[c].pc = "update" /\ UNCHANGED <<accessVars, backend>>
      BY <2>2, Zenon DEF Update, To, same
    <3> HIDE DEF r
    <3>3. bad \/ refilled \/ LevelsOk(r)
      BY <3>1, <3>2, Zenon DEF RoraInv, LevelsInv, LevelsOk
    <3> QED
      BY <3>1, <3>2, <3>3, <1>CallStep, Zenon
  <2>3. CASE Wait(c)
    <3> DEFINE r == returns(c, TRUE)
    <3>1. Goes(c, r) /\ th[c].pc = "wait" /\ filler = NoClient /\ UNCHANGED <<accessVars, backend>>
      BY <2>3, Zenon DEF Wait, same
    <3>t. TRUE \in BOOLEAN
      BY Zenon
    <3>2. /\ IsCall(r)
          /\ \/ r.pc = "idle" /\ r.wrong = "nothing"
             \/ r.pc = th[c].ret /\ r.wrong = th[c].wrong
      BY <3>t, <1>ReturnsIs, Zenon
    <3> HIDE DEF r
    <3>3. bad \/ refilled \/ LevelsOk(r)
      BY <3>1, <3>2, Zenon DEF RoraInv, LevelsInv, LevelsOk
    <3> QED
      BY <3>1, <3>2, <3>3, <1>CallStep, Zenon
  <2>4. CASE Fill(c)
    <3> DEFINE r == [th[c] EXCEPT !.pc = "ask"]
    <3>1. IsCall(r) /\ r.wrong = th[c].wrong /\ r.ret = th[c].ret /\ r.pc = "ask"
      BY <2>1, SomeFields, Zenon DEF IsCall
    <3>2. /\ Goes(c, r) /\ th[c].pc = "fill" /\ filler' = c
          /\ UNCHANGED <<levels, osds, bad, refilled, backend>>
      BY <2>4, Zenon DEF Fill, To, same
    <3> HIDE DEF r
    <3>3. th' = [d \in Client |-> IF d = c THEN r ELSE th[d]]
      BY <2>1, <3>2, Zenon DEF Goes
    <3>4. CallsInv'
      BY <3>1, <3>3, Zenon DEF RoraInv, CallsInv, IsCall
    <3>5. \A d \in Client : th'[d] = r \/ th'[d] = th[d]
      BY <3>3, Zenon
    <3>6. c # NoClient
      BY RoraAssumption, Zenon
    <3>7. LevelsInv'
      BY <3>1, <3>2, <3>5, <3>6, Zenon DEF RoraInv, LevelsInv, LevelsOk
    <3> QED
      BY <3>2, <3>4, <3>7, Zenon DEF RoraInv
  <2> QED
    BY <2>2, <2>3, <2>4, Zenon
(* The fill itself: only the one that found no levels may leave them away.  *)
<1>FillKeeps.
    ASSUME RoraInv, NEW c \in Client, Answer(c) \/ Push(c)
    PROVE  RoraInv'
  <2> USE <1>FillKeeps
  <2>1. IsCall(th[c]) /\ th = [d \in Client |-> th[d]]
    BY Zenon DEF RoraInv, CallsInv
  <2>2. ASSUME NEW r, IsCall(r), Goes(c, r)
        PROVE  CallsInv' /\ \A d \in Client : th'[d] = IF d = c THEN r ELSE th[d]
    <3>1. th' = [d \in Client |-> IF d = c THEN r ELSE th[d]]
      BY <2>1, <2>2, Zenon DEF Goes
    <3> QED
      BY <2>2, <3>1, Zenon DEF RoraInv, CallsInv, IsCall
  <2>3. ASSUME NEW ok \in BOOLEAN PROVE IsCall(returns(c, ok))
    BY <2>3, <1>ReturnsIs, Zenon
  <2>4. CASE Answer(c)
    <3>1. /\ backend' = backend /\ refilled' = (refilled \/ levels # <<>>)
          /\ \/ levels' = <<>> /\ bad' = bad /\ To(c, "push") /\ filler' = filler
             \/ bad' = TRUE /\ Goes(c, returns(c, FALSE))
             \/ bad' = TRUE /\ Goes(c, returns(c, TRUE))
          /\ levels' = <<>> \/ levels' = levels
      BY <2>4, Zenon DEF Answer, sameButEvents
    <3>2. CASE levels' = <<>> /\ bad' = bad /\ To(c, "push") /\ filler' = filler
      <4> DEFINE r == [th[c] EXCEPT !.pc = "push"]
      <4>1. IsCall(r) /\ r.wrong = th[c].wrong /\ r.ret = th[c].ret /\ r.pc = "push"
        BY <2>1, SomeFields, Zenon DEF IsCall
      <4>2. Goes(c, r) /\ th[c].pc = "ask"
        BY <2>4, <3>2, Zenon DEF To, Answer
      <4> HIDE DEF r
      <4>3. CallsInv' /\ \A d \in Client : th'[d] = r \/ th'[d] = th[d]
        BY <2>2, <4>1, <4>2, Zenon
      <4>4. LevelsInv'
        BY <3>1, <3>2, <4>1, <4>2, <4>3, Zenon DEF RoraInv, LevelsInv, LevelsOk
      <4> QED
        BY <3>1, <3>2, <4>3, <4>4, Zenon DEF RoraInv, Pushed
    <3>3. CASE bad' = TRUE /\ (Goes(c, returns(c, FALSE)) \/ Goes(c, returns(c, TRUE)))
      <4>1. CallsInv'
        BY <2>2, <2>3, <3>3, Zenon
      <4> QED
        BY <3>1, <3>3, <4>1, Zenon DEF RoraInv, LevelsInv, Pushed
    <3> QED
      BY <3>1, <3>2, <3>3, Zenon
  <2>5. CASE Push(c)
    <3> DEFINE r == returns(c, TRUE)
    <3>1. /\ (UNCHANGED th /\ UNCHANGED filler) \/ Goes(c, r)
          /\ th[c].pc = "push" /\ Len(levels) < Len(backend)
          /\ levels' = Append(levels, backend[Len(levels) + 1])
          /\ UNCHANGED <<bad, refilled, backend>>
      BY <2>5, Zenon DEF Push, same
    <3>t. TRUE \in BOOLEAN
      BY Zenon
    <3>2. /\ IsCall(r)
          /\ \/ r.pc = "idle" /\ r.wrong = "nothing"
             \/ r.pc = th[c].ret /\ r.wrong = th[c].wrong
      BY <3>t, <1>ReturnsIs, Zenon
    <3> HIDE DEF r
    <3>3. levels' # <<>> /\ levels' \in Pushed(backend)
      <4>1. PICK lv, be : lv = levels /\ be = backend
        BY Zenon
      <4>2. Len(be) \in 1..2 /\ lv \in Pushed(be) /\ Len(lv) < Len(be)
        BY <3>1, <4>1, LevelsAssumption, Zenon DEF RoraInv
      <4>3. Append(lv, be[Len(lv) + 1]) # <<>> /\ Append(lv, be[Len(lv) + 1]) \in Pushed(be)
        BY <4>2, PushedNext, Zenon
      <4> QED
        BY <3>1, <4>1, <4>3, Zenon
    <3>4. CASE UNCHANGED th /\ UNCHANGED filler
      <4>1. CallsInv'
        BY <3>4, Zenon DEF RoraInv, CallsInv, IsCall
      <4>2. LevelsInv'
        BY <3>1, <3>3, <3>4, Zenon DEF RoraInv, LevelsInv, LevelsOk
      <4> QED
        BY <3>1, <3>3, <4>1, <4>2, Zenon DEF RoraInv
    <3>5. CASE Goes(c, r)
      <4>1. CallsInv' /\ \A d \in Client : th'[d] = r \/ th'[d] = th[d]
        BY <2>2, <3>2, <3>5, Zenon
      <4>2. LevelsInv'
        BY <3>1, <3>2, <3>3, <4>1, Zenon DEF RoraInv, LevelsInv, LevelsOk
      <4> QED
        BY <3>1, <3>3, <4>1, <4>2, Zenon DEF RoraInv
    <3> QED
      BY <3>1, <3>4, <3>5, Zenon
  <2> QED
    BY <2>4, <2>5, Zenon
<1>AwayStep.
    ASSUME RoraInv, NEW c \in Client, NEW r, Goes(c, r), IsAway(r),
           UNCHANGED <<accessVars, backend>>
    PROVE  RoraInv'
  <2> USE <1>AwayStep
  <2>1. IsCall(r) /\ (bad \/ refilled \/ LevelsOk(r))
    BY Zenon DEF IsAway, Away, LevelsOk
  <2> QED
    BY <2>1, <1>CallStep, Zenon
(* The ways a call ends.                                                    *)
<1>EndsAway.
    ASSUME NEW r
    PROVE  IsAway(Thrown(r)) /\ IsAway(Returned(r)) /\ IsAway(Fresh(r))
  <2> USE <1>EndsAway
  <2>1. IsAway(Fresh(r))
    BY FreshIs, Zenon DEF IsAway, Away
  <2>2. ASSUME NEW w \in {"bytes", "version", "nothing"}
        PROVE  IsAway([Fresh(r) EXCEPT !.wrong = w])
    BY <2>2, FreshIs, SomeFields, Zenon DEF IsAway, Away, IsCall
  <2>3. (IF ~Right(r) THEN "bytes" ELSE IF ~NewEnough(r) THEN "version" ELSE "nothing")
          \in {"bytes", "version", "nothing"}
    BY Zenon
  <2> QED
    BY <2>1, <2>2, <2>3, Zenon DEF Thrown, Returned
(* The code reads what is not there: of the levels only when they are.      *)
<1>UndefinedAway.
    ASSUME NEW c, NEW why, why # "levels" \/ bad \/ refilled
    PROVE  IsAway([Fresh(th[c]) EXCEPT !.pc = "undefined", !.wrong = why])
  BY <1>UndefinedAway, FreshIs, SomeFields, Zenon DEF IsAway, Away, IsCall
(* The end of the fast path.                                                *)
<1>FastDoneAway.
    ASSUME NEW r, IsCall(r), bad \/ refilled \/ r.wrong # "levels", NEW rc
    PROVE  IsAway(FastDone(r, rc))
  <2> USE <1>FastDoneAway
  <2> DEFINE a(got) == [r EXCEPT !.failures = 0, !.got = got]
             b(n) == [r EXCEPT !.via = redo(r), !.recent = TRUE, !.failures = n]
             end(d) == IF d.via = {} THEN Returned(d) ELSE [d EXCEPT !.pc = "lookup", !.locs = <<>>]
  <2>1. \A got : IsCall(a(got)) /\ a(got).wrong = r.wrong
    BY SomeFields, Zenon DEF IsCall
  <2>2. \A n : IsCall(b(n)) /\ b(n).wrong = r.wrong
    BY SomeFields, Zenon DEF IsCall
  <2>3. ASSUME NEW d, IsCall(d), d.wrong = r.wrong PROVE IsAway(end(d))
    <3>1. CASE d.via = {}
      BY <3>1, <1>EndsAway, Zenon
    <3>2. CASE d.via # {}
      BY <2>3, <3>2, SomeFields, Zenon DEF IsAway, Away, IsCall
    <3> QED
      BY <3>1, <3>2, Zenon
  <2>4. (\E got : FastDone(r, rc) = end(a(got))) \/ (\E n : FastDone(r, rc) = end(b(n)))
    BY Zenon DEF FastDone
  <2> HIDE DEF a, b, end
  <2> QED
    BY <2>1, <2>2, <2>3, <2>4, Zenon
(* read_objects_slices up to the look-ups in the ManifestCache *)
<1>ReadStartKeeps.
    ASSUME RoraInv, NEW c \in Client,
           (\E req, cons : StartRead(c, req, cons)) \/ Levels(c) \/ Copy(c)
    PROVE  RoraInv'
  <2> USE <1>ReadStartKeeps
  <2>1. CASE \E req, cons : StartRead(c, req, cons)
    <3>1. PICK req, cons : StartRead(c, req, cons)
      BY <2>1, Zenon
    <3> DEFINE many == th[c].failures > MaxFailures
               slow == (cons /\ th[c].fc) \/ (many /\ th[c].recent)
               r == [Fresh(th[c]) EXCEPT
                       !.kind = "read", !.req = req, !.cons = cons, !.from = floor,
                       !.failures = IF many /\ ~th[c].recent THEN 0 ELSE @,
                       !.got = [i \in DOMAIN req |-> <<>>],
                       !.locs = [i \in DOMAIN req |-> <<>>],
                       !.via = IF slow THEN DOMAIN req ELSE {},
                       !.pc = IF slow THEN "lookup" ELSE "levels"]
    <3>2. Goes(c, r) /\ UNCHANGED <<accessVars, backend>>
      BY <3>1, Zenon DEF StartRead
    <3>3. IsAway(r)
      BY FreshIs, SomeFields, Zenon DEF IsAway, Away, IsCall
    <3> HIDE DEF r
    <3> QED
      BY <3>2, <3>3, <1>AwayStep, Zenon
  <2>2. CASE Levels(c)
    <3> DEFINE r == IF levels = <<>> THEN [th[c] EXCEPT !.pc = "update", !.ret = "copy"]
                    ELSE [th[c] EXCEPT !.pc = "copy"]
    <3>1. Goes(c, r) /\ UNCHANGED <<accessVars, backend>>
      BY <2>2, Zenon DEF Levels, same
    <3>2. IsCall(r) /\ (bad \/ refilled \/ LevelsOk(r))
      BY CallIs, SomeFields, Zenon DEF IsCall, LevelsOk
    <3> QED
      BY <3>1, <3>2, <1>CallStep, Zenon
  <2>3. CASE Copy(c)
    <3>3. CASE Undefined(c, "race")
      BY <2>3, <3>3, <1>UndefinedAway, <1>AwayStep, Zenon DEF Copy, Undefined, same
    <3>1. CASE levels = <<>> /\ Undefined(c, "levels")
      <4>1. bad \/ refilled
        BY <2>3, <3>1, CallIs, Zenon DEF Copy, LevelsOk
      <4> QED
        BY <2>3, <3>1, <4>1, <1>UndefinedAway, <1>AwayStep, Zenon DEF Copy, Undefined, same
    <3>2. CASE /\ levels # <<>>
               /\ \E work : Goes(c, [th[c] EXCEPT !.pc = "resolve", !.lv = levels, !.work = work])
      <4>1. PICK work : Goes(c, [th[c] EXCEPT !.pc = "resolve", !.lv = levels, !.work = work])
        BY <3>2, Zenon
      <4> DEFINE r == [th[c] EXCEPT !.pc = "resolve", !.lv = levels, !.work = work]
      <4>2. IsCall(r) /\ (bad \/ refilled \/ LevelsOk(r))
        BY <3>2, CallIs, SomeFields, Zenon DEF IsCall, LevelsOk
      <4> QED
        BY <2>3, <4>1, <4>2, <1>CallStep, Zenon DEF Copy, same
    <3> QED
      BY <2>3, <3>1, <3>2, <3>3, Zenon DEF Copy, Races
  <2> QED
    BY <2>1, <2>2, <2>3, Zenon
(* The look-ups *)
<1>ResolveKeeps.
    ASSUME RoraInv, NEW c \in Client, Resolve(c)
    PROVE  RoraInv'
  <2> USE <1>ResolveKeeps
  <2>1. /\ th[c].pc = "resolve" /\ UNCHANGED <<accessVars, backend>>
        /\ \/ \E via, i, work : Goes(c, [th[c] EXCEPT !.via = via, !.locs[i] = <<>>, !.work = work])
           \/ Undefined(c, "outside")
           \/ \E work : Goes(c, [th[c] EXCEPT !.work = work])
           \/ \E i, found, work : Goes(c, [th[c] EXCEPT !.locs[i] = @ \o found, !.work = work])
    BY Zenon DEF Resolve, same
  <2>2. ASSUME NEW r, Goes(c, r), IsCall(r), r.pc = th[c].pc, r.wrong = th[c].wrong
        PROVE  RoraInv'
    <3>1. bad \/ refilled \/ LevelsOk(r)
      BY <2>1, <2>2, CallIs, Zenon DEF LevelsOk
    <3> QED
      BY <2>1, <2>2, <3>1, <1>CallStep, Zenon
  <2>3. IsCall(th[c])
    BY CallIs, Zenon
  <2>4. CASE \E via, i, work : Goes(c, [th[c] EXCEPT !.via = via, !.locs[i] = <<>>, !.work = work])
    <3>1. PICK via, i, work : Goes(c, [th[c] EXCEPT !.via = via, !.locs[i] = <<>>, !.work = work])
      BY <2>4, Zenon
    <3> DEFINE r == [th[c] EXCEPT !.via = via, !.locs[i] = <<>>, !.work = work]
    <3>2. IsCall(r) /\ r.pc = th[c].pc /\ r.wrong = th[c].wrong
      BY <2>3, SomeFields, Zenon DEF IsCall
    <3> QED
      BY <2>2, <3>1, <3>2, Zenon
  <2>5. CASE Undefined(c, "outside")
    BY <2>1, <2>5, <1>UndefinedAway, <1>AwayStep, Zenon DEF Undefined
  <2>6. CASE \E work : Goes(c, [th[c] EXCEPT !.work = work])
    <3>1. PICK work : Goes(c, [th[c] EXCEPT !.work = work])
      BY <2>6, Zenon
    <3> DEFINE r == [th[c] EXCEPT !.work = work]
    <3>2. IsCall(r) /\ r.pc = th[c].pc /\ r.wrong = th[c].wrong
      BY <2>3, SomeFields, Zenon DEF IsCall
    <3> QED
      BY <2>2, <3>1, <3>2, Zenon
  <2>7. CASE \E i, found, work : Goes(c, [th[c] EXCEPT !.locs[i] = @ \o found, !.work = work])
    <3>1. PICK i, found, work : Goes(c, [th[c] EXCEPT !.locs[i] = @ \o found, !.work = work])
      BY <2>7, Zenon
    <3> DEFINE r == [th[c] EXCEPT !.locs[i] = @ \o found, !.work = work]
    <3>2. IsCall(r) /\ r.pc = th[c].pc /\ r.wrong = th[c].wrong
      BY <2>3, SomeFields, Zenon DEF IsCall
    <3> QED
      BY <2>2, <3>1, <3>2, Zenon
  <2> QED
    BY <2>1, <2>4, <2>5, <2>6, <2>7, Zenon
(* The reading, and what is needed for it *)
<1>ReadKeeps.
    ASSUME RoraInv, NEW c \in Client, ShortPath(c) \/ ReadDirect(c) \/ Decrypt(c)
    PROVE  RoraInv'
  <2> USE <1>ReadKeeps
  <2>1. UNCHANGED <<accessVars, backend>>
    BY Zenon DEF ShortPath, ReadDirect, Decrypt, same, sameButEvents
  <2>2. ASSUME Undefined(c, "levels"), levels = <<>>, th[c].pc \in {"resolve", "read"} PROVE RoraInv'
    <3>1. bad \/ refilled
      BY <2>2, CallIs, Zenon DEF LevelsOk
    <3> QED
      BY <2>1, <2>2, <3>1, <1>UndefinedAway, <1>AwayStep, Zenon DEF Undefined
  <2>3. ASSUME NEW r, IsCall(r), r.wrong = th[c].wrong, NEW rc, Goes(c, FastDone(r, rc)) PROVE RoraInv'
    BY <2>1, <2>3, CallIs, <1>FastDoneAway, <1>AwayStep, Zenon
  <2>4. IsCall(th[c])
    BY CallIs, Zenon
  <2>5. CASE ShortPath(c)
    <3>1. PICK via, locs :
            \/ Goes(c, FastDone([th[c] EXCEPT !.via = via, !.locs = locs], 0))
            \/ levels = <<>> /\ Undefined(c, "levels")
            \/ levels # <<>> /\ Goes(c, [[th[c] EXCEPT !.via = via, !.locs = locs] EXCEPT !.pc = "read"])
            \/ levels # <<>> /\ Goes(c, [[th[c] EXCEPT !.via = via, !.locs = locs]
                                           EXCEPT !.pc = "update", !.ret = "read"])
      BY <2>5, Zenon DEF ShortPath
    <3> DEFINE r == [th[c] EXCEPT !.via = via, !.locs = locs]
               a == [r EXCEPT !.pc = "read"]
               b == [r EXCEPT !.pc = "update", !.ret = "read"]
    <3>2. IsCall(r) /\ r.wrong = th[c].wrong
      BY <2>4, SomeFields, Zenon DEF IsCall
    <3> HIDE DEF r
    <3>3. /\ IsCall(a) /\ a.wrong = th[c].wrong /\ a.pc = "read"
          /\ IsCall(b) /\ b.wrong = th[c].wrong /\ b.pc = "update" /\ b.ret = "read"
      BY <3>2, SomeFields, Zenon DEF IsCall
    <3>6. th[c].pc = "resolve"
      BY <2>5, Zenon DEF ShortPath
    <3>4. \/ Goes(c, FastDone(r, 0))
          \/ levels = <<>> /\ Undefined(c, "levels")
          \/ levels # <<>> /\ (Goes(c, a) \/ Goes(c, b))
      BY <3>1, Zenon DEF r
    <3> HIDE DEF a, b
    <3>5. ASSUME levels # <<>>, Goes(c, a) \/ Goes(c, b) PROVE RoraInv'
      <4>1. bad \/ refilled \/ (LevelsOk(a) /\ LevelsOk(b))
        BY <3>3, <3>5, CallIs, Zenon DEF LevelsOk
      <4> QED
        BY <2>1, <3>3, <3>5, <4>1, <1>CallStep, Zenon
    <3> QED
      BY <2>2, <2>3, <3>2, <3>4, <3>5, <3>6, Zenon
  <2>6. CASE ReadDirect(c)
    <3>1. /\ th[c].pc = "read"
          /\ \/ levels = <<>> /\ Undefined(c, "levels")
             \/ Goes(c, [th[c] EXCEPT !.pc = "decrypt"])
             \/ \E rc : Goes(c, FastDone(th[c], rc))
      BY <2>6, Zenon DEF ReadDirect
    <3>2. IsAway([th[c] EXCEPT !.pc = "decrypt"])
      BY CallIs, SomeFields, Zenon DEF IsAway, Away, IsCall
    <3> QED
      BY <2>1, <2>2, <2>3, <2>4, <3>1, <3>2, <1>AwayStep, Zenon
  <2>7. CASE Decrypt(c)
    <3>1. Goes(c, FastDone(th[c], 0)) \/ Goes(c, FastDone(th[c], -1))
      BY <2>7, Zenon DEF Decrypt
    <3> QED
      BY <2>3, <2>4, <3>1, Zenon
  <2> QED
    BY <2>5, <2>6, <2>7, Zenon
(* The proxy *)
<1>ProxyKeeps.
    ASSUME RoraInv, NEW c \in Client,
           \/ Lookup(c) \/ Get(c) \/ Change(c) \/ Changed(c) \/ ProxyInvalidate(c)
           \/ (\E o, kind : StartChange(c, o, kind)) \/ StartDrop(c)
    PROVE  RoraInv'
  <2> USE <1>ProxyKeeps
  <2>1. UNCHANGED <<accessVars, backend>>
    BY Zenon DEF Lookup, Get, Change, Changed, ProxyInvalidate, StartChange, StartDrop, same,
                 sameButEvents
  <2>2. IsCall(th[c]) /\ (bad \/ refilled \/ th[c].wrong # "levels")
    BY CallIs, Zenon
  <2>3. SUFFICES \E r : Goes(c, r) /\ IsAway(r)
    BY <2>1, <1>AwayStep, Zenon
  <2>4. CASE Lookup(c)
    <3>1. \/ \E mf, src : Goes(c, [th[c] EXCEPT !.pc = "get", !.mf = mf, !.src = src])
          \/ Goes(c, Thrown(th[c]))
      BY <2>4, Zenon DEF Lookup
    <3>2. \A mf, src : IsAway([th[c] EXCEPT !.pc = "get", !.mf = mf, !.src = src])
      BY <2>2, SomeFields, Zenon DEF IsAway, Away, IsCall
    <3> QED
      BY <3>1, <3>2, <1>EndsAway, Zenon
  <2>5. CASE Get(c)
    <3> DEFINE i == CHOOSE i \in th[c].via : \A j \in th[c].via : i <= j
               o == th[c].req[i].object
               slices == th[c].req[i].slices
               mf == ObjectManifest(o, th[c].mf)
               ls == resolve(mf, Targets(slices))
               pc == IF th[c].via = {i} THEN "process" ELSE "lookup"
               got == Filled(slices, ls)
               Read(more) ==
                 [th[c] EXCEPT !.got[i] = got, !.via = @ \ {i},
                               !.infos = more \o Infos(<<mf>>) \o @,
                               !.mf = 0, !.src = "none", !.pc = pc]
    <3>1. \/ \E more : Goes(c, Read(more))
          \/ To(c, "lookup") \/ Goes(c, Thrown(th[c]))
      BY <2>5, Zenon DEF Get
    <3>2. pc \in {"process", "lookup"}
      BY Zenon
    <3> HIDE DEF i, mf, pc, got
    <3>3. ASSUME NEW more PROVE IsAway(Read(more))
      <4>1. IsCall(Read(more)) /\ Read(more).pc = pc /\ Read(more).wrong = th[c].wrong
        BY <2>2, SomeFields, Zenon DEF IsCall
      <4> QED
        BY <2>2, <3>2, <4>1, Zenon DEF IsAway, Away
    <3>4. IsAway([th[c] EXCEPT !.pc = "lookup"])
      BY <2>2, SomeFields, Zenon DEF IsAway, Away, IsCall
    <3> QED
      BY <3>1, <3>3, <3>4, <1>EndsAway, Zenon DEF To
  <2>6. CASE \E o, kind : StartChange(c, o, kind)
    <3>1. PICK o, kind : Goes(c, [Fresh(th[c]) EXCEPT !.kind = kind, !.pc = "change", !.work = <<o>>])
      BY <2>6, Zenon DEF StartChange
    <3>2. IsAway([Fresh(th[c]) EXCEPT !.kind = kind, !.pc = "change", !.work = <<o>>])
      BY FreshIs, SomeFields, Zenon DEF IsAway, Away, IsCall
    <3> QED
      BY <3>1, <3>2, Zenon
  <2>7. CASE Change(c)
    <3>1. \/ \E o, v : Goes(c, [th[c] EXCEPT !.pc = "changed", !.mark[o] = v])
          \/ Goes(c, Thrown(th[c]))
      BY <2>7, Zenon DEF Change
    <3>2. \A o, v : IsAway([th[c] EXCEPT !.pc = "changed", !.mark[o] = v])
      BY <2>2, SomeFields, Zenon DEF IsAway, Away, IsCall
    <3> QED
      BY <3>1, <3>2, <1>EndsAway, Zenon
  <2>8. CASE Changed(c)
    <3>1. \/ \E infos : Goes(c, [th[c] EXCEPT !.pc = "process", !.work = <<>>, !.infos = infos])
          \/ Goes(c, Thrown(th[c])) \/ Goes(c, Returned(th[c]))
      BY <2>8, Zenon DEF Changed
    <3>2. \A infos : IsAway([th[c] EXCEPT !.pc = "process", !.work = <<>>, !.infos = infos])
      BY <2>2, SomeFields, Zenon DEF IsAway, Away, IsCall
    <3> QED
      BY <3>1, <3>2, <1>EndsAway, Zenon
  <2>9. CASE ProxyInvalidate(c)
    BY <2>9, <1>EndsAway, Zenon DEF ProxyInvalidate
  <2>10. CASE StartDrop(c)
    <3>1. IsAway([Fresh(th[c]) EXCEPT !.kind = "drop", !.pc = "invalidate"])
      BY FreshIs, SomeFields, Zenon DEF IsAway, Away, IsCall
    <3> QED
      BY <2>10, <3>1, Zenon DEF StartDrop
  <2> QED
    BY <2>4, <2>5, <2>6, <2>7, <2>8, <2>9, <2>10, Zenon
(* _process *)
<1>ProcessKeeps.
    ASSUME RoraInv, NEW c \in Client, Process(c) \/ First(c) \/ Add(c) \/ Insert(c)
    PROVE  RoraInv'
  <2> USE <1>ProcessKeeps
  <2>1. UNCHANGED <<accessVars, backend>>
    BY Zenon DEF Process, First, Add, Insert, same
  <2>2. IsCall(th[c]) /\ (bad \/ refilled \/ LevelsOk(th[c]))
        /\ (bad \/ refilled \/ th[c].wrong # "levels")
    BY CallIs, Zenon
  <2>3. CASE Process(c)
    <3> DEFINE u == [th[c] EXCEPT !.pc = "update", !.ret = "first"]
    <3>1. \/ Goes(c, [th[c] EXCEPT !.pc = "add"]) \/ Goes(c, [th[c] EXCEPT !.pc = "first"])
          \/ Goes(c, u)
      BY <2>3, Zenon DEF Process
    <3>2. IsAway([th[c] EXCEPT !.pc = "add"]) /\ IsAway([th[c] EXCEPT !.pc = "first"])
      BY <2>2, SomeFields, Zenon DEF IsAway, Away, IsCall
    <3>3. IsCall(u) /\ (bad \/ refilled \/ LevelsOk(u))
      BY <2>2, SomeFields, Zenon DEF IsCall, LevelsOk
    <3> HIDE DEF u
    <3> QED
      BY <2>1, <3>1, <3>2, <3>3, <1>AwayStep, <1>CallStep, Zenon
  <2>4. CASE First(c)
    <3>1. \/ Goes(c, [Fresh(th[c]) EXCEPT !.pc = "undefined", !.wrong = "race"])
          \/ Goes(c, Thrown(th[c])) \/ \E a : Goes(c, [th[c] EXCEPT !.pc = "add", !.infos[1].alba = a])
      BY <2>4, Zenon DEF First, Races, Undefined
    <3>3. IsAway([Fresh(th[c]) EXCEPT !.pc = "undefined", !.wrong = "race"])
      BY <1>UndefinedAway, Zenon
    <3>2. \A a : IsAway([th[c] EXCEPT !.pc = "add", !.infos[1].alba = a])
      BY <2>2, SomeFields, Zenon DEF IsAway, Away, IsCall
    <3> QED
      BY <2>1, <3>1, <3>2, <3>3, <1>EndsAway, <1>AwayStep, Zenon
  <2>5. CASE Add(c)
    <3>1. IsAway([th[c] EXCEPT !.pc = "insert", !.mcp = "shared"])
      BY <2>2, SomeFields, Zenon DEF IsAway, Away, IsCall
    <3> QED
      BY <2>1, <2>5, <3>1, <1>AwayStep, Zenon DEF Add
  <2>6. CASE Insert(c)
    <3>1. \/ Goes(c, Returned(th[c]))
          \/ \E rest : Goes(c, [th[c] EXCEPT !.pc = "process", !.mcp = "none", !.infos = rest])
      BY <2>6, Zenon DEF Insert
    <3>2. \A rest : IsAway([th[c] EXCEPT !.pc = "process", !.mcp = "none", !.infos = rest])
      BY <2>2, SomeFields, Zenon DEF IsAway, Away, IsCall
    <3> QED
      BY <2>1, <3>1, <3>2, <1>EndsAway, <1>AwayStep, Zenon
  <2> QED
    BY <2>3, <2>4, <2>5, <2>6, Zenon
(* invalidate_cache begins: the other calls only lose their cache.          *)
<1>InvalidateKeeps.
    ASSUME RoraInv, NEW c \in Client, StartInvalidate(c)
    PROVE  RoraInv'
  <2> USE <1>InvalidateKeeps
  <2> DEFINE r == [Fresh(th[c]) EXCEPT !.kind = "invalidate", !.pc = "invalidate"]
  <2>1. IsAway(r)
    BY FreshIs, SomeFields, Zenon DEF IsAway, Away, IsCall
  <2>2. /\ UNCHANGED <<accessVars, backend>>
        /\ th' = [d \in Client |-> IF d = c THEN r
                                   ELSE IF th[d].mcp = "shared" THEN [th[d] EXCEPT !.mcp = "dropped"]
                                   ELSE th[d]]
    BY Zenon DEF StartInvalidate
  <2> HIDE DEF r
  <2>3. ASSUME NEW d \in Client
        PROVE  /\ IsCall([th[d] EXCEPT !.mcp = "dropped"])
               /\ bad \/ refilled \/ LevelsOk([th[d] EXCEPT !.mcp = "dropped"])
    BY CallIs, SomeFields, Zenon DEF IsCall, LevelsOk
  <2>4. ASSUME NEW d \in Client
        PROVE  IsCall(th'[d]) /\ (bad \/ refilled \/ LevelsOk(th'[d]))
    <3>1. IsCall(r) /\ (bad \/ refilled \/ LevelsOk(r))
      BY <2>1, Zenon DEF IsAway, Away, LevelsOk
    <3>2. th'[d] \in {r, [th[d] EXCEPT !.mcp = "dropped"], th[d]}
      BY <2>2, Zenon
    <3> QED
      BY <2>3, <3>1, <3>2, CallIs, Zenon
  <2>5. CallsInv'
    BY <2>2, <2>4, Zenon DEF CallsInv, IsCall
  <2>6. LevelsInv'
    BY <2>2, <2>4, Zenon DEF LevelsInv, LevelsOk, accessVars
  <2> QED
    BY <2>2, <2>5, <2>6, Zenon DEF RoraInv, accessVars
<1> SUFFICES ASSUME RoraInv, [Next]_vars PROVE RoraInv'
  OBVIOUS
<1>1. CASE UNCHANGED vars
  BY <1>1, Zenon DEF RoraInv, CallsInv, IsCall, LevelsInv, LevelsOk, vars, accessVars
<1>2. ASSUME NEW c \in Client, Runs(c) PROVE RoraInv'
  BY <1>2, <1>UpdateKeeps, <1>FillKeeps, <1>ReadStartKeeps, <1>ResolveKeeps, <1>ReadKeeps, <1>ProxyKeeps,
     <1>ProcessKeeps, Zenon DEF Runs
<1>3. ASSUME NEW c \in Client, TimePasses(c) PROVE RoraInv'
  <2> DEFINE r == [th[c] EXCEPT !.recent = FALSE]
  <2>1. IsCall(r) /\ (bad \/ refilled \/ LevelsOk(r))
    BY CallIs, SomeFields, Zenon DEF IsCall, LevelsOk
  <2> QED
    BY <1>3, <2>1, <1>CallStep, Zenon DEF TimePasses, sameButEvents
<1>4. CASE \/ \E o \in Object, alive \in BOOLEAN : OtherChanges(o, alive)
           \/ \E b \in blobs : Collect(b[1], b[2])
           \/ \E o \in Object : Evict(o)
           \/ \E e \in epilogues : EpilogueUpdate(e) \/ EpilogueAdd(e)
  <2>1. UNCHANGED <<accessVars, th, backend>>
    BY <1>4, Zenon DEF OtherChanges, Collect, Evict, EpilogueUpdate, EpilogueAdd, world, sameButEvents
  <2> QED
    BY <2>1, Zenon DEF RoraInv, CallsInv, IsCall, LevelsInv, LevelsOk, accessVars
<1>5. ASSUME NEW c \in Client,
             \/ \E req \in Requests[Len(backend)], cons \in BOOLEAN : StartRead(c, req, cons)
             \/ \E o \in Object, kind \in {"write", "delete"} : StartChange(c, o, kind)
             \/ StartInvalidate(c) \/ StartDrop(c)
      PROVE  RoraInv'
  BY <1>5, <1>ReadStartKeeps, <1>ProxyKeeps, <1>InvalidateKeeps, Zenon
<1> QED
  BY <1>1, <1>2, <1>3, <1>4, <1>5, Zenon DEF Next

LEMMA RoraInvHolds == Spec => []RoraInv
<1>1. Init => RoraInv
  <2> SUFFICES ASSUME Init PROVE RoraInv
    OBVIOUS
  <2>1. PICK fc : th = [c \in Client |-> [Idle EXCEPT !.fc = fc]]
    BY Zenon DEF Init
  <2>2. /\ IsCall([Idle EXCEPT !.fc = fc]) /\ [Idle EXCEPT !.fc = fc].pc = "idle"
        /\ [Idle EXCEPT !.fc = fc].wrong = "nothing"
    BY Zenon DEF IsCall, Fields, Idle
  <2> HIDE DEF IsCall
  <2>3. CallsInv
    BY <2>1, <2>2, Zenon DEF CallsInv
  <2>4. LevelsInv
    BY <2>1, <2>2, Zenon DEF LevelsInv, LevelsOk
  <2> QED
    BY <2>3, <2>4, Zenon DEF RoraInv, Init, Pushed
<1> QED
  BY <1>1, RoraStepKeeps, PTL DEF Spec

(* OsdAccess::update, get_alba_levels, _maybe_update_osd_infos: a client    *)
(* never takes the first of no alba levels, however the fills and reads of  *)
(* many clients fall together, as long as no fill failed and none came      *)
(* after another.                                                           *)
THEOREM RoraLevelsAreKnown == Spec => []LevelsAreKnown
<1>1. RoraInv => LevelsAreKnown
  BY Zenon DEF RoraInv, LevelsInv, LevelsOk, LevelsAreKnown
<1> QED
  BY <1>1, RoraInvHolds, PTL

-----------------------------------------------------------------------------
(* The manifest cache.                                                      *)

Keyed(s) == \A i, j \in DOMAIN s : s[i].key = s[j].key => i = j
Named(s) == \A i \in DOMAIN s : s[i].key[2] = s[i].mf.name
Erased(S, s, i, t) ==
    /\ t \in Seq(S) /\ Len(t) = Len(s) - 1 /\ Keyed(t)
    /\ \A j \in 1..(Len(s) - 1) : \E l \in 1..Len(s) : l # i /\ t[j] = s[l]
(* The entries left when the one at i is erased.                            *)
LEMMA EraseIs ==
    ASSUME NEW S, NEW s \in Seq(S), Keyed(s), NEW i \in 1..Len(s)
    PROVE  Erased(S, s, i, erase(s, i))
<1> DEFINE n == Len(s)
           at_(j) == IF j < i THEN j ELSE j + 1
           t == erase(s, i)
<1>1. n \in Nat /\ n - 1 \in Nat /\ DOMAIN s = 1..n
  OBVIOUS
<1>2. ASSUME NEW j \in 1..(n - 1)
      PROVE  at_(j) \in 1..n /\ at_(j) # i
  BY <1>1
<1>3. \A j, l \in 1..(n - 1) : at_(j) = at_(l) => j = l
  BY <1>1
<1>4. t = [j \in 1..(n - 1) |-> s[at_(j)]]
  BY Zenon DEF erase
<1> HIDE DEF at_, t, n
<1>5. t \in [1..(n - 1) -> S]
  <2>1. \A j \in 1..n : s[j] \in S
    BY DEF n
  <2> QED
    BY <1>2, <1>4, <2>1, Zenon
<1>6. t \in Seq(S) /\ Len(t) = n - 1 /\ DOMAIN t = 1..(n - 1)
  BY <1>1, <1>5
<1>7. Keyed(t)
  BY <1>1, <1>2, <1>3, <1>4, <1>6, Zenon DEF Keyed
<1> QED
  BY <1>2, <1>4, <1>6, <1>7, Zenon DEF t, n, Erased

(* without: no entry has the key any more, and no other one is touched.     *)
LEMMA WithoutIs ==
    ASSUME NEW S, NEW s \in Seq(S), Keyed(s), Named(s), NEW k
    PROVE  /\ without(s, k) \in Seq(S) /\ Keyed(without(s, k)) /\ Named(without(s, k))
           /\ \A i \in DOMAIN without(s, k) : without(s, k)[i].key # k
           /\ IF has(s, k) THEN Len(without(s, k)) = Len(s) - 1 ELSE without(s, k) = s
<1>1. DOMAIN s = 1..Len(s) /\ Len(s) \in Nat
  OBVIOUS
<1>2. CASE has(s, k)
  <2>1. PICK i \in 1..Len(s) : i = at(s, k) /\ s[i].key = k
    BY <1>1, <1>2, Zenon DEF has, at
  <2>2. without(s, k) = erase(s, i)
    BY <1>2, <2>1, Zenon DEF without
  <2> DEFINE t == erase(s, i)
  <2>6. Erased(S, s, i, t)
    BY <2>1, EraseIs, Zenon
  <2>3. /\ t \in Seq(S) /\ Len(t) = Len(s) - 1 /\ Keyed(t)
        /\ \A j \in 1..(Len(s) - 1) : \E l \in 1..Len(s) : l # i /\ t[j] = s[l]
    BY <2>6, Zenon DEF Erased
  <2> HIDE DEF t
  <2>4. DOMAIN t = 1..(Len(s) - 1)
    BY <2>3
  <2>5. ASSUME NEW j \in DOMAIN t PROVE t[j].key[2] = t[j].mf.name /\ t[j].key # k
    <3>1. PICK l \in 1..Len(s) : l # i /\ t[j] = s[l]
      BY <2>3, <2>4, <2>5, Zenon
    <3>2. s[l].key[2] = s[l].mf.name
      BY <1>1, Zenon DEF Named
    <3>3. s[l].key # s[i].key
      BY <1>1, <3>1, Zenon DEF Keyed
    <3> QED
      BY <2>1, <3>1, <3>2, <3>3, Zenon
  <2> QED
    BY <1>2, <2>2, <2>3, <2>5, Zenon DEF t, Named
<1>3. CASE ~has(s, k)
  BY <1>3, Zenon DEF without, has
<1> QED
  BY <1>2, <1>3, Zenon

(* An entry with a key of its own is added.                                 *)
LEMMA AppendIs ==
    ASSUME NEW S, NEW s \in Seq(S), Keyed(s), Named(s), NEW e, e.key[2] = e.mf.name,
           \A i \in DOMAIN s : s[i].key # e.key
    PROVE  /\ Append(s, e) \in Seq(S \union {e}) /\ Keyed(Append(s, e)) /\ Named(Append(s, e))
           /\ Len(Append(s, e)) = Len(s) + 1
<1> DEFINE t == Append(s, e)
           n == Len(s)
<1>1. s \in Seq(S \union {e})
  OBVIOUS
<1>2. /\ t \in Seq(S \union {e}) /\ Len(t) = n + 1 /\ n \in Nat
      /\ DOMAIN t = 1..(n + 1) /\ DOMAIN s = 1..n
      /\ \A i \in 1..n : t[i] = s[i]
      /\ t[n + 1] = e
  BY <1>1
<1>3. \A i \in 1..(n + 1) : i \in 1..n \/ i = n + 1
  BY <1>2
<1> HIDE DEF t, n
<1>4. ASSUME NEW i \in 1..(n + 1), NEW j \in 1..(n + 1), t[i].key = t[j].key PROVE i = j
  <2>1. CASE i \in 1..n /\ j \in 1..n
    BY <1>2, <1>4, <2>1, Zenon DEF Keyed
  <2>2. CASE i = n + 1 \/ j = n + 1
    BY <1>2, <1>3, <1>4, <2>2, Zenon
  <2> QED
    BY <1>3, <2>1, <2>2, Zenon
<1>5. ASSUME NEW i \in 1..(n + 1) PROVE t[i].key[2] = t[i].mf.name
  BY <1>2, <1>3, Zenon DEF Named
<1> QED
  BY <1>2, <1>4, <1>5, Zenon DEF t, n, Keyed, Named

(* The oldest entry is dropped.                                             *)
LEMMA TailIs ==
    ASSUME NEW S, NEW s \in Seq(S), Keyed(s), Named(s), s # <<>>
    PROVE  Tail(s) \in Seq(S) /\ Keyed(Tail(s)) /\ Named(Tail(s)) /\ Len(Tail(s)) = Len(s) - 1
<1> DEFINE t == Tail(s)
           n == Len(s)
<1>1. /\ t \in Seq(S) /\ Len(t) = n - 1 /\ n \in Nat /\ n # 0
      /\ DOMAIN t = 1..(n - 1) /\ DOMAIN s = 1..n
      /\ \A i \in 1..(n - 1) : t[i] = s[i + 1]
  OBVIOUS
<1>2. \A i \in 1..(n - 1) : i + 1 \in 1..n
  BY <1>1
<1>3. \A i, j \in 1..(n - 1) : i + 1 = j + 1 => i = j
  BY <1>1
<1> HIDE DEF t, n
<1>4. ASSUME NEW i \in 1..(n - 1), NEW j \in 1..(n - 1), t[i].key = t[j].key PROVE i = j
  <2>2. PICK a, b \in DOMAIN s : a = i + 1 /\ b = j + 1
    BY <1>1, <1>2, Zenon
  <2>3. s[a].key = s[b].key
    BY <1>1, <1>4, <2>2, Zenon
  <2>1. i + 1 = j + 1
    BY <2>2, <2>3, Zenon DEF Keyed
  <2> QED
    BY <1>3, <2>1, Zenon
<1>5. ASSUME NEW i \in 1..(n - 1) PROVE t[i].key[2] = t[i].mf.name
  BY <1>1, <1>2, Zenon DEF Named
<1> QED
  BY <1>1, <1>4, <1>5, Zenon DEF t, n, Keyed, Named

(* The invariant: what CacheIsSound says, of a sequence.                    *)
CacheInv == /\ \E S : mc \in Seq(S)
            /\ Keyed(mc) /\ Named(mc) /\ Len(mc) <= Capacity
LEMMA CacheStepKeeps == CacheInv /\ [Next]_vars => CacheInv'
(* UnsafeLRUCache::find *)
<1>RelocateKeeps.
    ASSUME CacheInv, NEW k, mc' = relocate(mc, k)
    PROVE  CacheInv'
  <2> USE <1>RelocateKeeps
  <2>1. PICK S : mc \in Seq(S)
    BY Zenon DEF CacheInv
  <2>2. Keyed(mc) /\ Named(mc) /\ Len(mc) <= Capacity
    BY Zenon DEF CacheInv
  <2>3. CASE ~has(mc, k)
    <3>1. mc' = mc
      BY <2>3, Zenon DEF relocate
    <3> QED
      BY <3>1, Zenon DEF CacheInv, Keyed, Named
  <2>4. CASE has(mc, k)
    <3> DEFINE t == without(mc, k)
               e == lru_find(mc, k)
    <3>1. /\ t \in Seq(S) /\ Keyed(t) /\ Named(t) /\ Len(t) = Len(mc) - 1
          /\ \A i \in DOMAIN t : t[i].key # k
      BY <2>1, <2>2, <2>4, WithoutIs, Zenon
    <3>2. e.key = k /\ e.key[2] = e.mf.name
      BY <2>2, <2>4, Zenon DEF has, at, lru_find, Named
    <3>3. mc' = Append(t, e)
      BY <2>4, Zenon DEF relocate
    <3> HIDE DEF t, e
    <3>4. /\ Append(t, e) \in Seq(S \union {e}) /\ Keyed(Append(t, e)) /\ Named(Append(t, e))
          /\ Len(Append(t, e)) = Len(t) + 1
      BY <3>1, <3>2, AppendIs, Zenon
    <3>5. Len(mc) \in Nat /\ Len(t) + 1 = Len(mc)
      BY <2>1, <3>1
    <3> QED
      BY <2>2, <3>3, <3>4, <3>5, Zenon DEF CacheInv, Keyed, Named
  <2> QED
    BY <2>3, <2>4, Zenon
(* UnsafeLRUCache::insert: a full cache loses its oldest entry first, so    *)
(* there is room whether or not the key was there.                          *)
<1>InsertKeepsCache.
    ASSUME CacheInv, NEW e, e.key[2] = e.mf.name, mc' = lru_insert(mc, e)
    PROVE  CacheInv'
  <2> USE <1>InsertKeepsCache
  <2>1. PICK S : mc \in Seq(S)
    BY Zenon DEF CacheInv
  <2>2. Keyed(mc) /\ Named(mc) /\ Len(mc) <= Capacity /\ Capacity \in Nat \ {0}
    BY RoraAssumption, Zenon DEF CacheInv
  <2> DEFINE old == IF Len(mc) >= Capacity THEN Tail(mc) ELSE mc
             t == without(old, e.key)
  <2>3. old \in Seq(S) /\ Keyed(old) /\ Named(old) /\ Len(old) < Capacity /\ Len(old) \in Nat
    <3>1. CASE Len(mc) >= Capacity
      <4>1. mc # <<>> /\ Len(mc) = Capacity
        BY <2>1, <2>2, <3>1
      <4>2. Tail(mc) \in Seq(S) /\ Keyed(Tail(mc)) /\ Named(Tail(mc)) /\ Len(Tail(mc)) = Len(mc) - 1
        BY <2>1, <2>2, <4>1, TailIs, Zenon
      <4>3. Len(mc) - 1 \in Nat /\ Len(mc) - 1 < Capacity
        BY <2>2, <4>1
      <4> QED
        BY <3>1, <4>2, <4>3, Zenon
    <3>2. CASE ~(Len(mc) >= Capacity)
      <4>1. Len(mc) \in Nat /\ Len(mc) < Capacity
        BY <2>1, <2>2, <3>2
      <4> QED
        BY <2>1, <2>2, <3>2, <4>1, Zenon
    <3> QED
      BY <3>1, <3>2, Zenon
  <2>4. mc' = Append(t, e)
    BY Zenon DEF lru_insert
  <2> HIDE DEF old
  <2>5. /\ t \in Seq(S) /\ Keyed(t) /\ Named(t) /\ \A i \in DOMAIN t : t[i].key # e.key
        /\ IF has(old, e.key) THEN Len(t) = Len(old) - 1 ELSE t = old
    BY <2>3, WithoutIs, Zenon
  <2> HIDE DEF t
  <2>6. Len(t) + 1 <= Capacity
    BY <2>2, <2>3, <2>5
  <2>7. /\ Append(t, e) \in Seq(S \union {e}) /\ Keyed(Append(t, e)) /\ Named(Append(t, e))
        /\ Len(Append(t, e)) = Len(t) + 1
    BY <2>5, AppendIs, Zenon
  <2> QED
    BY <2>4, <2>6, <2>7, Zenon DEF CacheInv, Keyed, Named
<1> SUFFICES ASSUME CacheInv, [Next]_vars PROVE CacheInv'
  OBVIOUS
<1>1. ASSUME mc' = mc PROVE CacheInv'
  BY <1>1, Zenon DEF CacheInv, Keyed, Named
<1>2. CASE UNCHANGED vars
  BY <1>1, <1>2, Zenon DEF vars
<1>3. ASSUME NEW c \in Client, Resolve(c) PROVE CacheInv'
  BY <1>3, <1>RelocateKeeps, Zenon DEF Resolve
<1>4. ASSUME NEW c \in Client, Insert(c) PROVE CacheInv'
  <2> DEFINE info == th[c].infos[1]
             e == [key |-> <<info.alba, info.mf.name>>, mf |-> info.mf]
  <2>1. mc' = lru_insert(mc, e) \/ mc' = mc
    BY <1>4, Zenon DEF Insert
  <2>2. e.key[2] = e.mf.name
    OBVIOUS
  <2> HIDE DEF e
  <2> QED
    BY <1>1, <2>1, <2>2, <1>InsertKeepsCache, Zenon
<1>5. ASSUME NEW c \in Client, StartInvalidate(c) PROVE CacheInv'
  <2>1. mc' = <<>>
    BY <1>5, Zenon DEF StartInvalidate
  <2>2. <<>> \in Seq({}) /\ DOMAIN <<>> = {} /\ Len(<<>>) = 0 /\ 0 <= Capacity
    BY RoraAssumption
  <2> QED
    BY <2>1, <2>2, Zenon DEF CacheInv, Keyed, Named
<1>6. ASSUME NEW c \in Client, Runs(c), ~Resolve(c), ~Insert(c) PROVE mc' = mc
  <2>1. CASE Update(c) \/ Wait(c) \/ Fill(c) \/ Answer(c) \/ Push(c)
    BY <2>1, Zenon DEF Update, Wait, Fill, Answer, Push
  <2>2. CASE Levels(c) \/ Copy(c) \/ ShortPath(c) \/ ReadDirect(c) \/ Decrypt(c)
    BY <2>2, Zenon DEF Levels, Copy, ShortPath, ReadDirect, Decrypt
  <2>3. CASE Lookup(c) \/ Get(c) \/ Change(c) \/ Changed(c) \/ ProxyInvalidate(c)
    BY <2>3, Zenon DEF Lookup, Get, Change, Changed, ProxyInvalidate
  <2>4. CASE Process(c) \/ First(c) \/ Add(c)
    BY <2>4, Zenon DEF Process, First, Add
  <2> QED
    BY <1>6, <2>1, <2>2, <2>3, <2>4, Zenon DEF Runs
<1>7. ASSUME NEW c \in Client,
             \/ \E req \in Requests[Len(backend)], cons \in BOOLEAN : StartRead(c, req, cons)
             \/ \E o \in Object, kind \in {"write", "delete"} : StartChange(c, o, kind)
             \/ StartDrop(c) \/ TimePasses(c)
      PROVE  mc' = mc
  BY <1>7, Zenon DEF StartRead, StartChange, StartDrop, TimePasses
<1>8. CASE \/ \E o \in Object, alive \in BOOLEAN : OtherChanges(o, alive)
           \/ \E b \in blobs : Collect(b[1], b[2])
           \/ \E o \in Object : Evict(o)
           \/ \E e \in epilogues : EpilogueUpdate(e) \/ EpilogueAdd(e)
  BY <1>1, <1>8, Zenon DEF OtherChanges, Collect, Evict, EpilogueUpdate, EpilogueAdd, world
<1> QED
  BY <1>1, <1>2, <1>3, <1>4, <1>5, <1>6, <1>7, <1>8, Zenon DEF Next

(* The manifest cache is what its invariant says.                           *)
LEMMA CacheInvHolds == Spec => []CacheInv
<1>1. Init => CacheInv
  <2> SUFFICES ASSUME Init PROVE CacheInv
    OBVIOUS
  <2>1. mc = <<>>
    BY Zenon DEF Init
  <2>2. <<>> \in Seq({}) /\ DOMAIN <<>> = {} /\ Len(<<>>) = 0 /\ 0 <= Capacity
    BY RoraAssumption
  <2> QED
    BY <2>1, <2>2, Zenon DEF CacheInv, Keyed, Named
<1> QED
  BY <1>1, CacheStepKeeps, PTL DEF Spec

(* UnsafeLRUCache::insert, find, ManifestCache::add: however many clients   *)
(* add, find and drop manifests, the cache never has more entries than its  *)
(* capacity, no two with one key, and under every name the manifest of the  *)
(* object of that name.                                                     *)
THEOREM RoraCacheIsSound == Spec => []CacheIsSound
<1>1. CacheInv => CacheIsSound
  BY Zenon DEF CacheInv, CacheIsSound, Keyed, Named, Elements
<1> QED
  BY <1>1, CacheInvHolds, PTL

-----------------------------------------------------------------------------
(* Numbers and sequences.                                                   *)

(* A set of natural numbers that is not empty has a least element.          *)
LEMMA LeastExists ==
    ASSUME NEW S \in SUBSET Nat, S # {}
    PROVE  \E x \in S : \A y \in S : x <= y
<1> DEFINE R == OpToRel(<, Nat)
<1>1. IsWellFoundedOn(R, Nat)
  BY NatLessThanWellFounded, Zenon
<1>2. \A x, y \in Nat : <<x, y>> \in R <=> x < y
  BY Zenon DEF OpToRel
<1> HIDE DEF R
<1>3. PICK x \in S : \A y \in S : ~ (<<y, x>> \in R)
  BY <1>1, WFMin, Zenon
<1>4. \A y \in S : ~(y < x) /\ x \in Nat /\ y \in Nat
  BY <1>2, <1>3, Zenon
<1> QED
  BY <1>4

(* A set with 0 that is closed under successor has all natural numbers: the *)
(* least missing one would follow one that is not missing.                  *)
LEMMA SetInduction ==
    ASSUME NEW S, 0 \in S, \A n \in Nat : n \in S => n + 1 \in S
    PROVE  Nat \subseteq S
<1> DEFINE T == Nat \ S
<1> SUFFICES ASSUME T # {} PROVE FALSE
  BY Zenon
<1>1. PICK x \in T : \A y \in T : x <= y
  <2>1. T \in SUBSET Nat
    BY Zenon
  <2> HIDE DEF T
  <2> QED
    BY <2>1, LeastExists, Zenon
<1>2. x # 0 /\ x - 1 \in Nat /\ (x - 1) + 1 = x
  OBVIOUS
<1>3. x - 1 \in S
  BY <1>1, <1>2
<1> QED
  BY <1>2, <1>3, Zenon

(* A set of sets with {} that is closed under adding an element of S has    *)

-----------------------------------------------------------------------------
(* Where the chunks of an object begin.                                     *)

(* There is such a function of totals, for every sequence.                  *)
LEMMA TotalsExist ==
    ASSUME NEW s \in Seq(Nat)
    PROVE  \E f : f = [c \in 0..Len(s) |-> IF c = 0 THEN 0 ELSE f[c - 1] + s[c]]
<1> DEFINE Is(f, m) == f = [c \in 0..m |-> IF c = 0 THEN 0 ELSE f[c - 1] + s[c]]
           S == {m \in Nat : \E f : Is(f, m)}
<1>1. 0 \in S
  <2>1. Is([c \in 0..0 |-> 0], 0)
    OBVIOUS
  <2> QED
    BY <2>1, 0 \in Nat, Zenon
<1>2. ASSUME NEW n \in Nat, n \in S PROVE n + 1 \in S
  <2>1. PICK f : Is(f, n)
    BY <1>2, Zenon
  <2> DEFINE g == [c \in 0..(n + 1) |-> IF c = n + 1 THEN f[n] + s[c] ELSE f[c]]
  <2>2. ASSUME NEW c \in 0..(n + 1) PROVE g[c] = IF c = 0 THEN 0 ELSE g[c - 1] + s[c]
    <3>1. CASE c = n + 1
      <4>1. c - 1 = n /\ n \in 0..(n + 1) /\ n # n + 1 /\ c # 0
        BY <3>1
      <4> QED
        BY <3>1, <4>1, Zenon
    <3>2. CASE c # n + 1
      <4>1. c \in 0..n /\ c \in 0..(n + 1) /\ (c # 0 => c - 1 \in 0..(n + 1) /\ c - 1 # n + 1)
        BY <3>2
      <4>2. f[c] = IF c = 0 THEN 0 ELSE f[c - 1] + s[c]
        BY <2>1, <4>1, Zenon
      <4> QED
        BY <3>2, <4>1, <4>2, Zenon
    <3> QED
      BY <3>1, <3>2, Zenon
  <2>3. Is(g, n + 1)
    BY <2>2, Zenon
  <2> HIDE DEF g, Is
  <2> QED
    BY <2>3, n + 1 \in Nat, Zenon
<1>3. Nat \subseteq S
  <2> HIDE DEF S
  <2> QED
    BY <1>1, <1>2, SetInduction, Zenon
<1>4. Len(s) \in Nat
  OBVIOUS
<1> QED
  BY <1>3, <1>4, Zenon

(* totals adds up.                                                          *)
LEMMA TotalsIs ==
    ASSUME NEW s \in Seq(Nat)
    PROVE  /\ totals(s)[0] = 0
           /\ \A c \in 1..Len(s) : totals(s)[c] = totals(s)[c - 1] + s[c]
           /\ \A c \in 0..Len(s) : totals(s)[c] \in Nat
<1> DEFINE f == totals(s)
<1>1. f = [c \in 0..Len(s) |-> IF c = 0 THEN 0 ELSE f[c - 1] + s[c]]
  BY TotalsExist, Zenon DEF totals
<1> HIDE DEF f
<1>2. f[0] = 0 /\ \A c \in 1..Len(s) : f[c] = f[c - 1] + s[c]
  <2>1. 0 \in 0..Len(s) /\ \A c \in 1..Len(s) : c \in 0..Len(s) /\ c # 0
    OBVIOUS
  <2> QED
    BY <1>1, <2>1, Zenon
<1> DEFINE S == {m \in Nat : m <= Len(s) => f[m] \in Nat}
<1>3. 0 \in S
  BY <1>2
<1>4. ASSUME NEW n \in Nat, n \in S PROVE n + 1 \in S
  <2>1. CASE n + 1 <= Len(s)
    <3>1. n + 1 \in 1..Len(s) /\ (n + 1) - 1 = n /\ s[n + 1] \in Nat /\ f[n] \in Nat
      BY <2>1, <1>4
    <3>2. f[n + 1] = f[n] + s[n + 1]
      BY <3>1, <1>2, Zenon
    <3> QED
      BY <3>1, <3>2
  <2> QED
    BY <2>1, n + 1 \in Nat, Zenon
<1>5. Nat \subseteq S
  <2> HIDE DEF S
  <2> QED
    BY <1>3, <1>4, SetInduction, Zenon
<1>6. \A c \in 0..Len(s) : c \in Nat /\ c <= Len(s)
  OBVIOUS
<1> QED
  BY <1>2, <1>5, <1>6, Zenon DEF f

(* A chunk never begins before one that precedes it.                        *)
LEMMA TotalsGrow ==
    ASSUME NEW s \in Seq(Nat), NEW a \in 0..Len(s), NEW b \in 0..Len(s), a <= b
    PROVE  totals(s)[a] <= totals(s)[b]
<1> DEFINE f == totals(s)
           S == {m \in Nat : a + m <= Len(s) => f[a] <= f[a + m]}
<1> HIDE DEF f
<1>0. /\ \A c \in 1..Len(s) : f[c] = f[c - 1] + s[c]
      /\ \A c \in 0..Len(s) : f[c] \in Nat
      /\ Len(s) \in Nat
  BY TotalsIs DEF f
<1>1. 0 \in S
  <2>1. a + 0 = a
    OBVIOUS
  <2>2. f[a] <= f[a]
    BY <1>0
  <2> QED
    BY <2>1, <2>2, 0 \in Nat, Zenon
<1>2. ASSUME NEW n \in Nat, n \in S PROVE n + 1 \in S
  <2>1. CASE a + (n + 1) <= Len(s)
    <3>1. /\ a + (n + 1) \in 1..Len(s) /\ (a + (n + 1)) - 1 = a + n /\ s[a + (n + 1)] \in Nat
          /\ a + n <= Len(s) /\ a + n \in 0..Len(s)
      BY <2>1, <1>0
    <3>2. f[a + (n + 1)] = f[a + n] + s[a + (n + 1)] /\ f[a] <= f[a + n] /\ f[a] \in Nat /\ f[a + n] \in Nat
      BY <3>1, <1>0, <1>2, Zenon
    <3>3. f[a] <= f[a + (n + 1)]
      BY <3>1, <3>2
    <3> QED
      BY <3>3, n + 1 \in Nat, Zenon
  <2> QED
    BY <2>1, n + 1 \in Nat, Zenon
<1>3. Nat \subseteq S
  <2> HIDE DEF S
  <2> QED
    BY <1>1, <1>2, SetInduction, Zenon
<1>4. b - a \in Nat /\ a + (b - a) = b /\ b <= Len(s)
  BY <1>0
<1> QED
  BY <1>3, <1>4, Zenon DEF f

(* A position is in one of the chunks.                                      *)
LEMMA ChunkOf ==
    ASSUME NEW s \in Seq(Nat), NEW pos \in Nat, Inside(s, pos)
    PROVE  /\ chunk_of(s, pos) \in 1..Len(s)
           /\ totals(s)[chunk_of(s, pos) - 1] <= pos
           /\ pos < totals(s)[chunk_of(s, pos)]
<1> DEFINE S == {c \in 0..Len(s) : pos < totals(s)[c]}
<1>1. Len(s) \in 0..Len(s) /\ S \in SUBSET Nat /\ DOMAIN s = 1..Len(s)
  OBVIOUS
<1>2. S # {}
  BY <1>1, Zenon DEF Inside
<1>3. PICK c \in S : \A d \in S : c <= d
  <2> HIDE DEF S
  <2> QED
    BY <1>1, <1>2, LeastExists, Zenon
<1>4. c # 0
  <2>1. totals(s)[0] = 0
    BY TotalsIs, Zenon
  <2> QED
    BY <2>1
<1>5. c \in 1..Len(s) /\ c - 1 \in 0..Len(s) /\ ~(c <= c - 1)
  BY <1>4
<1>6. ~(pos < totals(s)[c - 1]) /\ totals(s)[c - 1] \in Nat
  BY <1>3, <1>5, TotalsIs, Zenon
<1>7. totals(s)[c - 1] <= pos
  BY <1>6
<1>8. \E d \in DOMAIN s : totals(s)[d - 1] <= pos /\ pos < totals(s)[d]
  BY <1>1, <1>5, <1>7, Zenon
<1> QED
  BY <1>1, <1>8, Zenon DEF chunk_of
-----------------------------------------------------------------------------
(* Locations.                                                               *)

(* What get_location says of position pos of an object.                     *)
IsLocation(mf, pos, l) ==
    /\ l.id = mf.id /\ l.chunk \in DOMAIN mf.sizes /\ l.fragment \in 1..mf.k
    /\ Start(mf, l.chunk, l.fragment) + l.offset = pos
    /\ l.offset \in Nat /\ l.length \in Nat \ {0}
    /\ l.offset + l.length <= mf.sizes[l.chunk] \div mf.k
    /\ l.encryption = mf.encryption
    /\ l.ctr = mf.fragments[l.chunk][l.fragment].ctr

Exact(l, k, n, pos, len) ==
    /\ l.index \in 0..(k - 1)
    /\ l.index * n + l.offset = pos
    /\ l.offset \in 0..(n - 1)
    /\ l.length \in 1..len
    /\ l.offset + l.length <= n
(* What get_location computes inside a chunk, exactly.                      *)
LEMMA InChunkIs ==
    ASSUME NEW k \in Nat \ {0}, NEW n \in Nat \ {0},
           NEW pos \in 0..(k * n - 1), NEW len \in Nat \ {0}
    PROVE  Exact(in_chunk(k * n, k, pos, len), k, n, pos, len)
<1> DEFINE l == in_chunk(k * n, k, pos, len)
<1>1. /\ l.index \in 0..(k - 1)
      /\ l.index * n + l.offset = pos
      /\ l.offset \in 0..(n - 1)
      /\ l.length \in 1..len
      /\ l.offset + l.length <= n
  BY LocationsAreExact
<1> HIDE DEF l
<1>2. Exact(l, k, n, pos, len)
  BY <1>1, Zenon DEF Exact
<1> QED
  BY <1>2, Zenon DEF l

(* get_location: the location it gives for a position inside the object is  *)
(* the one that holds it, and not longer than asked for.                    *)
LEMMA LocationIs ==
    ASSUME NEW mf, IsLayout(mf), NEW pos \in Nat, NEW len \in Nat \ {0}, NEW t,
           Inside(mf.sizes, pos)
    PROVE  LET l == get_location(mf, pos, len, t)
           IN  IsLocation(mf, pos, l) /\ l.target = t /\ l.length <= len
<1> DEFINE l == get_location(mf, pos, len, t)
           sizes == mf.sizes
           k == mf.k
           c == chunk_of(sizes, pos)
           n == sizes[c] \div k
           p == pos - totals(sizes)[c - 1]
           i == in_chunk(sizes[c], k, p, len)
<1>1. sizes \in Seq(Nat \ {0}) /\ sizes \in Seq(Nat) /\ k \in Nat \ {0}
  BY DEF IsLayout
<1>2. c \in 1..Len(sizes) /\ totals(sizes)[c - 1] <= pos /\ pos < totals(sizes)[c]
  BY <1>1, ChunkOf, Zenon
<1>3. DOMAIN sizes = 1..Len(sizes) /\ sizes[c] \in Nat \ {0} /\ c - 1 \in 0..Len(sizes)
  BY <1>1, <1>2
<1>4. totals(sizes)[c] = totals(sizes)[c - 1] + sizes[c] /\ totals(sizes)[c - 1] \in Nat
  BY <1>1, <1>2, <1>3, TotalsIs, Zenon
<1>5. sizes[c] % k = 0
  BY <1>2, <1>3, Zenon DEF IsLayout
<1>r. /\ l = [id |-> mf.id, chunk |-> c, fragment |-> i.index + 1,
              osd |-> mf.fragments[c][i.index + 1].osd, ctr |-> mf.fragments[c][i.index + 1].ctr,
              offset |-> i.offset, length |-> i.length,
              compressed |-> mf.compressed, encryption |-> mf.encryption, target |-> t]
  BY Zenon DEF get_location
<1> HIDE DEF l, sizes, k, c, i, n, p
<1>6. n \in Nat \ {0} /\ sizes[c] = k * n
  <2>1. sizes[c] \in Int /\ n = sizes[c] \div k
    BY <1>3 DEF n
  <2>2. n \in Int /\ sizes[c] = n * k + 0
    BY <2>1, <1>1, <1>5, Split, Zenon
  <2>3. n > 0
    <3>1. SUFFICES ASSUME n <= 0 PROVE FALSE
      BY <2>2
    <3>2. \A x \in Int, y \in Nat : x <= 0 => x * y <= 0 /\ x * y \in Int
      OBVIOUS
    <3>3. n * k <= 0 /\ n * k \in Int
      BY <3>1, <3>2, <1>1, <2>2
    <3> HIDE DEF k
    <3> QED
      BY <3>3, <2>2, <1>3
  <2> QED
    BY <2>2, <2>3, <1>1
<1>7. p \in 0..(k * n - 1)
  BY <1>2, <1>3, <1>4, <1>6 DEF p
<1>8. /\ i.index \in 0..(k - 1)
      /\ i.index * n + i.offset = p
      /\ i.offset \in 0..(n - 1)
      /\ i.length \in 1..len
      /\ i.offset + i.length <= n
  <2>1. i = in_chunk(k * n, k, p, len)
    BY <1>6, Zenon DEF i
  <2> QED
    <3>1. Exact(i, k, n, p, len)
      BY <1>1, <1>6, <1>7, <2>1, InChunkIs, Zenon
    <3> QED
      BY <3>1, Zenon DEF Exact
<1>9. /\ l.id = mf.id /\ l.chunk = c /\ l.fragment = i.index + 1
      /\ l.offset = i.offset /\ l.length = i.length /\ l.target = t
      /\ l.encryption = mf.encryption /\ l.ctr = mf.fragments[c][i.index + 1].ctr
  BY <1>r, Zenon
<1>10. (i.index + 1) - 1 = i.index /\ i.index + 1 \in 1..k
  <2>1. \A x \in 0..(k - 1) : (x + 1) - 1 = x /\ x + 1 \in 1..k
    BY <1>1
  <2> QED
    BY <1>8, <2>1, Zenon
<1>11. Start(mf, l.chunk, l.fragment) = totals(sizes)[c - 1] + i.index * n
  BY <1>9, <1>10, Zenon DEF Start, n, sizes, k
<1>12. Start(mf, l.chunk, l.fragment) + l.offset = pos
  <2>1. i.index * n \in Int /\ i.offset \in Int
    BY <1>6, <1>8, <1>1
  <2> QED
    BY <1>4, <1>8, <1>9, <1>11, <2>1 DEF p
<1>13. l.offset \in Nat /\ l.length \in Nat \ {0} /\ l.length <= len /\ l.offset + l.length <= n
  <2>1. \A x \in 0..(n - 1), y \in 1..len : x \in Nat /\ y \in Nat \ {0} /\ y <= len
    BY <1>6
  <2> QED
    BY <1>8, <1>9, <2>1, Zenon
<1>14. IsLocation(mf, pos, l)
  BY <1>2, <1>3, <1>9, <1>10, <1>12, <1>13, Zenon DEF IsLocation, n, sizes, k
<1> QED
  BY <1>9, <1>13, <1>14, Zenon DEF l

-----------------------------------------------------------------------------
(* The locations of a slice.                                                *)

Locs(mf) == {get_location(mf, p, n, t) : p \in Int, n \in Int, t \in Int}

(* Locations are made from the manifest's own fragments.                    *)
LEMMA InLocs ==
    ASSUME NEW mf, NEW p \in Int, NEW n \in Int, NEW t \in Int
    PROVE  get_location(mf, p, n, t) \in Locs(mf)
BY DEF Locs

(* What IsLocation says of the byte m of a slice that begins at pos and     *)
(* goes to t.                                                               *)
Within(mf, pos, size, t, l) ==
    \E m \in 0..(size - 1) :
      IsLocation(mf, pos + m, l) /\ l.target = t + m /\ m + l.length <= size
Covers(l, t) == l.target <= t /\ t < l.target + l.length

(* The locations s have all of a slice and nothing else.                    *)
Parts(mf, pos, size, t, s) ==
    /\ s \in Seq(Locs(mf))
    /\ \A j \in DOMAIN s : Within(mf, pos, size, t, s[j])
    /\ \A m \in 0..(size - 1) : \E j \in DOMAIN s : Covers(s[j], t + m)

Cons(S, s, l, u) ==
    /\ u \in Seq(S)
    /\ \A j \in DOMAIN u : u[j] = l \/ \E i \in DOMAIN s : u[j] = s[i]
    /\ 1 \in DOMAIN u /\ u[1] = l
    /\ \A i \in DOMAIN s : i + 1 \in DOMAIN u /\ u[i + 1] = s[i]
(* What a sequence with one more at its front has.                          *)
LEMMA ConsIs ==
    ASSUME NEW S, NEW s \in Seq(S), NEW l \in S
    PROVE  Cons(S, s, l, <<l>> \o s)
<1> DEFINE u == <<l>> \o s
<1>1. u \in Seq(S) /\ Len(u) = Len(s) + 1 /\ DOMAIN u = 1..Len(u) /\ DOMAIN s = 1..Len(s)
  OBVIOUS
<1>2. u[1] = l /\ \A i \in 1..Len(s) : u[i + 1] = s[i]
  OBVIOUS
<1> HIDE DEF u
<1>3. 1 \in 1..Len(u) /\ \A i \in 1..Len(s) : i + 1 \in 1..Len(u)
  BY <1>1
<1>4. \A j \in 1..Len(u) : j = 1 \/ (j - 1 \in 1..Len(s) /\ (j - 1) + 1 = j)
  BY <1>1
<1> QED
  BY <1>1, <1>2, <1>3, <1>4, Zenon DEF u, Cons

(* One location more, at the front: the parts of the rest and the first part*)
(* are the parts of the whole.                                              *)
LEMMA PartsStep ==
    ASSUME NEW mf, NEW pos \in Nat, NEW size \in Nat, NEW t \in Int, NEW l \in Locs(mf), NEW s,
           size # 0, IsLocation(mf, pos, l), l.target = t, l.length <= size,
           Parts(mf, pos + l.length, size - l.length, t + l.length, s)
    PROVE  Parts(mf, pos, size, t, <<l>> \o s)
<1> DEFINE n == l.length
           u == <<l>> \o s
<1>1. n \in Nat \ {0} /\ n <= size
  BY Zenon DEF IsLocation
<1>2. /\ s \in Seq(Locs(mf))
      /\ \A j \in DOMAIN s : Within(mf, pos + n, size - n, t + n, s[j])
      /\ \A m \in 0..((size - n) - 1) : \E j \in DOMAIN s : Covers(s[j], (t + n) + m)
  BY Zenon DEF Parts
<1>3. /\ u \in Seq(Locs(mf))
      /\ \A j \in DOMAIN u : u[j] = l \/ \E i \in DOMAIN s : u[j] = s[i]
      /\ 1 \in DOMAIN u /\ u[1] = l
      /\ \A i \in DOMAIN s : i + 1 \in DOMAIN u /\ u[i + 1] = s[i]
  <2>1. Cons(Locs(mf), s, l, u)
    BY <1>2, ConsIs, Zenon
  <2> QED
    BY <2>1, Zenon DEF Cons
<1> HIDE DEF u
<1>4. Within(mf, pos, size, t, l)
  <2>1. 0 \in 0..(size - 1) /\ pos + 0 = pos /\ t + 0 = t /\ 0 + n <= size
    BY <1>1
  <2> QED
    BY <2>1, Zenon DEF Within
<1>5. ASSUME NEW i \in DOMAIN s PROVE Within(mf, pos, size, t, s[i])
  <2>1. PICK m \in 0..((size - n) - 1) :
          IsLocation(mf, (pos + n) + m, s[i]) /\ s[i].target = (t + n) + m /\ m + s[i].length <= size - n
    BY <1>2, <1>5, Zenon DEF Within
  <2>2. s[i].length \in Nat
    BY <2>1, Zenon DEF IsLocation
  <2>3. /\ n + m \in 0..(size - 1) /\ (pos + n) + m = pos + (n + m)
        /\ (t + n) + m = t + (n + m) /\ (n + m) + s[i].length <= size
    <3> HIDE DEF n
    <3>1. \A x \in Nat : m + x <= size - n => (n + m) + x <= size
      BY <1>1
    <3>2. n + m \in 0..(size - 1) /\ (pos + n) + m = pos + (n + m) /\ (t + n) + m = t + (n + m)
      BY <1>1
    <3> QED
      BY <2>1, <2>2, <3>1, <3>2, Zenon
  <2> HIDE DEF n
  <2> QED
    BY <2>1, <2>3, Zenon DEF Within
<1>6. ASSUME NEW m \in 0..(size - 1) PROVE \E j \in DOMAIN u : Covers(u[j], t + m)
  <2>1. CASE m < n
    <3>1. t <= t + m /\ t + m < t + n
      BY <2>1, <1>1
    <3> QED
      BY <1>3, <3>1, Zenon DEF Covers
  <2>2. CASE ~(m < n)
    <3>1. m - n \in 0..((size - n) - 1) /\ (t + n) + (m - n) = t + m
      BY <2>2, <1>1
    <3> QED
      BY <1>2, <1>3, <3>1, Zenon
  <2> QED
    BY <2>1, <2>2, Zenon
<1>7. Parts(mf, pos, size, t, u)
  BY <1>3, <1>4, <1>5, <1>6, Zenon DEF Parts
<1> QED
  BY <1>7, Zenon DEF u

(* _resolve_slice_one_level: its loop ends, as every location has at least  *)
(* one byte of what is left of the slice.                                   *)
LEMMA ResolveSliceIs ==
    ASSUME NEW mf, IsLayout(mf), NEW slice, NEW target \in Nat,
           slice.offset \in Nat, slice.size \in Nat,
           \A pos \in slice.offset..(slice.offset + slice.size - 1) : Inside(mf.sizes, pos)
    PROVE  Parts(mf, slice.offset, slice.size, target, resolve_slice(mf, slice, target))
<1> DEFINE o == slice.offset
           n == slice.size
           end == o + n
           L(pos) == get_location(mf, pos, end - pos, target + pos - o)
           Is(f, d) == f = [pos \in (end - d)..end |->
                              IF pos = end THEN <<>> ELSE <<L(pos)>> \o f[pos + L(pos).length]]
<1>0. o \in Nat /\ n \in Nat /\ end \in Nat
  OBVIOUS
<1>1. ASSUME NEW pos \in o..end, pos # end
      PROVE  /\ IsLocation(mf, pos, L(pos)) /\ L(pos).target = target + pos - o
             /\ L(pos).length \in Nat \ {0} /\ L(pos).length <= end - pos
             /\ L(pos) \in Locs(mf)
  <2>1. pos \in o..(o + n - 1) /\ pos \in Nat /\ end - pos \in Nat \ {0} /\ target + pos - o \in Int
        /\ pos \in Int /\ end - pos \in Int
    BY <1>0, <1>1
  <2>2. Inside(mf.sizes, pos)
    BY <2>1, Zenon
  <2>3. IsLocation(mf, pos, L(pos)) /\ L(pos).target = target + pos - o /\ L(pos).length <= end - pos
    BY <2>1, <2>2, LocationIs, Zenon
  <2> HIDE DEF end, n, o
  <2> QED
    BY <2>1, <2>3, InLocs, Zenon DEF IsLocation
<1> HIDE DEF L, end, o, n
<1> DEFINE S == {d \in Nat : d <= n => \E f : Is(f, d)}
<1>2. 0 \in S
  <2>1. \A x \in Nat : \A pos \in (x - 0)..x : pos = x
    OBVIOUS
  <2> DEFINE g == [pos \in (end - 0)..end |-> <<>>]
  <2>2. Is(g, 0)
    <3>1. \A pos \in (end - 0)..end : pos = end
      BY <1>0, <2>1, Zenon
    <3>2. ASSUME NEW h
          PROVE  g = [pos \in (end - 0)..end |->
                        IF pos = end THEN <<>> ELSE <<L(pos)>> \o h[pos + L(pos).length]]
      BY <3>1, Zenon
    <3> QED
      BY <3>2, Zenon
  <2> QED
    BY <2>2, 0 \in Nat, Zenon
<1>3. ASSUME NEW d \in Nat, d \in S PROVE d + 1 \in S
  <2> SUFFICES ASSUME d + 1 <= n PROVE \E g : Is(g, d + 1)
    BY d + 1 \in Nat, Zenon
  <2>0. d <= n
    BY <1>0
  <2>1. PICK f : Is(f, d)
    BY <2>0, <1>3, Zenon
  <2> DEFINE first == end - (d + 1)
             g == [pos \in first..end |-> IF pos = first THEN <<L(pos)>> \o f[pos + L(pos).length]
                                          ELSE f[pos]]
  <2>2. first \in o..end /\ first # end /\ first \in Int
    BY <1>0 DEF end
  <2>3. ASSUME NEW pos \in first..end
        PROVE  g[pos] = IF pos = end THEN <<>> ELSE <<L(pos)>> \o g[pos + L(pos).length]
    <3>1. CASE pos = end
      <4>1. pos \in (end - d)..end /\ pos # first
        BY <3>1, <2>2, <1>0
      <4>2. f[pos] = <<>>
        BY <2>1, <3>1, <4>1, Zenon
      <4> HIDE DEF first
      <4> QED
        BY <3>1, <4>1, <4>2, Zenon
    <3>2. CASE pos # end
      <4>1. pos \in o..end
        BY <2>2, <1>0
      <4>2. L(pos).length \in Nat \ {0} /\ L(pos).length <= end - pos
        BY <1>1, <3>2, <4>1, Zenon
      <4>3. pos + L(pos).length \in first..end /\ pos + L(pos).length # first
        BY <2>2, <4>1, <4>2, <1>0
      <4>4. g[pos + L(pos).length] = f[pos + L(pos).length]
        BY <4>3, Zenon
      <4>5. pos # first => f[pos] = <<L(pos)>> \o f[pos + L(pos).length]
        <5>1. pos # first => pos \in (end - d)..end
          BY <2>2, <1>0
        <5> QED
          BY <5>1, <2>1, <3>2, Zenon
      <4> HIDE DEF first
      <4> QED
        BY <3>2, <4>4, <4>5, Zenon
    <3> QED
      BY <3>1, <3>2, Zenon
  <2>4. Is(g, d + 1)
    <3>1. g = [pos \in first..end |-> g[pos]]
      BY Zenon
    <3> HIDE DEF g
    <3> QED
      BY <2>3, <3>1, Zenon
  <2> HIDE DEF g, Is
  <2> QED
    BY <2>4, Zenon
<1>4. Nat \subseteq S
  <2> HIDE DEF S
  <2> QED
    BY <1>2, <1>3, SetInduction, Zenon
<1> DEFINE f == CHOOSE f : Is(f, n)
<1>5. Is(f, n)
  <2>1. n <= n
    BY <1>0
  <2> HIDE DEF Is
  <2> QED
    BY <1>0, <1>4, <2>1, Zenon
<1>6. resolve_slice(mf, slice, target) = f[o]
  <2>1. end - n = o
    BY <1>0 DEF end
  <2> QED
    BY <2>1, Zenon DEF resolve_slice, L, o, n, end
<1> HIDE DEF f
<1> DEFINE P(d) == Parts(mf, end - d, d, target + (end - d) - o, f[end - d])
           T == {m \in Nat : \A d \in 0..m : d <= n => P(d)}

<1>7. ASSUME NEW pos \in o..end
      PROVE  f[pos] = IF pos = end THEN <<>> ELSE <<L(pos)>> \o f[pos + L(pos).length]
  <2>1. end - n = o
    BY <1>0 DEF end
  <2> QED
    BY <1>5, <2>1, Zenon
<1> HIDE DEF Is, S
<1>8. 0 \in T
  <2>1. end - 0 = end /\ end \in o..end /\ \A d \in 0..0 : d = 0
    BY <1>0 DEF end
  <2>2. f[end] = <<>>
    BY <1>7, <2>1, Zenon
  <2>3. <<>> \in Seq(Locs(mf)) /\ DOMAIN <<>> = {} /\ 0..(0 - 1) = {}
    OBVIOUS
  <2>4. P(0)
    BY <2>1, <2>2, <2>3, Zenon DEF Parts
  <2> HIDE DEF P
  <2> QED
    BY <2>1, <2>4, 0 \in Nat, Zenon
<1>9. ASSUME NEW m \in Nat, m \in T PROVE m + 1 \in T
  <2> DEFINE d == m + 1
             pos == end - d
             l == L(pos)
  <2>1. ASSUME d <= n PROVE P(d)
    <3>1. pos \in o..end /\ pos # end /\ pos \in Nat /\ d \in Nat /\ d # 0
      BY <2>1, <1>0 DEF end
    <3>2. /\ IsLocation(mf, pos, l) /\ l.target = target + pos - o
          /\ l.length \in Nat \ {0} /\ l.length <= end - pos /\ l \in Locs(mf)
      BY <1>1, <3>1, Zenon
    <3>3. f[pos] = <<l>> \o f[pos + l.length]
      BY <1>7, <3>1, Zenon
    <3> HIDE DEF l
    <3> DEFINE e == d - l.length
    <3>4. /\ e \in 0..m /\ e <= n /\ end - e = pos + l.length /\ l.length <= d
          /\ target + (end - e) - o = (target + pos - o) + l.length
          /\ target + pos - o \in Int
      BY <3>1, <3>2, <1>0, <2>1
    <3>5. P(e)
      BY <1>9, <3>4, Zenon
    <3>6. Parts(mf, pos + l.length, d - l.length, (target + pos - o) + l.length, f[pos + l.length])
      BY <3>4, <3>5, Zenon
    <3> HIDE DEF e, pos, d, P
    <3>7. Parts(mf, pos, d, target + pos - o, <<l>> \o f[pos + l.length])
      BY <3>1, <3>2, <3>4, <3>6, PartsStep, Zenon
    <3> QED
      BY <3>3, <3>7, Zenon DEF P, pos
  <2>2. \A x \in 0..(m + 1) : x = m + 1 \/ x \in 0..m
    OBVIOUS
  <2> HIDE DEF P
  <2> QED
    BY <1>9, <2>1, <2>2, m + 1 \in Nat, Zenon
<1>10. Nat \subseteq T
  <2> HIDE DEF T
  <2> QED
    BY <1>8, <1>9, SetInduction, Zenon
<1>11. n \in Nat /\ n \in 0..n /\ n <= n /\ end - n = o /\ target + o - o = target
  BY <1>0 DEF end
<1>12. P(n)
  <2> HIDE DEF P
  <2> QED
    BY <1>10, <1>11, Zenon
<1> QED
  BY <1>6, <1>11, <1>12, Zenon DEF o, n

(* The locations of several slices.                                         *)
Slice == [offset : Nat, size : Nat \ {0}, target : Nat]
InSlice(mf, slice, l) == Within(mf, slice.offset, slice.size, slice.target, l)
Found(mf, slices, s) ==
    /\ s \in Seq(Locs(mf))
    /\ \A j \in DOMAIN s : \E i \in DOMAIN slices : InSlice(mf, slices[i], s[j])
    /\ \A i \in DOMAIN slices : \A m \in 0..(slices[i].size - 1) :
         \E j \in DOMAIN s : Covers(s[j], slices[i].target + m)

(* There is such a function of concatenations, for every n.                 *)
LEMMA ConcatExist ==
    ASSUME NEW n \in Nat, NEW b
    PROVE  \E f : f = [i \in 0..n |-> IF i = 0 THEN <<>> ELSE f[i - 1] \o b[i]]
<1> DEFINE Is(f, m) == f = [i \in 0..m |-> IF i = 0 THEN <<>> ELSE f[i - 1] \o b[i]]
           S == {m \in Nat : \E f : Is(f, m)}
<1>1. 0 \in S
  <2> DEFINE g == [i \in 0..0 |-> <<>>]
  <2>1. \A i \in 0..0 : i = 0
    OBVIOUS
  <2>2. ASSUME NEW h PROVE g = [i \in 0..0 |-> IF i = 0 THEN <<>> ELSE h[i - 1] \o b[i]]
    BY <2>1, Zenon
  <2> QED
    BY <2>2, 0 \in Nat, Zenon
<1>2. ASSUME NEW m \in Nat, m \in S PROVE m + 1 \in S
  <2>1. PICK f : Is(f, m)
    BY <1>2, Zenon
  <2> DEFINE g == [i \in 0..(m + 1) |-> IF i = m + 1 THEN f[m] \o b[i] ELSE f[i]]
  <2>2. ASSUME NEW i \in 0..(m + 1) PROVE g[i] = IF i = 0 THEN <<>> ELSE g[i - 1] \o b[i]
    <3>1. CASE i = m + 1
      <4>1. i - 1 = m /\ m \in 0..(m + 1) /\ m # m + 1 /\ i # 0
        BY <3>1
      <4> QED
        BY <3>1, <4>1, Zenon
    <3>2. CASE i # m + 1
      <4>1. i \in 0..m /\ i \in 0..(m + 1) /\ (i # 0 => i - 1 \in 0..(m + 1) /\ i - 1 # m + 1)
        BY <3>2
      <4>2. f[i] = IF i = 0 THEN <<>> ELSE f[i - 1] \o b[i]
        BY <2>1, <4>1, Zenon
      <4> QED
        BY <3>2, <4>1, <4>2, Zenon
    <3> QED
      BY <3>1, <3>2, Zenon
  <2>3. Is(g, m + 1)
    BY <2>2, Zenon
  <2> HIDE DEF g, Is
  <2> QED
    BY <2>3, m + 1 \in Nat, Zenon
<1>3. Nat \subseteq S
  <2> HIDE DEF S
  <2> QED
    BY <1>1, <1>2, SetInduction, Zenon
<1> QED
  BY <1>3, Zenon

Joined(S, s, t, u) ==
    /\ u \in Seq(S)
    /\ \A j \in DOMAIN u : (\E i \in DOMAIN s : u[j] = s[i]) \/ (\E i \in DOMAIN t : u[j] = t[i])
    /\ \A i \in DOMAIN s : \E j \in DOMAIN u : u[j] = s[i]
    /\ \A i \in DOMAIN t : \E j \in DOMAIN u : u[j] = t[i]
(* What a concatenation has.                                                *)
LEMMA JoinedIs ==
    ASSUME NEW S, NEW s \in Seq(S), NEW t \in Seq(S)
    PROVE  Joined(S, s, t, s \o t)
<1> DEFINE u == s \o t
<1>1. /\ u \in Seq(S) /\ Len(u) = Len(s) + Len(t) /\ Len(s) \in Nat /\ Len(t) \in Nat
      /\ DOMAIN u = 1..Len(u) /\ DOMAIN s = 1..Len(s) /\ DOMAIN t = 1..Len(t)
  OBVIOUS
<1>2. /\ \A i \in 1..Len(s) : u[i] = s[i]
      /\ \A i \in 1..Len(t) : u[Len(s) + i] = t[i]
  OBVIOUS
<1> HIDE DEF u
<1>3. /\ \A i \in 1..Len(s) : i \in 1..Len(u)
      /\ \A i \in 1..Len(t) : Len(s) + i \in 1..Len(u)
      /\ \A j \in 1..Len(u) : \/ j \in 1..Len(s)
                              \/ j - Len(s) \in 1..Len(t) /\ Len(s) + (j - Len(s)) = j
  BY <1>1
<1> QED
  BY <1>1, <1>2, <1>3, Zenon DEF u, Joined

(* When the last byte of a slice is inside the object, all of it is.        *)
LEMMA InsideIs ==
    ASSUME NEW mf, NEW slice \in Slice, IsLayout(mf),
           Inside(mf.sizes, slice.offset + slice.size - 1)
    PROVE  \A pos \in slice.offset..(slice.offset + slice.size - 1) : Inside(mf.sizes, pos)
<1>1. mf.sizes \in Seq(Nat) /\ Len(mf.sizes) \in 0..Len(mf.sizes)
  BY DEF IsLayout
<1>2. totals(mf.sizes)[Len(mf.sizes)] \in Nat
  BY <1>1, TotalsIs, Zenon
<1> QED
  BY <1>2 DEF Inside, Slice

(* _resolve_one_level.                                                      *)
LEMMA ResolveIs ==
    ASSUME NEW mf, IsLayout(mf), NEW slices \in Seq(Slice), AllInside(mf, slices)
    PROVE  Found(mf, slices, resolve(mf, slices))
<1> DEFINE n == Len(slices)
           r(i) == resolve_slice(mf, slices[i], slices[i].target)
           Is(f) == f = [i \in 0..n |-> IF i = 0 THEN <<>> ELSE f[i - 1] \o r(i)]
           b == [i \in 1..n |-> r(i)]
           f == CHOOSE f : Is(f)
<1>0. n \in Nat /\ DOMAIN slices = 1..n /\ \A i \in 1..n : slices[i] \in Slice
  OBVIOUS
<1>1. \E g : Is(g)
  <2>1. PICK g : g = [i \in 0..n |-> IF i = 0 THEN <<>> ELSE g[i - 1] \o b[i]]
    <3> HIDE DEF b, n
    <3> QED
      BY <1>0, ConcatExist, Zenon
  <2>2. \A i \in 0..n : i # 0 => i \in 1..n
    BY <1>0
  <2> HIDE DEF r, n
  <2>3. \A i \in 0..n : (IF i = 0 THEN <<>> ELSE g[i - 1] \o b[i]) = (IF i = 0 THEN <<>> ELSE g[i - 1] \o r(i))
    BY <2>2, Zenon
  <2>4. Is(g)
    BY <2>1, <2>3, Zenon
  <2> QED
    BY <2>4, Zenon
<1>2. Is(f)
  <2> HIDE DEF Is
  <2> QED
    BY <1>1, Zenon
<1>3. resolve(mf, slices) = f[n]
  BY Zenon DEF resolve
<1> HIDE DEF f
<1>4. ASSUME NEW i \in 1..n
      PROVE  Parts(mf, slices[i].offset, slices[i].size, slices[i].target, r(i))
  <2>1. slices[i] \in Slice /\ Inside(mf.sizes, slices[i].offset + slices[i].size - 1)
    BY <1>0, <1>4, Zenon DEF AllInside
  <2>2. slices[i].offset \in Nat /\ slices[i].size \in Nat /\ slices[i].target \in Nat
    BY <2>1 DEF Slice
  <2> QED
    BY <2>1, <2>2, InsideIs, ResolveSliceIs, Zenon
<1> DEFINE Upto(m, s) ==
             /\ s \in Seq(Locs(mf))
             /\ \A j \in DOMAIN s : \E i \in DOMAIN slices : InSlice(mf, slices[i], s[j])
             /\ \A i \in 1..m : \A x \in 0..(slices[i].size - 1) :
                  \E j \in DOMAIN s : Covers(s[j], slices[i].target + x)
           S == {m \in Nat : m <= n => Upto(m, f[m])}
<1>5. 0 \in S
  <2>1. 0 \in 0..n /\ 0 \in Nat /\ 1..0 = {}
    BY <1>0
  <2>2. f[0] = <<>>
    <3> HIDE DEF r, n
    <3> QED
      BY <1>2, <2>1, Zenon
  <2>3. <<>> \in Seq(Locs(mf)) /\ DOMAIN <<>> = {}
    OBVIOUS
  <2>4. Upto(0, f[0])
    BY <2>1, <2>2, <2>3, Zenon
  <2> HIDE DEF Upto
  <2> QED
    BY <2>1, <2>4, Zenon
<1>6. ASSUME NEW m \in Nat, m \in S PROVE m + 1 \in S
  <2> SUFFICES ASSUME m + 1 <= n PROVE Upto(m + 1, f[m + 1])
    BY m + 1 \in Nat, Zenon
  <2>1. m + 1 \in 1..n /\ m <= n /\ m + 1 \in 0..n /\ m + 1 # 0 /\ (m + 1) - 1 = m
    BY <1>0
  <2> DEFINE i == m + 1
             u == f[i]
             p == slices[i]
  <2>2. u = f[m] \o r(i)
    <3> HIDE DEF r, n
    <3> QED
      BY <1>2, <2>1, Zenon
  <2>3. Upto(m, f[m])
    BY <1>6, <2>1, Zenon
  <2>4. Parts(mf, p.offset, p.size, p.target, r(i))
    BY <1>4, <2>1, Zenon
  <2>5. i \in DOMAIN slices /\ \A x \in 1..(m + 1) : x = i \/ x \in 1..m
    BY <1>0, <2>1
  <2> HIDE DEF r, u, i, n, p
  <2>6. Joined(Locs(mf), f[m], r(i), u)
    BY <2>2, <2>3, <2>4, JoinedIs, Zenon DEF Parts
  <2>7. u \in Seq(Locs(mf))
    BY <2>6, Zenon DEF Joined
  <2>8. \A j \in DOMAIN u : \E x \in DOMAIN slices : InSlice(mf, slices[x], u[j])
    BY <2>3, <2>4, <2>5, <2>6, Zenon DEF Joined, Parts, InSlice, p
  <2>9. ASSUME NEW y \in 1..(m + 1), NEW x \in 0..(slices[y].size - 1)
        PROVE  \E j \in DOMAIN u : Covers(u[j], slices[y].target + x)
    <3>1. CASE y = i
      <4>1. PICK k \in DOMAIN r(i) : Covers(r(i)[k], p.target + x)
        BY <2>4, <2>9, <3>1, Zenon DEF Parts, p
      <4> QED
        BY <2>6, <3>1, <4>1, Zenon DEF Joined, p
    <3>2. CASE y \in 1..m
      <4>1. PICK k \in DOMAIN f[m] : Covers(f[m][k], slices[y].target + x)
        BY <2>3, <2>9, <3>2, Zenon
      <4> QED
        BY <2>6, <4>1, Zenon DEF Joined
    <3> QED
      BY <2>5, <3>1, <3>2, Zenon
  <2>10. Upto(m + 1, u)
    BY <2>7, <2>8, <2>9, Zenon
  <2> QED
    BY <2>10, Zenon DEF u, i
<1>7. Nat \subseteq S
  <2> HIDE DEF S
  <2> QED
    BY <1>5, <1>6, SetInduction, Zenon
<1>8. Upto(n, f[n])
  <2>1. n <= n
    BY <1>0
  <2> HIDE DEF Upto, n
  <2> QED
    BY <1>0, <1>7, <2>1, Zenon
<1> QED
  BY <1>0, <1>3, <1>8, Zenon DEF Found
-----------------------------------------------------------------------------
(* Manifests, and the bytes that are read with them.                        *)

Version1 == Nat \ {0}
(* Every version has one of the layouts the assumption speaks of.           *)
LEMMA LayoutIs ==
    ASSUME NEW v \in Version1
    PROVE  /\ IsLayout(Layout(v))
           /\ \A c \in DOMAIN Layout(v).sizes : IsLayout(CacheLayout(Layout(v).sizes[c] \div Layout(v).k))
<1>1. ((v - 1) % Len(Layouts)) + 1 \in 1..Len(Layouts)
  BY LayoutsAssumption DEF Version1
<1> QED
  BY <1>1, LayoutsAssumption, Zenon DEF Layout

Made(mf, name, id, l) ==
    /\ IsLayout(mf) /\ mf.name = name /\ mf.id = id
    /\ mf.sizes = l.sizes /\ mf.k = l.k
(* A manifest has the layout it is made with.                               *)
LEMMA ManifestIs ==
    ASSUME NEW name, NEW id, NEW l, IsLayout(l)
    PROVE  Made(Manifest(name, id, l), name, id, l)
<1> DEFINE mf == Manifest(name, id, l)
<1>1. /\ mf.name = name /\ mf.id = id /\ mf.sizes = l.sizes /\ mf.k = l.k
      /\ mf.fragments = l.fragments /\ mf.encryption = l.encryption
  BY Zenon DEF Manifest
<1> HIDE DEF mf
<1>2. IsLayout(mf)
  BY <1>1, Zenon DEF IsLayout
<1> QED
  BY <1>1, <1>2, Zenon DEF mf, Made

(* A manifest as the proxy sends it.  shift is where its bytes are in the   *)
(* object o of version v.                                                   *)
IsManifest(mf, name, o, v, shift) ==
    /\ IsLayout(mf) /\ mf.name = name /\ ManifestOf(mf.id) = mf
    /\ mf.id[1] = o /\ mf.id[2] = v /\ shift \in Int
    /\ \A pos \in Int : Plain(mf.id, pos) = <<o, v, shift + pos>>

(* The manifest of a version of an object is that of its bytes from 0.      *)
LEMMA ObjectManifestIs ==
    ASSUME NEW o, NEW v \in Version1
    PROVE  IsManifest(ObjectManifest(o, v), <<o>>, o, v, 0)
<1> DEFINE mf == ObjectManifest(o, v)
<1>1. IsLayout(mf) /\ mf.name = <<o>> /\ mf.id = <<o, v>>
  <2>1. Made(mf, <<o>>, <<o, v>>, Layout(v))
    BY LayoutIs, ManifestIs, Zenon DEF ObjectManifest
  <2> QED
    BY <2>1, Zenon DEF Made
<1> HIDE DEF mf
<1>2. Len(mf.id) = 2 /\ mf.id[1] = o /\ mf.id[2] = v
  BY <1>1
<1>3. ManifestOf(mf.id) = mf
  BY <1>2, Zenon DEF ManifestOf, mf
<1>4. \A pos \in Int : Plain(mf.id, pos) = <<o, v, pos>>
  BY <1>2, Zenon DEF Plain
<1>5. 0 \in Int /\ \A pos \in Int : 0 + pos = pos
  OBVIOUS
<1>6. IsManifest(mf, <<o>>, o, v, 0)
  BY <1>1, <1>2, <1>3, <1>4, <1>5, Zenon DEF IsManifest
<1> QED
  BY <1>6, Zenon DEF mf

(* The manifest of a cached fragment is that of the object's bytes from     *)
(* where the fragment starts.                                               *)
LEMMA CacheManifestIs ==
    ASSUME NEW o, NEW v \in Version1, NEW c \in DOMAIN Layout(v).sizes, NEW f \in 1..Layout(v).k
    PROVE  IsManifest(CacheManifest(<<o, v, c, f>>), <<o, v, c, f>>, o, v,
                      Start(ObjectManifest(o, v), c, f))
<1> DEFINE name == <<o, v, c, f>>
           mf == CacheManifest(name)
           n == Layout(v).sizes[c] \div Layout(v).k
           start == totals(Layout(v).sizes)[c - 1] + (f - 1) * n
<1>0. name[1] = o /\ name[2] = v /\ name[3] = c /\ name[4] = f
  OBVIOUS
<1>1. IsLayout(mf) /\ mf.name = name /\ mf.id = Append(name, 1)
  <2>1. mf = Manifest(name, Append(name, 1), CacheLayout(n))
    BY <1>0, Zenon DEF CacheManifest, FragmentLength
  <2>2. IsLayout(CacheLayout(n))
    BY LayoutIs, Zenon
  <2>3. Made(mf, name, Append(name, 1), CacheLayout(n))
    BY <2>1, <2>2, ManifestIs, Zenon
  <2> QED
    BY <2>3, Zenon DEF Made
<1> DEFINE id == Append(name, 1)
<1>2. Len(id) = 5 /\ \A i \in 1..4 : id[i] = name[i]
  <2>1. name \in Seq({o, v, c, f, 1}) /\ Len(name) = 4 /\ 1 \in {o, v, c, f, 1}
    OBVIOUS
  <2> HIDE DEF name
  <2>2. PICK S : name \in Seq(S) /\ 1 \in S
    BY <2>1, Zenon
  <2>3. Len(id) = Len(name) + 1 /\ \A i \in 1..Len(name) : id[i] = name[i]
    BY <2>2
  <2> QED
    BY <2>1, <2>3
<1> HIDE DEF id
<1>3. /\ Len(id) = 5 /\ SubSeq(id, 1, 4) = name
      /\ id[1] = o /\ id[2] = v /\ id[3] = c /\ id[4] = f
  <2>1. name = [i \in 1..4 |-> name[i]]
    <3>1. name \in Seq({o, v, c, f}) /\ Len(name) = 4
      OBVIOUS
    <3>2. \A S : \A s \in Seq(S) : s = [i \in 1..Len(s) |-> s[i]]
      OBVIOUS
    <3> HIDE DEF name
    <3> QED
      BY <3>1, <3>2, Zenon
  <2>2. SubSeq(id, 1, 4) = [i \in 1..4 |-> id[i]]
    BY DEF SubSeq
  <2>3. [i \in 1..4 |-> id[i]] = [i \in 1..4 |-> name[i]]
    BY <1>2, Zenon
  <2>4. 1 \in 1..4 /\ 2 \in 1..4 /\ 3 \in 1..4 /\ 4 \in 1..4
    OBVIOUS
  <2> QED
    BY <1>0, <1>2, <2>1, <2>2, <2>3, <2>4, Zenon
<1>4. ManifestOf(mf.id) = mf
  <2>1. 5 # 2
    OBVIOUS
  <2> QED
    BY <1>1, <1>3, <2>1, Zenon DEF ManifestOf, id
<1>5. \A pos \in Int : Plain(mf.id, pos) = <<o, v, start + pos>>
  <2>1. 5 # 2
    OBVIOUS
  <2> QED
    BY <1>1, <1>3, <2>1, Zenon DEF Plain, FragmentLength, id
<1>6. start = Start(ObjectManifest(o, v), c, f)
  <2>1. ObjectManifest(o, v).sizes = Layout(v).sizes /\ ObjectManifest(o, v).k = Layout(v).k
    <3>1. Made(ObjectManifest(o, v), <<o>>, <<o, v>>, Layout(v))
      BY LayoutIs, ManifestIs, Zenon DEF ObjectManifest
    <3> QED
      BY <3>1, Zenon DEF Made
  <2> QED
    BY <2>1, Zenon DEF Start
<1>7. start \in Int
  <2>1. Layout(v).sizes \in Seq(Nat) /\ Layout(v).k \in Nat \ {0} /\ Layout(v).sizes \in Seq(Nat \ {0})
    <3>1. IsLayout(Layout(v))
      BY LayoutIs, Zenon
    <3>2. \A s \in Seq(Nat \ {0}) : s \in Seq(Nat)
      OBVIOUS
    <3> QED
      BY <3>1, <3>2, Zenon DEF IsLayout
  <2>2. c \in 1..Len(Layout(v).sizes) /\ c - 1 \in 0..Len(Layout(v).sizes) /\ Layout(v).sizes[c] \in Nat
    BY <2>1
  <2>3. totals(Layout(v).sizes)[c - 1] \in Nat
    BY <2>1, <2>2, TotalsIs, Zenon
  <2>4. n \in Int
    BY <2>1, <2>2
  <2>5. (f - 1) * n \in Int
    <3> HIDE DEF n
    <3> QED
      BY <2>4, <2>1
  <2> HIDE DEF n
  <2> QED
    BY <2>3, <2>5
<1> HIDE DEF start, mf
<1>8. IsManifest(mf, name, o, v, start)
  BY <1>1, <1>3, <1>4, <1>5, <1>7, Zenon DEF IsManifest, id
<1> QED
  BY <1>6, <1>8, Zenon DEF mf

(* The key stream of a part is found when fewer blocks come before it than  *)
(* a word counts.                                                           *)
LEMMA BlocksFit ==
    ASSUME NEW offset \in Nat, offset < Word * Block
    PROVE  offset \div Block \in Words
<1> USE SlicesAssumption
<1> DEFINE q == offset \div Block
           r == offset % Block
<1>1. q \in Int /\ r \in 0..(Block - 1) /\ offset = q * Block + r
  <2>1. offset \in Int
    OBVIOUS
  <2> QED
    BY <2>1, Split, Zenon
<1> HIDE DEF q, r
<1>2. q >= 0
  <2>1. SUFFICES ASSUME q <= -1 PROVE FALSE
    BY <1>1
  <2>2. q * Block <= -Block
    BY <2>1, <1>1
  <2> QED
    BY <2>2, <1>1
<1>3. q < Word
  <2>1. SUFFICES ASSUME q >= Word PROVE FALSE
    BY <1>1
  <2>2. q * Block >= Word * Block
    BY <2>1, <1>1
  <2>3. q * Block \in Int /\ Word * Block \in Int
    BY <1>1
  <2> QED
    BY <2>2, <2>3, <1>1
<1>4. q \in Words
  BY <1>1, <1>2, <1>3 DEF Words
<1> QED
  BY <1>4, Zenon DEF q

(* A byte that was read at a location is the byte of the object there.      *)
LEMMA ByteIs ==
    ASSUME NEW mf, NEW name, NEW o, NEW v, NEW shift, IsManifest(mf, name, o, v, shift),
           NEW pos \in Int, NEW l, IsLocation(mf, pos, l), l.encryption = "ctr" => l.ctr # <<>>,
           NEW i \in 0..(l.length - 1)
    PROVE  ByteAt(l, i) = <<o, v, shift + (pos + i)>>
<1> DEFINE n == mf.sizes[l.chunk] \div mf.k
           start == Start(mf, l.chunk, l.fragment)
<1>1. /\ l.id = mf.id /\ l.chunk \in DOMAIN mf.sizes /\ l.fragment \in 1..mf.k
      /\ start + l.offset = pos
      /\ l.offset \in Nat /\ l.length \in Nat \ {0} /\ l.offset + l.length <= n
      /\ l.encryption = mf.encryption /\ l.ctr = mf.fragments[l.chunk][l.fragment].ctr
  BY Zenon DEF IsLocation
<1>2. /\ IsLayout(mf) /\ ManifestOf(mf.id) = mf
      /\ \A p \in Int : Plain(mf.id, p) = <<o, v, shift + p>>
  BY Zenon DEF IsManifest
<1>3. i \in Nat /\ pos + i \in Int
  BY <1>1
<1>4. Plain(l.id, Start(ManifestOf(l.id), l.chunk, l.fragment) + l.offset + i)
        = <<o, v, shift + (pos + i)>>
  BY <1>1, <1>2, <1>3, Zenon
<1>5. CASE l.encryption = "ctr"
  <2>1. n <= Word * Block /\ (l.ctr = <<>> \/ l.ctr \in Words \X Words)
    BY <1>1, <1>2, <1>5, Zenon DEF IsLayout
  <2>2. l.ctr \in Words \X Words
    BY <2>1, <1>5, Zenon
  <2>3. n \in Int
    BY <1>1, <1>2 DEF IsLayout
  <2>4. l.offset < Word * Block
    <3> HIDE DEF n
    <3>1. Word * Block \in Int
      BY SlicesAssumption
    <3> QED
      BY <1>1, <2>1, <2>3, <3>1
  <2>5. l.offset \div Block \in Words
    BY <1>1, <2>4, BlocksFit, Zenon
  <2>6. partial_decrypt(l.ctr, l.offset, i) = KeyAt(l.ctr, l.offset + i)
    BY <1>1, <1>3, <2>2, <2>5, PartialDecryptIsRight, Zenon
  <2> QED
    BY <1>4, <2>6, Zenon DEF ByteAt
<1>6. CASE l.encryption # "ctr"
  BY <1>4, <1>6, Zenon DEF ByteAt
<1> QED
  BY <1>5, <1>6, Zenon
-----------------------------------------------------------------------------
(* The buffers of a read.                                                   *)

(* Totals of a prefix are those of the whole.                               *)
LEMMA TotalsPrefix ==
    ASSUME NEW s \in Seq(Nat), NEW t \in Seq(Nat), Len(t) <= Len(s),
           \A j \in 1..Len(t) : t[j] = s[j]
    PROVE  \A c \in 0..Len(t) : totals(t)[c] = totals(s)[c]
<1> DEFINE f == totals(s)
           g == totals(t)
           S == {m \in Nat : m <= Len(t) => g[m] = f[m]}
<1>0. /\ f[0] = 0 /\ g[0] = 0
      /\ \A c \in 1..Len(s) : f[c] = f[c - 1] + s[c]
      /\ \A c \in 1..Len(t) : g[c] = g[c - 1] + t[c]
  BY TotalsIs, Zenon
<1> HIDE DEF f, g
<1>1. 0 \in S
  BY <1>0, 0 \in Nat, Zenon
<1>2. ASSUME NEW m \in Nat, m \in S PROVE m + 1 \in S
  <2>1. CASE m + 1 <= Len(t)
    <3>1. m + 1 \in 1..Len(t) /\ m + 1 \in 1..Len(s) /\ (m + 1) - 1 = m /\ m <= Len(t)
      BY <2>1
    <3>2. g[m + 1] = f[m + 1]
      BY <1>0, <1>2, <3>1, Zenon
    <3> QED
      BY <3>2, m + 1 \in Nat, Zenon
  <2> QED
    BY <2>1, m + 1 \in Nat, Zenon
<1>3. Nat \subseteq S
  <2> HIDE DEF S
  <2> QED
    BY <1>1, <1>2, SetInduction, Zenon
<1>4. \A c \in 0..Len(t) : c \in Nat /\ c <= Len(t)
  OBVIOUS
<1> QED
  BY <1>3, <1>4, Zenon DEF f, g

(* What is asked for: slices, before they have a place in the buffer.       *)
Asked == [offset : Nat, size : Nat \ {0}]
Sizes(s) == [i \in DOMAIN s |-> s[i].size]

(* The sizes of the slices of a request.                                    *)
LEMMA SizesAre ==
    ASSUME NEW s, s \in Seq(Asked) \/ s \in Seq(Slice)
    PROVE  /\ Sizes(s) \in Seq(Nat) /\ Len(Sizes(s)) = Len(s) /\ DOMAIN Sizes(s) = DOMAIN s
           /\ Len(s) \in Nat /\ DOMAIN s = 1..Len(s)
           /\ \A i \in DOMAIN s : Sizes(s)[i] = s[i].size /\ s[i].size \in Nat \ {0} /\ s[i].offset \in Nat
           /\ Size(s) = totals(Sizes(s))[Len(s)]
<1>1. /\ Len(s) \in Nat /\ DOMAIN s = 1..Len(s)
      /\ \A i \in 1..Len(s) : s[i] \in Asked \/ s[i] \in Slice
  OBVIOUS
<1>2. \A x : x \in Asked \/ x \in Slice => x.size \in Nat \ {0} /\ x.offset \in Nat
  BY DEF Asked, Slice
<1>3. \A i \in 1..Len(s) : s[i].size \in Nat \ {0} /\ s[i].offset \in Nat /\ s[i].size \in Nat
  BY <1>1, <1>2
<1>4. Sizes(s) = [i \in 1..Len(s) |-> s[i].size]
  BY <1>1, Zenon DEF Sizes
<1>5. Sizes(s) \in [1..Len(s) -> Nat]
  BY <1>3, <1>4, Zenon
<1>6. Sizes(s) \in Seq(Nat) /\ Len(Sizes(s)) = Len(s) /\ DOMAIN Sizes(s) = 1..Len(s)
  BY <1>1, <1>5
<1> QED
  BY <1>1, <1>3, <1>4, <1>6, Zenon DEF Size, Sizes

(* The parts of the buffer follow each other.                               *)
Tiles(s, t) ==
    /\ t \in Seq(Slice) /\ Len(t) = Len(s) /\ DOMAIN t = DOMAIN s
    /\ \A i \in DOMAIN t :
         /\ t[i].offset = s[i].offset /\ t[i].size = s[i].size
         /\ t[i].target = totals(Sizes(s))[i - 1]
         /\ t[i].target + t[i].size = totals(Sizes(s))[i]

(* The slices of a request are laid out in the buffer one after another,    *)
(* without a gap (Targets).                                                 *)
LEMMA TargetsAre ==
    ASSUME NEW s \in Seq(Asked)
    PROVE  Tiles(s, Targets(s))
<1> DEFINE n == Len(s)
           z == Sizes(s)
           f == totals(z)
           t == Targets(s)
<1>1. /\ z \in Seq(Nat) /\ Len(z) = n /\ n \in Nat /\ DOMAIN s = 1..n /\ DOMAIN z = 1..n
      /\ \A i \in 1..n : z[i] = s[i].size /\ s[i].size \in Nat \ {0} /\ s[i].offset \in Nat
  BY SizesAre, Zenon
<1>2. /\ f[0] = 0 /\ \A c \in 1..n : f[c] = f[c - 1] + z[c]
      /\ \A c \in 0..n : f[c] \in Nat
  BY <1>1, TotalsIs, Zenon
<1>3. t = [i \in 1..n |-> [offset |-> s[i].offset, size |-> s[i].size,
                           target |-> Size(SubSeq(s, 1, i - 1))]]
  BY <1>1, Zenon DEF Targets
<1>4. ASSUME NEW i \in 1..n PROVE Size(SubSeq(s, 1, i - 1)) = f[i - 1]
  <2> DEFINE u == SubSeq(s, 1, i - 1)
  <2>1. /\ u \in Seq(Asked) /\ Len(u) = i - 1 /\ \A j \in 1..(i - 1) : u[j] = s[j]
        /\ i - 1 <= n /\ i - 1 \in Nat
    BY <1>1
  <2>5. i - 1 \in 0..(i - 1) /\ \A j \in 1..(i - 1) : j \in 1..n
    BY <1>1
  <2> HIDE DEF u
  <2>2. /\ Sizes(u) \in Seq(Nat) /\ Len(Sizes(u)) = i - 1 /\ DOMAIN u = 1..(i - 1)
        /\ \A j \in 1..(i - 1) : Sizes(u)[j] = u[j].size
        /\ Size(u) = totals(Sizes(u))[i - 1]
    BY <2>1, SizesAre, Zenon
  <2>3. \A j \in 1..(i - 1) : Sizes(u)[j] = z[j]
    BY <1>1, <2>1, <2>2, <2>5, Zenon
  <2>4. totals(Sizes(u))[i - 1] = f[i - 1]
    <3> HIDE DEF z, f
    <3>1. \A c \in 0..Len(Sizes(u)) : totals(Sizes(u))[c] = totals(z)[c]
      BY <1>1, <2>1, <2>2, <2>3, TotalsPrefix, Zenon
    <3> QED
      BY <2>2, <2>5, <3>1, Zenon DEF f
  <2> QED
    BY <2>2, <2>4, Zenon DEF u
<1> HIDE DEF f, z
<1>5. ASSUME NEW i \in 1..n
      PROVE  /\ t[i].offset = s[i].offset /\ t[i].size = s[i].size /\ t[i].target = f[i - 1]
             /\ t[i].target + t[i].size = f[i] /\ t[i] \in Slice
  <2>1. t[i] = [offset |-> s[i].offset, size |-> s[i].size, target |-> f[i - 1]]
    BY <1>3, <1>4, Zenon
  <2>2. i - 1 \in 0..n
    BY <1>1
  <2>3. f[i - 1] \in Nat /\ f[i - 1] + s[i].size = f[i]
    BY <1>1, <1>2, <2>2, Zenon
  <2>4. s[i].offset \in Nat /\ s[i].size \in Nat \ {0}
    BY <1>1, Zenon
  <2> HIDE DEF t
  <2> QED
    BY <2>1, <2>3, <2>4 DEF Slice
<1>6. t \in Seq(Slice) /\ Len(t) = n /\ DOMAIN t = 1..n
  <2>1. t = [i \in 1..n |-> t[i]]
    BY <1>3, Zenon
  <2> HIDE DEF t
  <2>2. t \in [1..n -> Slice]
    BY <1>5, <2>1, Zenon
  <2> QED
    BY <1>1, <2>2
<1> QED
  BY <1>1, <1>5, <1>6, Zenon DEF Tiles, f, z, t

(* At(t, b, p): byte b of the buffer is to have position p of the object.   *)
At(t, b, p) ==
    \E i \in DOMAIN t : /\ t[i].target <= b /\ b < t[i].target + t[i].size
                        /\ p = t[i].offset + (b - t[i].target)
Buffer(t, n) ==
    /\ \A b \in 0..(n - 1) : \E i \in DOMAIN t : t[i].target <= b /\ b < t[i].target + t[i].size
    /\ \A b \in Int : \A p : At(t, b, p) => b \in 0..(n - 1)
    /\ \A b \in Int : \A p, q : At(t, b, p) /\ At(t, b, q) => p = q

(* So every byte of the buffer belongs to one slice.                        *)
LEMMA BufferIs ==
    ASSUME NEW s \in Seq(Asked)
    PROVE  Buffer(Targets(s), Size(s)) /\ Size(s) \in Nat
<1> DEFINE n == Len(s)
           z == Sizes(s)
           f == totals(z)
           t == Targets(s)
<1>1. /\ z \in Seq(Nat) /\ Len(z) = n /\ n \in Nat /\ DOMAIN s = 1..n /\ DOMAIN z = 1..n
      /\ Size(s) = f[n]
  BY SizesAre, Zenon
<1>2. f[0] = 0 /\ \A c \in 0..n : f[c] \in Nat
  BY <1>1, TotalsIs, Zenon
<1>3. /\ DOMAIN t = 1..n /\ t \in Seq(Slice)
      /\ \A i \in 1..n : t[i].target = f[i - 1] /\ t[i].target + t[i].size = f[i]
  BY <1>1, TargetsAre, Zenon DEF Tiles
<1>4. \A a, b \in 0..n : a <= b => f[a] <= f[b]
  BY <1>1, TotalsGrow, Zenon
<1>0. n \in 0..n /\ 0 \in 0..n
  BY <1>1
<1>5. ASSUME NEW b \in 0..(Size(s) - 1)
      PROVE  \E i \in DOMAIN t : t[i].target <= b /\ b < t[i].target + t[i].size
  <2>1. b \in Nat /\ Inside(z, b)
    <3>1. f[n] \in Nat
      BY <1>0, <1>2, Zenon
    <3>2. b \in Nat /\ b < f[n]
      BY <1>1, <3>1
    <3> QED
      BY <1>1, <3>2, Zenon DEF Inside
  <2>2. /\ chunk_of(z, b) \in 1..n /\ f[chunk_of(z, b) - 1] <= b /\ b < f[chunk_of(z, b)]
    BY <1>1, <2>1, ChunkOf, Zenon
  <2> QED
    BY <1>3, <2>2, Zenon
<1> HIDE DEF f, t, z, n
<1>6. ASSUME NEW b \in Int, NEW i \in 1..n, f[i - 1] <= b, b < f[i]
      PROVE  b \in 0..(Size(s) - 1)
  <2>1. i - 1 \in 0..n /\ i \in 0..n /\ 0 <= i - 1 /\ i <= n
    BY <1>1
  <2>2. f[0] <= f[i - 1] /\ f[i] <= f[n] /\ f[i - 1] \in Nat /\ f[i] \in Nat /\ f[n] \in Nat
    BY <1>0, <1>2, <1>4, <2>1, Zenon
  <2> QED
    BY <1>1, <1>2, <1>6, <2>2
<1>7. ASSUME NEW b \in Int, NEW i \in 1..n, f[i - 1] <= b, b < f[i],
                            NEW j \in 1..n, f[j - 1] <= b, b < f[j], i < j
      PROVE  FALSE
  <2>1. j - 1 \in 0..n /\ i \in 0..n /\ i <= j - 1
    BY <1>1, <1>7
  <2>2. f[i] <= f[j - 1] /\ f[i] \in Nat /\ f[j - 1] \in Nat
    BY <1>2, <1>4, <2>1, Zenon
  <2> QED
    BY <1>7, <2>2
<1>8. ASSUME NEW b \in Int, NEW p, NEW q, At(t, b, p), At(t, b, q) PROVE p = q
  <2>1. PICK i \in 1..n : f[i - 1] <= b /\ b < f[i] /\ p = t[i].offset + (b - t[i].target)
    BY <1>3, <1>8, Zenon DEF At
  <2>2. PICK j \in 1..n : f[j - 1] <= b /\ b < f[j] /\ q = t[j].offset + (b - t[j].target)
    BY <1>3, <1>8, Zenon DEF At
  <2>3. ~(i < j) /\ ~(j < i)
    BY <1>7, <2>1, <2>2, Zenon
  <2>4. i = j
    BY <1>1, <2>3
  <2> QED
    BY <2>1, <2>2, <2>4, Zenon
<1>9. ASSUME NEW b \in Int, NEW p, At(t, b, p) PROVE b \in 0..(Size(s) - 1)
  <2>1. PICK i \in 1..n : f[i - 1] <= b /\ b < f[i]
    BY <1>3, <1>9, Zenon DEF At
  <2> QED
    BY <1>6, <2>1, Zenon
<1>10. Size(s) \in Nat
  BY <1>0, <1>1, <1>2, Zenon
<1> QED
  BY <1>5, <1>8, <1>9, <1>10, Zenon DEF Buffer, t

(* A slice of a read and what is asked for at the same place in the buffer. *)
SliceRight(t, shift, x) ==
    x \in Slice /\ \A m \in 0..(x.size - 1) : At(t, x.target + m, shift + (x.offset + m))

(* Location l has what is asked for: of a manifest whose bytes begin at     *)
(* shift, and of version v.                                                 *)
Placed(mf, t, shift, l) ==
    \E pos \in Int :
      /\ IsLocation(mf, pos, l) /\ l.target \in Nat /\ l.length \in Nat \ {0}
      /\ \A m \in 0..(l.length - 1) : At(t, l.target + m, shift + (pos + m))
LocRight(t, o, v, l) ==
    \E mf, name, shift : IsManifest(mf, name, o, v, shift) /\ Placed(mf, t, shift, l)
Readable(l) == l.encryption = "ctr" => l.ctr # <<>>

(* A buffer with all that was asked for, of version v.                      *)
GotRight(s, o, v, got) ==
    /\ Len(got) = Size(s)
    /\ \A b \in 0..(Size(s) - 1) : \A p : At(Targets(s), b, p) => got[b + 1] = <<o, v, p>>

(* Buffers filled from locations that are right and cover them are right.   *)
LEMMA FilledIs ==
    ASSUME NEW s \in Seq(Asked), NEW o, NEW v, NEW ls,
           \A j \in DOMAIN ls : LocRight(Targets(s), o, v, ls[j]) /\ Readable(ls[j]),
           \A b \in 0..(Size(s) - 1) : \E j \in DOMAIN ls : Covers(ls[j], b)
    PROVE  GotRight(s, o, v, Filled(s, ls))
<1> DEFINE t == Targets(s)
           n == Size(s)
           g == Filled(s, ls)
           cov(a) == {i \in DOMAIN ls : ls[i].target < a /\ a <= ls[i].target + ls[i].length}
           l(a) == ls[CHOOSE i \in cov(a) : TRUE]
<1>1. Buffer(t, n) /\ n \in Nat
  BY BufferIs, Zenon
<1>2. g = [a \in 1..n |-> IF cov(a) = {} THEN Junk ELSE ByteAt(l(a), a - 1 - l(a).target)]
  BY Zenon DEF Filled
<1> HIDE DEF g
<1>3. Len(g) = n
  BY <1>1, <1>2
<1>4. ASSUME NEW b \in 0..(n - 1), NEW p, At(t, b, p) PROVE g[b + 1] = <<o, v, p>>
  <2>1. b + 1 \in 1..n /\ b \in Int /\ (b + 1) - 1 = b
    BY <1>1
  <2>2. PICK j \in DOMAIN ls : Covers(ls[j], b)
    BY <1>4, Zenon
  <2>6. ASSUME NEW i \in DOMAIN ls
        PROVE  Covers(ls[i], b) <=> ls[i].target < b + 1 /\ b + 1 <= ls[i].target + ls[i].length
    <3>1. ls[i].target \in Int /\ ls[i].length \in Int
      <4>1. ls[i].target \in Nat /\ ls[i].length \in Nat \ {0}
        BY Zenon DEF LocRight, Placed
      <4> QED
        BY <4>1
    <3> QED
      BY <2>1, <3>1 DEF Covers
  <2>3. j \in cov(b + 1)
    BY <2>2, <2>6, Zenon
  <2>4. PICK i \in cov(b + 1) : i = CHOOSE x \in cov(b + 1) : TRUE
    BY <2>3, Zenon
  <2>5. l(b + 1) = ls[i] /\ i \in DOMAIN ls /\ Covers(ls[i], b) /\ cov(b + 1) # {}
    BY <2>3, <2>4, <2>6, Zenon
  <2>7. g[b + 1] = ByteAt(ls[i], b - ls[i].target)
    BY <1>2, <2>1, <2>5, Zenon
  <2>8. PICK mf, name, shift : IsManifest(mf, name, o, v, shift) /\ Placed(mf, t, shift, ls[i])
    BY <2>5, Zenon DEF LocRight
  <2>9. PICK pos \in Int :
          /\ IsLocation(mf, pos, ls[i]) /\ ls[i].target \in Nat /\ ls[i].length \in Nat \ {0}
          /\ \A m \in 0..(ls[i].length - 1) : At(t, ls[i].target + m, shift + (pos + m))
    BY <2>8, Zenon DEF Placed
  <2> DEFINE m == b - ls[i].target
  <2>10. m \in 0..(ls[i].length - 1) /\ ls[i].target + m = b
    BY <2>1, <2>5, <2>9 DEF Covers
  <2> HIDE DEF m
  <2>11. ByteAt(ls[i], m) = <<o, v, shift + (pos + m)>>
    <3>1. ls[i].encryption = "ctr" => ls[i].ctr # <<>>
      BY <2>5, Zenon DEF Readable
    <3>2. IsManifest(mf, name, o, v, shift) /\ IsLocation(mf, pos, ls[i])
      BY <2>8, <2>9, Zenon
    <3>3. m \in 0..(ls[i].length - 1)
      BY <2>10, Zenon
    <3> QED
      BY <3>1, <3>2, <3>3, ByteIs
  <2>12. At(t, b, shift + (pos + m))
    BY <2>9, <2>10, Zenon
  <2>13. shift + (pos + m) = p
    BY <1>1, <1>4, <2>1, <2>12, Zenon DEF Buffer
  <2> QED
    BY <2>7, <2>11, <2>13, Zenon DEF m
<1> QED
  BY <1>3, <1>4, Zenon DEF GotRight, g

(* What _resolve_one_level finds for slices that are right.                 *)
Resolved(mf, t, shift, slices, found) ==
    /\ found \in Seq(Locs(mf))
    /\ \A j \in DOMAIN found : Placed(mf, t, shift, found[j])
    /\ \A i \in DOMAIN slices : \A b \in Int :
         slices[i].target <= b /\ b < slices[i].target + slices[i].size
           => \E j \in DOMAIN found : Covers(found[j], b)

(* A part of a slice is inside it.                                          *)
LEMMA PartOfSlice ==
    ASSUME NEW n \in Int, NEW m \in 0..(n - 1), NEW len \in Int, m + len <= n, NEW y \in 0..(len - 1)
    PROVE  m + y \in 0..(n - 1)
OBVIOUS
(* A byte between a slice's ends has a place in it.                         *)
LEMMA PlaceInSlice ==
    ASSUME NEW a \in Nat, NEW n \in Nat \ {0}, NEW b \in Int, a <= b, b < a + n
    PROVE  b - a \in 0..(n - 1) /\ a + (b - a) = b
OBVIOUS

(* resolve: the locations of all slices together are right and leave out no *)
(* byte.                                                                    *)
LEMMA ResolvedIs ==
    ASSUME NEW mf, IsLayout(mf), NEW t, NEW shift \in Int, NEW slices \in Seq(Slice),
           \A i \in DOMAIN slices : SliceRight(t, shift, slices[i]),
           AllInside(mf, slices)
    PROVE  Resolved(mf, t, shift, slices, resolve(mf, slices))
<1> DEFINE found == resolve(mf, slices)
<1>1. /\ found \in Seq(Locs(mf))
      /\ \A j \in DOMAIN found : \E i \in DOMAIN slices : InSlice(mf, slices[i], found[j])
      /\ \A i \in DOMAIN slices : \A m \in 0..(slices[i].size - 1) :
           \E j \in DOMAIN found : Covers(found[j], slices[i].target + m)
  BY ResolveIs, Zenon DEF Found
<1> HIDE DEF found
<1>2. ASSUME NEW j \in DOMAIN found PROVE Placed(mf, t, shift, found[j])
  <2>1. PICK i \in DOMAIN slices : InSlice(mf, slices[i], found[j])
    BY <1>1, Zenon
  <2> DEFINE x == slices[i]
             l == found[j]
  <2>2. PICK m \in 0..(x.size - 1) :
          IsLocation(mf, x.offset + m, l) /\ l.target = x.target + m /\ m + l.length <= x.size
    BY <2>1, Zenon DEF InSlice, Within
  <2>3. SliceRight(t, shift, x)
    BY <2>1, Zenon
  <2>4. x.offset \in Nat /\ x.size \in Nat \ {0} /\ x.target \in Nat
    <3>1. x \in Slice
      BY <2>3, Zenon DEF SliceRight
    <3> HIDE DEF x
    <3> QED
      BY <3>1 DEF Slice
  <2>5. \A y \in 0..(x.size - 1) : At(t, x.target + y, shift + (x.offset + y))
    BY <2>3, Zenon DEF SliceRight
  <2>6. l.length \in Nat \ {0}
    BY <2>2, Zenon DEF IsLocation
  <2> HIDE DEF x, l
  <2>7. x.offset + m \in Int /\ l.target \in Nat
    BY <2>2, <2>4
  <2>8. ASSUME NEW y \in 0..(l.length - 1)
        PROVE  At(t, l.target + y, shift + ((x.offset + m) + y))
    <3>1. /\ m + y \in 0..(x.size - 1) /\ l.target + y = x.target + (m + y)
          /\ (x.offset + m) + y = x.offset + (m + y)
      <4>1. /\ m + y \in 0..(x.size - 1) /\ (x.target + m) + y = x.target + (m + y)
            /\ (x.offset + m) + y = x.offset + (m + y)
        <5>1. m + l.length <= x.size /\ m \in 0..(x.size - 1)
          BY <2>2, Zenon
        <5>2. x.size \in Int /\ l.length \in Int /\ m \in Int /\ y \in Int /\ x.target \in Int /\ x.offset \in Int
          BY <2>4, <2>6
        <5>3. m + y \in 0..(x.size - 1)
          BY <5>1, <5>2, PartOfSlice, Zenon
        <5> QED
          BY <5>2, <5>3, SMT
      <4> QED
        BY <2>2, <4>1, Zenon
    <3> QED
      BY <2>5, <3>1, Zenon
  <2>9. IsLocation(mf, x.offset + m, l)
    BY <2>2, Zenon
  <2> QED
    BY <2>6, <2>7, <2>8, <2>9, Zenon DEF Placed, l
<1>3. ASSUME NEW i \in DOMAIN slices, NEW b \in Int,
             slices[i].target <= b, b < slices[i].target + slices[i].size
      PROVE  \E j \in DOMAIN found : Covers(found[j], b)
  <2> DEFINE x == slices[i]
  <2>1. x \in Slice
    BY Zenon DEF SliceRight
  <2>2. x.target <= b /\ b < x.target + x.size
    BY <1>3, Zenon
  <2>3. \A m \in 0..(x.size - 1) : \E j \in DOMAIN found : Covers(found[j], x.target + m)
    BY <1>1, Zenon
  <2> HIDE DEF x
  <2>4. b - x.target \in 0..(x.size - 1) /\ x.target + (b - x.target) = b
    <3>1. x.size \in Nat \ {0} /\ x.target \in Nat
      BY <2>1, Zenon DEF Slice
    <3> QED
      BY <2>2, <3>1, PlaceInSlice, Zenon
  <2> QED
    BY <2>3, <2>4, Zenon
<1> QED
  BY <1>1, <1>2, <1>3, Zenon DEF Resolved, found

(* The slices of a read are right for the manifest of the object.           *)
LEMMA TargetsRight ==
    ASSUME NEW s \in Seq(Asked), NEW i \in DOMAIN Targets(s)
    PROVE  SliceRight(Targets(s), 0, Targets(s)[i])
<1> DEFINE t == Targets(s)
           x == t[i]
<1>1. t \in Seq(Slice)
  BY TargetsAre, Zenon DEF Tiles
<1> HIDE DEF t
<1>2. x \in Slice
  BY <1>1 DEF t
<1>3. ASSUME NEW m \in 0..(x.size - 1) PROVE At(t, x.target + m, 0 + (x.offset + m))
  <2>1. /\ x.target <= x.target + m /\ x.target + m < x.target + x.size
        /\ 0 + (x.offset + m) = x.offset + ((x.target + m) - x.target)
    <3> HIDE DEF x
    <3> QED
      BY <1>2 DEF Slice
  <2> QED
    BY <2>1, Zenon DEF At, t
<1> QED
  BY <1>2, <1>3, Zenon DEF SliceRight, t

(* Where slices go does not change whether they are inside the object.      *)
LEMMA TargetsInside ==
    ASSUME NEW s \in Seq(Asked), NEW mf
    PROVE  AllInside(mf, Targets(s)) <=> AllInside(mf, s)
BY TargetsAre, Zenon DEF Tiles, AllInside

(* The look-ups at the next level: a location in a fragment of version v is *)
(* a slice of the object that the cache keeps for that fragment.            *)
Below(t, o, v, w) ==
    \E c \in DOMAIN Layout(v).sizes, f \in 1..Layout(v).k, x \in Slice :
      /\ w.level = 2 /\ w.name = <<o, v, c, f>> /\ w.slices = <<x>>
      /\ SliceRight(t, Start(ObjectManifest(o, v), c, f), x)

(* A location that is looked up one level lower asks the cached fragment for*)
(* the same bytes.                                                          *)
LEMMA BelowIs ==
    ASSUME NEW o, NEW v \in Version1, NEW t, NEW l, Placed(ObjectManifest(o, v), t, 0, l), NEW w,
           w.level = 2, w.name = CacheName(l),
           w.slices = <<[offset |-> l.offset, size |-> l.length, target |-> l.target]>>
    PROVE  /\ Below(t, o, v, w)
           /\ w.slices[1].target = l.target /\ w.slices[1].size = l.length
<1> DEFINE mf == ObjectManifest(o, v)
           x == [offset |-> l.offset, size |-> l.length, target |-> l.target]
<1>1. PICK pos \in Int :
        /\ IsLocation(mf, pos, l) /\ l.target \in Nat /\ l.length \in Nat \ {0}
        /\ \A m \in 0..(l.length - 1) : At(t, l.target + m, 0 + (pos + m))
  BY Zenon DEF Placed
<1>2. /\ l.id = mf.id /\ l.chunk \in DOMAIN mf.sizes /\ l.fragment \in 1..mf.k
      /\ Start(mf, l.chunk, l.fragment) + l.offset = pos
      /\ l.offset \in Nat
  BY <1>1, Zenon DEF IsLocation
<1>3. mf.id = <<o, v>> /\ mf.sizes = Layout(v).sizes /\ mf.k = Layout(v).k
  BY Zenon DEF ObjectManifest, Manifest
<1>4. IsManifest(mf, <<o>>, o, v, 0)
  BY ObjectManifestIs, Zenon
<1>5. IsManifest(CacheManifest(<<o, v, l.chunk, l.fragment>>), <<o, v, l.chunk, l.fragment>>, o, v,
                 Start(mf, l.chunk, l.fragment))
  BY <1>2, <1>3, CacheManifestIs, Zenon
<1>6. Start(mf, l.chunk, l.fragment) \in Int
  BY <1>5, Zenon DEF IsManifest
<1>7. w.name = <<o, v, l.chunk, l.fragment>>
  <2>1. l.id[1] = o /\ l.id[2] = v
    BY <1>2, <1>3
  <2> QED
    BY <2>1, Zenon DEF CacheName
<1>8. x \in Slice /\ x.offset = l.offset /\ x.size = l.length /\ x.target = l.target
  BY <1>1, <1>2 DEF Slice
<1> HIDE DEF x, mf
<1>9. SliceRight(t, Start(mf, l.chunk, l.fragment), x)
  <2>1. ASSUME NEW m \in 0..(x.size - 1)
        PROVE  At(t, x.target + m, Start(mf, l.chunk, l.fragment) + (x.offset + m))
    <3>1. 0 + (pos + m) = Start(mf, l.chunk, l.fragment) + (x.offset + m)
      BY <1>1, <1>2, <1>6, <1>8
    <3>2. At(t, l.target + m, 0 + (pos + m))
      BY <1>1, <1>8, Zenon
    <3> QED
      BY <1>8, <3>1, <3>2, Zenon
  <2> QED
    BY <1>8, <2>1, Zenon DEF SliceRight
<1>10. w.slices = <<x>> /\ w.slices[1] = x
  BY DEF x
<1> QED
  BY <1>2, <1>3, <1>7, <1>8, <1>9, <1>10, Zenon DEF Below, mf
-----------------------------------------------------------------------------
(* The look-ups of a call.  Same(s, u, i): of s and u the look-ups for the  *)
(* ith object are the same ones.                                            *)
Once(s, i) == \A j, k \in DOMAIN s : s[j].i = i /\ s[k].i = i => j = k
Same(s, u, i) ==
    /\ \A j \in DOMAIN u : u[j].i = i => \E k \in DOMAIN s : s[k] = u[j]
    /\ \A k \in DOMAIN s : s[k].i = i => \E j \in DOMAIN u : u[j] = s[k]
    /\ Once(s, i) => Once(u, i)

(* The look-ups of an object do not change when one of another is taken     *)
(* away, ...                                                                *)
LEMMA TailSame ==
    ASSUME NEW S, NEW s \in Seq(S), s # <<>>, NEW i, s[1].i # i
    PROVE  Tail(s) \in Seq(S) /\ Same(s, Tail(s), i)
<1> DEFINE t == Tail(s)
           n == Len(s)
<1>1. /\ t \in Seq(S) /\ Len(t) = n - 1 /\ n \in Nat /\ n # 0
      /\ DOMAIN t = 1..(n - 1) /\ DOMAIN s = 1..n
      /\ \A j \in 1..(n - 1) : t[j] = s[j + 1]
  OBVIOUS
<1>2. /\ \A j \in 1..(n - 1) : j + 1 \in 1..n
      /\ \A j \in 1..n : j = 1 \/ (j - 1 \in 1..(n - 1) /\ (j - 1) + 1 = j)
      /\ \A j, k \in 1..(n - 1) : j + 1 = k + 1 => j = k
  BY <1>1
<1> HIDE DEF t, n
<1>3. ASSUME NEW j \in DOMAIN t, t[j].i = i PROVE \E k \in DOMAIN s : s[k] = t[j]
  BY <1>1, <1>2, Zenon
<1>4. ASSUME NEW k \in DOMAIN s, s[k].i = i PROVE \E j \in DOMAIN t : t[j] = s[k]
  <2>1. k # 1
    BY <1>4, Zenon
  <2>2. k - 1 \in DOMAIN t /\ t[k - 1] = s[k]
    BY <1>1, <1>2, <2>1, Zenon
  <2> QED
    BY <2>2, Zenon
<1>5. ASSUME Once(s, i) PROVE Once(t, i)
  <2>1. ASSUME NEW j \in DOMAIN t, NEW k \in DOMAIN t, t[j].i = i, t[k].i = i PROVE j = k
    <3>1. t[j] = s[j + 1] /\ t[k] = s[k + 1] /\ j + 1 \in DOMAIN s /\ k + 1 \in DOMAIN s
      BY <1>1, <1>2, <2>1, Zenon
    <3>2. j + 1 = k + 1
      BY <1>5, <2>1, <3>1, Zenon DEF Once
    <3> QED
      BY <1>1, <1>2, <3>2, Zenon
  <2> QED
    BY <2>1, Zenon DEF Once
<1> QED
  BY <1>1, <1>3, <1>4, <1>5, Zenon DEF Same, t

(* ... some of another are put in front, ...                                *)
LEMMA ConcatSame ==
    ASSUME NEW S, NEW s \in Seq(S), NEW t \in Seq(S), NEW i, \A j \in DOMAIN t : t[j].i # i
    PROVE  t \o s \in Seq(S) /\ Same(s, t \o s, i)
<1> DEFINE u == t \o s
           n == Len(t)
<1>1. /\ u \in Seq(S) /\ Len(u) = n + Len(s) /\ Len(s) \in Nat /\ n \in Nat
      /\ DOMAIN u = 1..Len(u) /\ DOMAIN s = 1..Len(s) /\ DOMAIN t = 1..n
  OBVIOUS
<1>2. /\ \A j \in 1..n : u[j] = t[j]
      /\ \A j \in 1..Len(s) : u[n + j] = s[j]
  OBVIOUS
<1> HIDE DEF u, n
<1>3. /\ \A j \in 1..Len(s) : n + j \in 1..Len(u)
      /\ \A j \in 1..Len(u) : \/ j \in 1..n
                              \/ j - n \in 1..Len(s) /\ n + (j - n) = j
      /\ \A j, k \in 1..Len(u) : j - n = k - n => j = k
  BY <1>1
<1>4. ASSUME NEW j \in DOMAIN u, u[j].i = i PROVE j - n \in DOMAIN s /\ u[j] = s[j - n]
  BY <1>1, <1>2, <1>3, <1>4, Zenon
<1>5. \A k \in DOMAIN s : \E j \in DOMAIN u : u[j] = s[k]
  BY <1>1, <1>2, <1>3, Zenon
<1>6. ASSUME Once(s, i) PROVE Once(u, i)
  <2>1. ASSUME NEW j \in DOMAIN u, NEW k \in DOMAIN u, u[j].i = i, u[k].i = i PROVE j = k
    <3>1. j - n = k - n
      BY <1>4, <1>6, <2>1, Zenon DEF Once
    <3> QED
      BY <1>1, <1>3, <3>1, Zenon
  <2> QED
    BY <2>1, Zenon DEF Once
<1> QED
  BY <1>1, <1>4, <1>5, <1>6, Zenon DEF Same, u

(* ... or both happen, ...                                                  *)
LEMMA SameTwice ==
    ASSUME NEW i, NEW s, NEW t, NEW u, Same(s, t, i), Same(t, u, i)
    PROVE  Same(s, u, i)
<1>1. ASSUME NEW j \in DOMAIN u, u[j].i = i PROVE \E k \in DOMAIN s : s[k] = u[j]
  <2>1. PICK l \in DOMAIN t : t[l] = u[j]
    BY <1>1, Zenon DEF Same
  <2>2. t[l].i = i
    BY <1>1, <2>1, Zenon
  <2>3. PICK k \in DOMAIN s : s[k] = t[l]
    BY <2>2, Zenon DEF Same
  <2> QED
    BY <2>1, <2>3, Zenon
<1>2. ASSUME NEW k \in DOMAIN s, s[k].i = i PROVE \E j \in DOMAIN u : u[j] = s[k]
  <2>1. PICK l \in DOMAIN t : t[l] = s[k]
    BY <1>2, Zenon DEF Same
  <2>2. t[l].i = i
    BY <1>2, <2>1, Zenon
  <2>3. PICK j \in DOMAIN u : u[j] = t[l]
    BY <2>2, Zenon DEF Same
  <2> QED
    BY <2>1, <2>3, Zenon
<1> QED
  BY <1>1, <1>2, Zenon DEF Same

Ends(S, s, e, u) ==
    /\ u \in Seq(S) /\ Len(s) + 1 \in DOMAIN u /\ u[Len(s) + 1] = e
    /\ \A j \in DOMAIN s : j \in DOMAIN u /\ u[j] = s[j]
    /\ \A j \in DOMAIN u : j \in DOMAIN s \/ j = Len(s) + 1
(* What a sequence with one more at its end has.                            *)
LEMMA EndsIs ==
    ASSUME NEW S, NEW s \in Seq(S), NEW e \in S
    PROVE  Ends(S, s, e, s \o <<e>>)
<1> DEFINE u == s \o <<e>>
<1>1. /\ u \in Seq(S) /\ Len(u) = Len(s) + 1 /\ Len(s) \in Nat
      /\ DOMAIN u = 1..Len(u) /\ DOMAIN s = 1..Len(s) /\ u[Len(s) + 1] = e
      /\ \A j \in 1..Len(s) : u[j] = s[j]
  OBVIOUS
<1> HIDE DEF u
<1>2. /\ \A j \in 1..Len(s) : j \in 1..Len(u)
      /\ \A j \in 1..Len(u) : j \in 1..Len(s) \/ j = Len(s) + 1
      /\ Len(s) + 1 \in 1..Len(u)
  BY <1>1
<1> QED
  BY <1>1, <1>2, Zenon DEF Ends, u

(* The look-ups for other objects stay when one object is given up.         *)
Gone(s, k) == \A j \in DOMAIN s : s[j].i # k
(* ... or all those of another object are dropped, of which then none is    *)
(* left.                                                                    *)
LEMMA OthersSame ==
    ASSUME NEW S, NEW s \in Seq(S), NEW k, NEW i, i # k
    PROVE  /\ others(s, k) \in Seq(S) /\ Same(s, others(s, k), i)
           /\ Gone(others(s, k), k)
<1> DEFINE n == Len(s)
           r(j) == IF s[j].i = k THEN <<>> ELSE <<s[j]>>
           Is(f) == f = [j \in 0..n |-> IF j = 0 THEN <<>> ELSE f[j - 1] \o r(j)]
           b == [j \in 1..n |-> r(j)]
           f == CHOOSE f : Is(f)
<1>0. n \in Nat /\ DOMAIN s = 1..n /\ \A j \in 1..n : s[j] \in S
  OBVIOUS
<1>1. \E g : Is(g)
  <2>1. PICK g : g = [j \in 0..n |-> IF j = 0 THEN <<>> ELSE g[j - 1] \o b[j]]
    <3> HIDE DEF b, n
    <3> QED
      BY <1>0, ConcatExist, Zenon
  <2>2. \A j \in 0..n : j # 0 => j \in 1..n
    BY <1>0
  <2> HIDE DEF r, n
  <2>3. \A j \in 0..n : (IF j = 0 THEN <<>> ELSE g[j - 1] \o b[j]) = (IF j = 0 THEN <<>> ELSE g[j - 1] \o r(j))
    BY <2>2, Zenon
  <2>4. Is(g)
    BY <2>1, <2>3, Zenon
  <2> QED
    BY <2>4, Zenon
<1>2. Is(f)
  <2> HIDE DEF Is
  <2> QED
    BY <1>1, Zenon
<1>3. others(s, k) = f[n]
  BY Zenon DEF others
<1> HIDE DEF f
<1> DEFINE Upto(m, t) ==
             /\ t \in Seq(S)
             /\ \A a \in DOMAIN t : \E x \in 1..m : t[a] = s[x] /\ s[x].i # k
             /\ \A x \in 1..m : s[x].i = i => \E a \in DOMAIN t : t[a] = s[x]
             /\ Once(s, i) => Once(t, i)
           T == {m \in Nat : m <= n => Upto(m, f[m])}
<1>5. 0 \in T
  <2>1. 0 \in 0..n /\ 0 \in Nat /\ 1..0 = {}
    BY <1>0
  <2>2. f[0] = <<>>
    <3> HIDE DEF r, n
    <3> QED
      BY <1>2, <2>1, Zenon
  <2>3. <<>> \in Seq(S) /\ DOMAIN <<>> = {}
    OBVIOUS
  <2>4. Upto(0, f[0])
    BY <2>1, <2>2, <2>3, Zenon DEF Once
  <2> HIDE DEF Upto
  <2> QED
    BY <2>1, <2>4, Zenon
<1>6. ASSUME NEW m \in Nat, m \in T PROVE m + 1 \in T
  <2> SUFFICES ASSUME m + 1 <= n PROVE Upto(m + 1, f[m + 1])
    BY m + 1 \in Nat, Zenon
  <2>1. /\ m + 1 \in 1..n /\ m <= n /\ m + 1 \in 0..n /\ m + 1 # 0 /\ (m + 1) - 1 = m
        /\ \A x \in 1..m : x \in 1..n /\ x # m + 1 /\ x \in 1..(m + 1)
        /\ \A x \in 1..(m + 1) : x = m + 1 \/ x \in 1..m
        /\ m + 1 \in 1..(m + 1)
    BY <1>0
  <2> DEFINE j == m + 1
             u == f[j]
             t == f[m]
  <2>2. u = t \o r(j)
    <3> HIDE DEF r, n
    <3> QED
      BY <1>2, <2>1, Zenon
  <2>3. Upto(m, t)
    BY <1>6, <2>1, Zenon
  <2>4. CASE s[j].i = k
    <3>1. u = t
      <4>1. t \o <<>> = t
        <5>1. t \in Seq(S)
          BY <2>3, Zenon
        <5> HIDE DEF t
        <5> QED
          BY <5>1
      <4> QED
        BY <2>2, <2>4, <4>1, Zenon
    <3> HIDE DEF n, r, u, t
    <3>2. \A x \in 1..(m + 1) : s[x].i = i => \E a \in DOMAIN t : t[a] = s[x]
      BY <2>1, <2>3, <2>4, Zenon
    <3>3. \A a \in DOMAIN t : \E x \in 1..(m + 1) : t[a] = s[x] /\ s[x].i # k
      BY <2>1, <2>3, Zenon
    <3>4. Upto(m + 1, t)
      BY <2>3, <3>2, <3>3, Zenon
    <3> QED
      BY <3>1, <3>4, Zenon DEF u
  <2>5. CASE s[j].i # k
    <3>1. u = t \o <<s[j]>>
      BY <2>2, <2>5, Zenon
    <3> HIDE DEF n, r, u, t
    <3>2. t \in Seq(S) /\ s[j] \in S
      BY <1>0, <2>1, <2>3, Zenon
    <3>3. Ends(S, t, s[j], u)
      <4> HIDE DEF j
      <4> QED
        BY <3>1, <3>2, EndsIs, Zenon
    <3>4. \A a \in DOMAIN u : \E x \in 1..(m + 1) : u[a] = s[x] /\ s[x].i # k
      <4>1. ASSUME NEW a \in DOMAIN t PROVE \E x \in 1..(m + 1) : u[a] = s[x] /\ s[x].i # k
        <5>1. PICK x \in 1..m : t[a] = s[x] /\ s[x].i # k
          BY <2>3, Zenon
        <5>2. u[a] = t[a] /\ x \in 1..(m + 1)
          BY <2>1, <3>3, Zenon DEF Ends
        <5> QED
          BY <5>1, <5>2, Zenon
      <4>2. \E x \in 1..(m + 1) : u[Len(t) + 1] = s[x] /\ s[x].i # k
        BY <2>1, <2>5, <3>3, Zenon DEF Ends
      <4> QED
        BY <3>3, <4>1, <4>2, Zenon DEF Ends
    <3>5. \A x \in 1..(m + 1) : s[x].i = i => \E a \in DOMAIN u : u[a] = s[x]
      BY <2>1, <2>3, <3>3, Zenon DEF Ends
    <3>6. ASSUME Once(s, i) PROVE Once(u, i)
      <4>1. ASSUME NEW a \in DOMAIN t, t[a].i = i PROVE s[j].i # i
        <5>1. PICK x \in 1..m : t[a] = s[x]
          BY <2>3, <4>1, Zenon
        <5> QED
          BY <1>0, <2>1, <3>6, <4>1, <5>1, Zenon DEF Once
      <4>2. Once(t, i)
        BY <2>3, <3>6, Zenon
      <4>3. ASSUME NEW a \in DOMAIN u, NEW c \in DOMAIN u, u[a].i = i, u[c].i = i PROVE a = c
        BY <3>3, <4>1, <4>2, <4>3, Zenon DEF Ends, Once
      <4> QED
        BY <4>3, Zenon DEF Once
    <3>7. Upto(m + 1, u)
      BY <3>3, <3>4, <3>5, <3>6, Zenon DEF Ends
    <3> QED
      BY <3>7, Zenon DEF u
  <2> QED
    BY <2>4, <2>5, Zenon
<1>7. Nat \subseteq T
  <2> HIDE DEF T
  <2> QED
    BY <1>5, <1>6, SetInduction, Zenon
<1>8. Upto(n, f[n])
  <2>1. n <= n
    BY <1>0
  <2> HIDE DEF Upto, n
  <2> QED
    BY <1>0, <1>7, <2>1, Zenon
<1> HIDE DEF n
<1>9. Gone(f[n], k)
  BY <1>8, Zenon DEF Gone
<1>10. f[n] \in Seq(S) /\ Same(s, f[n], i)
  <2>1. \A j \in DOMAIN f[n] : \E x \in DOMAIN s : s[x] = f[n][j]
    BY <1>0, <1>8, Zenon
  <2> QED
    BY <1>0, <1>8, <2>1, Zenon DEF Same
<1> QED
  BY <1>3, <1>9, <1>10, Zenon
-----------------------------------------------------------------------------
(* What a call has found for the object of an ObjectSlices q.               *)

(* Version v is not older than what the read has to see.                    *)
New(from, o, v) == OnlyQuiet => from[o] <= v
GotOk(q, from, got) ==
    \E v \in Version1 : New(from, q.object, v) /\ GotRight(q.slices, q.object, v, got)
LocsOk(q, v, ls) ==
    /\ \E S : ls \in Seq(S)
    /\ \A j \in DOMAIN ls : LocRight(Targets(q.slices), q.object, v, ls[j])
Shows(ls, b) == \E j \in DOMAIN ls : Covers(ls[j], b)
Awaits(work, i, b) ==
    \E j \in DOMAIN work :
      /\ work[j].i = i /\ work[j].slices[1].target <= b
      /\ b < work[j].slices[1].target + work[j].slices[1].size

(* Its manifest has to be looked up; or it was found, and every byte has a  *)
(* location or a look-up at the next level, all of the version found; or    *)
(* all bytes have a location.                                               *)
Unresolved(q, ls, work, i) ==
    /\ ls = <<>> /\ Once(work, i)
    /\ \E j \in DOMAIN work : /\ work[j].i = i /\ work[j].level = 1 /\ work[j].name = <<q.object>>
                              /\ work[j].slices = Targets(q.slices)
Partly(q, ls, work, i, v) ==
    /\ LocsOk(q, v, ls)
    /\ \A j \in DOMAIN work : work[j].i = i => Below(Targets(q.slices), q.object, v, work[j])
    /\ \A b \in 0..(Size(q.slices) - 1) : Shows(ls, b) \/ Awaits(work, i, b)
Progress(q, from, ls, work, i) ==
    \/ Unresolved(q, ls, work, i)
    \/ \E v \in Version1 : New(from, q.object, v) /\ Partly(q, ls, work, i, v)
Whole(q, from, ls) ==
    \E v \in Version1 : /\ New(from, q.object, v) /\ LocsOk(q, v, ls)
                        /\ \A b \in 0..(Size(q.slices) - 1) : Shows(ls, b)

(* Only its own look-ups count for an object.                               *)
LEMMA ProgressSame ==
    ASSUME NEW q, NEW from, NEW ls, NEW s, NEW u, NEW i,
           Progress(q, from, ls, s, i), Same(s, u, i)
    PROVE  Progress(q, from, ls, u, i)
<1>1. CASE Unresolved(q, ls, s, i)
  <2>1. PICK k \in DOMAIN s : /\ s[k].i = i /\ s[k].level = 1 /\ s[k].name = <<q.object>>
                              /\ s[k].slices = Targets(q.slices)
    BY <1>1, Zenon DEF Unresolved
  <2>2. PICK j \in DOMAIN u : u[j] = s[k]
    BY <2>1, Zenon DEF Same
  <2>3. ls = <<>> /\ Once(u, i)
    BY <1>1, Zenon DEF Unresolved, Same
  <2> QED
    BY <2>1, <2>2, <2>3, Zenon DEF Unresolved, Progress
<1>2. CASE \E v \in Version1 : New(from, q.object, v) /\ Partly(q, ls, s, i, v)
  <2>1. PICK v \in Version1 : New(from, q.object, v) /\ Partly(q, ls, s, i, v)
    BY <1>2, Zenon
  <2>2. ASSUME NEW j \in DOMAIN u, u[j].i = i PROVE Below(Targets(q.slices), q.object, v, u[j])
    <3>1. PICK k \in DOMAIN s : s[k] = u[j]
      BY <2>2, Zenon DEF Same
    <3> QED
      BY <2>1, <2>2, <3>1, Zenon DEF Partly
  <2>3. ASSUME NEW b, Awaits(s, i, b) PROVE Awaits(u, i, b)
    <3>1. PICK k \in DOMAIN s : /\ s[k].i = i /\ s[k].slices[1].target <= b
                                /\ b < s[k].slices[1].target + s[k].slices[1].size
      BY <2>3, Zenon DEF Awaits
    <3>2. PICK j \in DOMAIN u : u[j] = s[k]
      BY <3>1, Zenon DEF Same
    <3> QED
      BY <3>1, <3>2, Zenon DEF Awaits
  <2>4. Partly(q, ls, u, i, v)
    BY <2>1, <2>2, <2>3, Zenon DEF Partly
  <2> QED
    BY <2>1, <2>4, Zenon DEF Progress
<1> QED
  BY <1>1, <1>2, Zenon DEF Progress

(* When no look-up is left the locations are whole.                         *)
LEMMA ProgressDone ==
    ASSUME NEW q, NEW from, NEW ls, NEW i, Progress(q, from, ls, <<>>, i)
    PROVE  Whole(q, from, ls)
<1>1. DOMAIN <<>> = {}
  OBVIOUS
<1>2. ~Unresolved(q, ls, <<>>, i)
  BY <1>1, Zenon DEF Unresolved
<1>3. PICK v \in Version1 : New(from, q.object, v) /\ Partly(q, ls, <<>>, i, v)
  BY <1>2, Zenon DEF Progress
<1>4. \A b : ~Awaits(<<>>, i, b)
  BY <1>1, Zenon DEF Awaits
<1> QED
  BY <1>3, <1>4, Zenon DEF Whole, Partly

(* Whole locations that can be read fill the buffers rightly.               *)
LEMMA WholeGot ==
    ASSUME NEW q \in ObjectSlices, NEW from, NEW ls, Whole(q, from, ls),
           \A j \in DOMAIN ls : Readable(ls[j])
    PROVE  GotOk(q, from, Filled(q.slices, ls))
<1>1. PICK v \in Version1 : /\ New(from, q.object, v) /\ LocsOk(q, v, ls)
                            /\ \A b \in 0..(Size(q.slices) - 1) : Shows(ls, b)
  BY Zenon DEF Whole
<1>2. q.slices \in Seq(Asked)
  BY Zenon DEF ObjectSlices, Asked
<1>3. \A j \in DOMAIN ls : LocRight(Targets(q.slices), q.object, v, ls[j]) /\ Readable(ls[j])
  BY <1>1, Zenon DEF LocsOk
<1>4. \A b \in 0..(Size(q.slices) - 1) : \E j \in DOMAIN ls : Covers(ls[j], b)
  BY <1>1, Zenon DEF Shows
<1>5. GotRight(q.slices, q.object, v, Filled(q.slices, ls))
  BY <1>2, <1>3, <1>4, FilledIs, Zenon
<1> QED
  BY <1>1, <1>5, Zenon DEF GotOk

(* What the manifest of version v says of an object.                        *)
LEMMA TopFound ==
    ASSUME NEW q \in ObjectSlices, NEW v \in Version1,
           AllInside(ObjectManifest(q.object, v), Targets(q.slices))
    PROVE  Resolved(ObjectManifest(q.object, v), Targets(q.slices), 0, Targets(q.slices),
                    resolve(ObjectManifest(q.object, v), Targets(q.slices)))
<1> DEFINE t == Targets(q.slices)
           mf == ObjectManifest(q.object, v)
<1>1. q.slices \in Seq(Asked)
  BY Zenon DEF ObjectSlices, Asked
<1>2. t \in Seq(Slice) /\ \A i \in DOMAIN t : SliceRight(t, 0, t[i])
  BY <1>1, TargetsAre, TargetsRight, Zenon DEF Tiles
<1>3. IsLayout(mf)
  BY ObjectManifestIs, Zenon DEF IsManifest
<1>4. 0 \in Int
  OBVIOUS
<1> HIDE DEF t, mf
<1>5. Resolved(mf, t, 0, t, resolve(mf, t))
  BY <1>2, <1>3, <1>4, ResolvedIs, Zenon DEF t, mf
<1> QED
  BY <1>5, Zenon DEF t, mf

(* The locations a manifest gives show all of the buffer, of its version.   *)
LEMMA TopShows ==
    ASSUME NEW q \in ObjectSlices, NEW v \in Version1, NEW found,
           Resolved(ObjectManifest(q.object, v), Targets(q.slices), 0, Targets(q.slices), found)
    PROVE  LocsOk(q, v, found) /\ \A b \in 0..(Size(q.slices) - 1) : Shows(found, b)
<1> DEFINE t == Targets(q.slices)
           mf == ObjectManifest(q.object, v)
<1>1. q.slices \in Seq(Asked)
  BY Zenon DEF ObjectSlices, Asked
<1>2. Buffer(t, Size(q.slices)) /\ Size(q.slices) \in Nat
  BY <1>1, BufferIs, Zenon
<1>3. IsManifest(mf, <<q.object>>, q.object, v, 0)
  BY ObjectManifestIs, Zenon
<1>4. \A j \in DOMAIN found : LocRight(t, q.object, v, found[j])
  BY <1>3, Zenon DEF Resolved, LocRight
<1>5. ASSUME NEW b \in 0..(Size(q.slices) - 1) PROVE Shows(found, b)
  <2>1. PICK i \in DOMAIN t : t[i].target <= b /\ b < t[i].target + t[i].size
    BY <1>2, Zenon DEF Buffer
  <2>2. b \in Int
    BY <1>2
  <2> QED
    BY <2>1, <2>2, Zenon DEF Resolved, Shows
<1> QED
  BY <1>4, <1>5, Zenon DEF LocsOk, Resolved

(* What is left of a sequence without its first.                            *)
LEMMA RestIs ==
    ASSUME NEW S, NEW s \in Seq(S), s # <<>>
    PROVE  /\ Tail(s) \in Seq(S) /\ 1 \in DOMAIN s
           /\ \A j \in DOMAIN Tail(s) : \E k \in DOMAIN s : k # 1 /\ Tail(s)[j] = s[k]
           /\ \A k \in DOMAIN s : k = 1 \/ \E j \in DOMAIN Tail(s) : Tail(s)[j] = s[k]
<1> DEFINE t == Tail(s)
           n == Len(s)
<1>1. /\ t \in Seq(S) /\ Len(t) = n - 1 /\ n \in Nat /\ n # 0
      /\ DOMAIN t = 1..(n - 1) /\ DOMAIN s = 1..n
      /\ \A j \in 1..(n - 1) : t[j] = s[j + 1]
  OBVIOUS
<1>2. /\ \A j \in 1..(n - 1) : j + 1 \in 1..n /\ j + 1 # 1
      /\ \A j \in 1..n : j = 1 \/ (j - 1 \in 1..(n - 1) /\ (j - 1) + 1 = j)
      /\ 1 \in 1..n
  BY <1>1
<1> HIDE DEF t, n
<1>3. ASSUME NEW j \in DOMAIN t PROVE \E k \in DOMAIN s : k # 1 /\ t[j] = s[k]
  BY <1>1, <1>2, Zenon
<1>4. ASSUME NEW k \in DOMAIN s, k # 1 PROVE \E j \in DOMAIN t : t[j] = s[k]
  <2>1. k - 1 \in DOMAIN t /\ t[k - 1] = s[k]
    BY <1>1, <1>2, <1>4, Zenon
  <2> QED
    BY <2>1, Zenon
<1> QED
  BY <1>1, <1>2, <1>3, <1>4, Zenon DEF t

(* The manifest of the object is found, and there is no other level.        *)
LEMMA TopKeeps ==
    ASSUME NEW q \in ObjectSlices, NEW from, NEW v \in Version1, New(from, q.object, v), NEW found,
           Resolved(ObjectManifest(q.object, v), Targets(q.slices), 0, Targets(q.slices), found),
           NEW work, NEW i, \A j \in DOMAIN work : work[j].i # i
    PROVE  Progress(q, from, <<>> \o found, work, i)
<1>1. <<>> \o found = found
  <2>1. PICK S : found \in Seq(S)
    BY Zenon DEF Resolved
  <2> QED
    BY <2>1
<1>2. LocsOk(q, v, found) /\ \A b \in 0..(Size(q.slices) - 1) : Shows(found, b)
  BY TopShows, Zenon
<1> QED
  BY <1>1, <1>2, Zenon DEF Progress, Partly

(* A sequence before another one.                                           *)
Both(s, t, u) ==
    /\ \A j \in DOMAIN u : (\E k \in DOMAIN s : u[j] = s[k]) \/ (\E k \in DOMAIN t : u[j] = t[k])
    /\ \A k \in DOMAIN s : \E j \in DOMAIN u : u[j] = s[k]
(* A concatenation has the elements of both.                                *)
LEMMA BothIs ==
    ASSUME NEW S, NEW s \in Seq(S), NEW t \in Seq(S)
    PROVE  Both(s, t, s \o t)
<1> DEFINE u == s \o t
           n == Len(s)
<1>1. /\ Len(u) = n + Len(t) /\ Len(t) \in Nat /\ n \in Nat
      /\ DOMAIN u = 1..Len(u) /\ DOMAIN t = 1..Len(t) /\ DOMAIN s = 1..n
  OBVIOUS
<1>2. /\ \A j \in 1..n : u[j] = s[j]
      /\ \A j \in 1..Len(t) : u[n + j] = t[j]
  OBVIOUS
<1> HIDE DEF u, n
<1>3. /\ \A j \in 1..n : j \in 1..Len(u)
      /\ \A j \in 1..Len(u) : j \in 1..n \/ (j - n \in 1..Len(t) /\ n + (j - n) = j)
  BY <1>1
<1> QED
  BY <1>1, <1>2, <1>3, Zenon DEF Both, u

(* The look-ups at the next level for what was found.                       *)
Lower(found, below, i) ==
    /\ DOMAIN below = DOMAIN found
    /\ \A j \in DOMAIN found :
         /\ below[j].i = i /\ below[j].level = 2 /\ below[j].name = CacheName(found[j])
         /\ below[j].slices = <<[offset |-> found[j].offset, size |-> found[j].length,
                                 target |-> found[j].target]>>

(* It is found, and its fragments are to be looked up at the next level.    *)
LEMMA TopDescends ==
    ASSUME NEW q \in ObjectSlices, NEW from, NEW v \in Version1, New(from, q.object, v), NEW found,
           Resolved(ObjectManifest(q.object, v), Targets(q.slices), 0, Targets(q.slices), found),
           NEW work, NEW below, NEW u, NEW i, Gone(work, i), Lower(found, below, i),
           Both(below, work, u)
    PROVE  Progress(q, from, <<>>, u, i)
<1> DEFINE t == Targets(q.slices)
           o == q.object
<1>1. \A b \in 0..(Size(q.slices) - 1) : Shows(found, b)
  BY TopShows, Zenon
<1>2. ASSUME NEW j \in DOMAIN found
      PROVE  /\ Below(t, o, v, below[j]) /\ below[j].i = i
             /\ below[j].slices[1].target = found[j].target
             /\ below[j].slices[1].size = found[j].length
  <2>1. Placed(ObjectManifest(o, v), t, 0, found[j])
    BY Zenon DEF Resolved
  <2>2. /\ below[j].i = i /\ below[j].level = 2 /\ below[j].name = CacheName(found[j])
        /\ below[j].slices = <<[offset |-> found[j].offset, size |-> found[j].length,
                                target |-> found[j].target]>>
    BY Zenon DEF Lower
  <2>3. PICK w, l : w = below[j] /\ l = found[j]
    BY Zenon
  <2>4. /\ w.level = 2 /\ w.name = CacheName(l) /\ Placed(ObjectManifest(o, v), t, 0, l)
        /\ w.slices = <<[offset |-> l.offset, size |-> l.length, target |-> l.target]>>
    BY <2>1, <2>2, <2>3, Zenon
  <2> HIDE DEF t, o
  <2>5. /\ Below(t, o, v, w)
        /\ w.slices[1].target = l.target /\ w.slices[1].size = l.length
    BY <2>4, BelowIs
  <2> QED
    BY <2>2, <2>3, <2>5, Zenon
<1>3. ASSUME NEW j \in DOMAIN u, u[j].i = i PROVE Below(t, o, v, u[j])
  <2>1. PICK k \in DOMAIN below : u[j] = below[k]
    BY <1>3, Zenon DEF Both, Gone
  <2>2. k \in DOMAIN found
    BY Zenon DEF Lower
  <2> HIDE DEF t, o
  <2> QED
    BY <1>2, <2>1, <2>2, Zenon
<1>4. ASSUME NEW b \in 0..(Size(q.slices) - 1) PROVE Awaits(u, i, b)
  <2>1. PICK k \in DOMAIN found : Covers(found[k], b)
    BY <1>1, Zenon DEF Shows
  <2>2. PICK j \in DOMAIN u : u[j] = below[k]
    BY Zenon DEF Both, Lower
  <2>3. u[j].slices[1].target = found[k].target /\ u[j].slices[1].size = found[k].length /\ u[j].i = i
    BY <1>2, <2>2, Zenon
  <2>4. /\ u[j].slices[1].target <= b
        /\ b < u[j].slices[1].target + u[j].slices[1].size
    BY <2>1, <2>3, Zenon DEF Covers
  <2> QED
    BY <2>3, <2>4, Zenon DEF Awaits
<1>5. LocsOk(q, v, <<>>)
  <2>1. <<>> \in Seq({}) /\ DOMAIN <<>> = {}
    OBVIOUS
  <2> QED
    BY <2>1, Zenon DEF LocsOk
<1> QED
  BY <1>3, <1>4, <1>5, Zenon DEF Progress, Partly

(* A fragment is found at the last level.                                   *)
LEMMA LastKeeps ==
    ASSUME NEW q \in ObjectSlices, NEW v \in Version1, NEW ls, NEW S, NEW work \in Seq(S), NEW i,
           Partly(q, ls, work, i, v), work # <<>>, work[1].i = i, NEW found,
           AllInside(CacheManifest(work[1].name), work[1].slices),
           found = resolve(CacheManifest(work[1].name), work[1].slices)
    PROVE  Partly(q, ls \o found, Tail(work), i, v)
<1> DEFINE t == Targets(q.slices)
           o == q.object
           w == work[1]
           mf == CacheManifest(w.name)
           rest == Tail(work)
           all == ls \o found
<1>1. /\ 1 \in DOMAIN work
      /\ \A j \in DOMAIN rest : \E k \in DOMAIN work : k # 1 /\ rest[j] = work[k]
      /\ \A k \in DOMAIN work : k = 1 \/ \E j \in DOMAIN rest : rest[j] = work[k]
  BY RestIs, Zenon
<1>2. Below(t, o, v, w)
  BY <1>1, Zenon DEF Partly
<1>3. PICK c \in DOMAIN Layout(v).sizes, f \in 1..Layout(v).k, x \in Slice :
        /\ w.name = <<o, v, c, f>> /\ w.slices = <<x>>
        /\ SliceRight(t, Start(ObjectManifest(o, v), c, f), x)
  BY <1>2, Zenon DEF Below
<1> DEFINE shift == Start(ObjectManifest(o, v), c, f)
<1>4. IsManifest(mf, <<o, v, c, f>>, o, v, shift)
  BY <1>3, CacheManifestIs, Zenon
<1>5. <<x>> \in Seq(Slice) /\ DOMAIN <<x>> = {1} /\ <<x>>[1] = x
  OBVIOUS
<1>6. \A j \in DOMAIN w.slices : SliceRight(t, shift, w.slices[j])
  <2> HIDE DEF w, shift, t
  <2> QED
    BY <1>3, <1>5, Zenon DEF t, shift
<1>7. Resolved(mf, t, shift, w.slices, found)
  <2>1. IsLayout(mf) /\ shift \in Int /\ w.slices \in Seq(Slice)
    BY <1>3, <1>4, <1>5, Zenon DEF IsManifest
  <2>2. AllInside(mf, w.slices) /\ found = resolve(mf, w.slices)
    BY Zenon
  <2> HIDE DEF mf, shift, w, t
  <2> QED
    BY <1>6, <2>1, <2>2, ResolvedIs, Zenon
<1>8. \A j \in DOMAIN found : LocRight(t, o, v, found[j])
  BY <1>4, <1>7, Zenon DEF Resolved, LocRight
<1>9. PICK U : Joined(U, ls, found, all)
  <2>1. PICK A : ls \in Seq(A)
    BY Zenon DEF Partly, LocsOk
  <2>2. PICK B : found \in Seq(B)
    BY <1>7, Zenon DEF Resolved
  <2>3. ls \in Seq(A \union B) /\ found \in Seq(A \union B)
    BY <2>1, <2>2
  <2> QED
    BY <2>3, JoinedIs, Zenon
<1> HIDE DEF all, rest, mf, shift, t
<1>10. LocsOk(q, v, all)
  <2>1. \A j \in DOMAIN ls : LocRight(t, o, v, ls[j])
    BY Zenon DEF Partly, LocsOk, t
  <2> QED
    BY <1>8, <1>9, <2>1, Zenon DEF LocsOk, Joined, t
<1>11. ASSUME NEW j \in DOMAIN rest, rest[j].i = i PROVE Below(t, o, v, rest[j])
  BY <1>1, <1>11, Zenon DEF Partly, t
<1>12. ASSUME NEW b \in 0..(Size(q.slices) - 1) PROVE Shows(all, b) \/ Awaits(rest, i, b)
  <2>1. CASE Shows(ls, b)
    <3>1. PICK j \in DOMAIN ls : Covers(ls[j], b)
      BY <2>1, Zenon DEF Shows
    <3>2. PICK k \in DOMAIN all : all[k] = ls[j]
      BY <1>9, Zenon DEF Joined
    <3> QED
      BY <3>1, <3>2, Zenon DEF Shows
  <2>2. CASE Awaits(work, i, b)
    <3>1. PICK k \in DOMAIN work : /\ work[k].i = i /\ work[k].slices[1].target <= b
                                   /\ b < work[k].slices[1].target + work[k].slices[1].size
      BY <2>2, Zenon DEF Awaits
    <3>2. CASE k = 1
      <4>1. w.slices[1].target <= b /\ b < w.slices[1].target + w.slices[1].size
        BY <3>1, <3>2, Zenon
      <4>2. 1 \in DOMAIN w.slices
        <5> HIDE DEF w
        <5> QED
          BY <1>3, <1>5, Zenon
      <4>3. b \in Int
        OBVIOUS
      <4>4. PICK j \in DOMAIN found : Covers(found[j], b)
        BY <1>7, <4>1, <4>2, <4>3, Zenon DEF Resolved
      <4>5. PICK l \in DOMAIN all : all[l] = found[j]
        BY <1>9, Zenon DEF Joined
      <4> QED
        BY <4>4, <4>5, Zenon DEF Shows
    <3>3. CASE k # 1
      <4>1. PICK j \in DOMAIN rest : rest[j] = work[k]
        BY <1>1, <3>3, Zenon
      <4> QED
        BY <3>1, <4>1, Zenon DEF Awaits
    <3> QED
      BY <3>2, <3>3, Zenon
  <2> QED
    BY <2>1, <2>2, Zenon DEF Partly
<1> QED
  BY <1>10, <1>11, <1>12, Zenon DEF Partly, all, rest, t

-----------------------------------------------------------------------------
(* The inductive invariant.                                                 *)

(* Where a call is: a call that waits for an update of OsdAccess is where   *)
(* it wanted to go on.                                                      *)
Updating == {"update", "wait", "fill", "ask", "push"}
Phase(r) == IF r.pc \in Updating THEN r.ret ELSE r.pc
Resting == {"idle", "undefined"}
Reading == {"levels", "copy", "resolve", "read", "decrypt", "lookup", "get"}
Storing == {"process", "first", "add", "insert"}
first_of(r) == CHOOSE i \in r.via : \A j \in r.via : i <= j

(* What a call has in its fields: all it has found is right.                *)
Resolving(r) ==
    /\ Len(r.lv) \in 1..2 /\ r.locs = [i \in DOMAIN r.req |-> r.locs[i]]
    /\ \E S : r.work \in Seq(S)
    /\ \A j \in DOMAIN r.work : r.work[j].i \in DOMAIN r.req \ r.via
    /\ \A i \in DOMAIN r.req \ r.via : Progress(r.req[i], r.from, r.locs[i], r.work, i)
Located(r) ==
    /\ r.locs = [i \in DOMAIN r.req |-> r.locs[i]]
    /\ \A i \in DOMAIN r.req \ r.via : Whole(r.req[i], r.from, r.locs[i])
Fetched(r, I) == \A i \in I : GotOk(r.req[i], r.from, r.got[i])
ReadOk(r) ==
    /\ r.wrong # "bytes" /\ (OnlyQuiet => r.wrong # "version")
    /\ r.req \in Seq(ObjectSlices)
    /\ r.pc \in Updating => r.ret \in {"copy", "read", "first"}
    /\ Phase(r) \in Reading => /\ r.req # <<>> /\ r.via \subseteq DOMAIN r.req
                               /\ r.got = [i \in DOMAIN r.req |-> r.got[i]]
    /\ Phase(r) \in {"levels", "copy"} => r.via = {} /\ r.locs = [i \in DOMAIN r.req |-> <<>>]
    /\ Phase(r) = "resolve" => Resolving(r)
    /\ Phase(r) \in {"read", "decrypt"} => Located(r)
    /\ Phase(r) \in {"lookup", "get"} => r.via # {} /\ Fetched(r, DOMAIN r.req \ r.via)
    /\ Phase(r) \in Storing => Fetched(r, DOMAIN r.req) /\ r.infos # <<>>
    /\ Phase(r) \in {"change", "changed", "invalidate"} => r.req = <<>>
    /\ Phase(r) \in Resting => r.infos = <<>>

(* What later reads have to see of object o.                                *)
Least(fl, o) == IF OnlyQuiet THEN fl[o] ELSE 0

(* A manifest as the proxy sends it, of an object or of a cached fragment.  *)
Sent(fl, mf) ==
    \/ \E o \in Object, v \in Version1 : mf = ObjectManifest(o, v) /\ Least(fl, o) <= v
    \/ \E o \in Object, v \in Version1 : \E c \in DOMAIN Layout(v).sizes, f \in 1..Layout(v).k :
         mf = CacheManifest(<<o, v, c, f>>)

(* An entry of the manifest cache, and what _process has still to store.    *)
EntryOk(fl, be, e) ==
    /\ e.key = <<e.key[1], e.key[2]>> /\ Sent(fl, e.mf)
    /\ \A o \in Object : e.mf.name = <<o>> => e.key[1] = be[1]
InfoOk(fl, be, info) ==
    /\ info = [alba |-> info.alba, mf |-> info.mf] /\ Sent(fl, info.mf)
    /\ \A o \in Object : info.mf.name = <<o>> => info.alba \in {"", be[1]}
Zero(m) == \A x \in Object : m[x] = 0
Marks(m, o) == o \in Object /\ m[o] \in Version1 /\ \A x \in Object : x # o => m[x] = 0

(* What a call relies on that others change.                                *)
SeenOk(fl, la, be, r) ==
    /\ r.from \in [Object -> Nat] /\ r.mark \in [Object -> Nat]
    /\ \A o \in Object : r.from[o] <= fl[o] /\ r.mark[o] <= la[o]
    /\ \E S : r.infos \in Seq(S)
    /\ \A j \in DOMAIN r.infos : InfoOk(fl, be, r.infos[j])
    /\ Phase(r) \in {"add", "insert"} =>
         \A o \in Object : r.infos[1].mf.name = <<o>> => r.infos[1].alba = be[1]
    /\ Phase(r) = "get" => r.mf \in Version1 /\ Least(fl, r.req[first_of(r)].object) <= r.mf
    /\ Phase(r) \in Reading => Zero(r.mark)
    /\ Phase(r) = "change" => Zero(r.mark) /\ \E o \in Object : r.work = <<o>>
    /\ Phase(r) = "changed" =>
         \E o \in Object : r.work = <<o>> /\ Marks(r.mark, o) /\ Least(fl, o) <= r.mark[o]
    /\ Phase(r) \in Storing =>
         \/ Zero(r.mark)
         \/ \E o \in Object : Marks(r.mark, o) /\ r.infos[Len(r.infos)].mf = ObjectManifest(o, r.mark[o])

(* What only the calls that have the process for themselves rely on.        *)
QuietOk(ca, kn, ep, r) ==
    /\ Phase(r) \in Storing => /\ \A o \in Object : kn[o] = 0 \/ r.mark[o] <= kn[o]
                               /\ \A e \in ep : r.mark[e.object] <= e.version
    /\ Phase(r) \in {"change", "changed", "invalidate"} => ep = {}
    /\ Phase(r) = "insert" => r.mcp = "shared"
    /\ Phase(r) = "invalidate" /\ r.kind = "invalidate" => ca = <<>>

(* What an upload's epilogue will cache.                                    *)
EpilogueOk(fl, e) ==
    /\ e = [x \in {"object", "version", "updated"} |-> e[x]]
    /\ e.object \in Object /\ e.version \in Version1 /\ Least(fl, e.object) <= e.version

(* What the proxy and both caches hold, and the invariant.                  *)
World ==
    /\ last \in [Object -> Version1] /\ floor \in [Object -> Nat] /\ known \in [Object -> Nat]
    /\ \A o \in Object : floor[o] <= last[o] /\ (known[o] # 0 => Least(floor, o) <= known[o])
    /\ \A e \in epilogues : EpilogueOk(floor, e)
    /\ \A j \in DOMAIN mc : EntryOk(floor, backend, mc[j])
QuietInv ==
    \A c \in quiet : /\ c \in Client /\ QuietOk(mc, known, epilogues, th[c])
                     /\ \A d \in Client : d # c => th[d].pc \in Resting
ReadInv ==
    /\ World /\ QuietInv
    /\ \A c \in Client : ReadOk(th[c]) /\ SeenOk(floor, last, backend, th[c])

(* What is proved before.                                                   *)
Base == RoraInv /\ CacheInv
-----------------------------------------------------------------------------
(* Calls that are alike in what the invariant says of them.                 *)
Alike(r, s) ==
    /\ Phase(r) = Phase(s)
    /\ r.wrong = s.wrong /\ r.req = s.req /\ r.via = s.via /\ r.locs = s.locs /\ r.got = s.got
    /\ r.lv = s.lv /\ r.work = s.work /\ r.from = s.from /\ r.mark = s.mark /\ r.infos = s.infos
    /\ r.mf = s.mf /\ r.mcp = s.mcp /\ r.kind = s.kind
(* The invariant does not tell such calls apart.                            *)
LEMMA AlikeOk ==
    ASSUME NEW r, NEW s, Alike(r, s), s.pc \in Updating => s.ret \in {"copy", "read", "first"},
           NEW fl, NEW la, NEW be, ReadOk(r), SeenOk(fl, la, be, r)
    PROVE  /\ ReadOk(s) /\ SeenOk(fl, la, be, s)
           /\ \A ca, kn, ep : QuietOk(ca, kn, ep, r) => QuietOk(ca, kn, ep, s)
<1>1. ReadOk(s)
  BY Zenon DEF Alike, ReadOk, Resolving, Located, Fetched
<1>2. SeenOk(fl, la, be, s)
  <2>1. first_of(s) = first_of(r)
    BY Zenon DEF Alike, first_of
  <2> QED
    BY <2>1, Zenon DEF Alike, SeenOk
<1>3. \A ca, kn, ep : QuietOk(ca, kn, ep, r) => QuietOk(ca, kn, ep, s)
  BY Zenon DEF Alike, QuietOk
<1> QED
  BY <1>1, <1>2, <1>3, Zenon

(* All else may change.                                                     *)
LEMMA WorldSame ==
    ASSUME World, UNCHANGED <<last, floor, known, epilogues, backend, mc>>
    PROVE  World'
BY Zenon DEF World

(* A call relies on no version not being written.                           *)
LEMMA SeenMore ==
    ASSUME NEW fl, NEW la \in [Object -> Version1], NEW lb \in [Object -> Version1],
           \A o \in Object : la[o] <= lb[o], NEW be, NEW r, SeenOk(fl, la, be, r)
    PROVE  SeenOk(fl, lb, be, r)
<1>1. ASSUME NEW o \in Object PROVE r.mark[o] <= lb[o]
  <2>1. r.mark[o] \in Nat /\ r.mark[o] <= la[o]
    BY Zenon DEF SeenOk
  <2>2. la[o] \in Version1 /\ lb[o] \in Version1 /\ la[o] <= lb[o]
    BY Zenon
  <2> QED
    BY <2>1, <2>2 DEF Version1
<1> QED
  BY <1>1, Zenon DEF SeenOk

(* A step of call c leaves the others as they were.                         *)
LEMMA GoesIs ==
    ASSUME RoraInv, NEW c \in Client, NEW r, Goes(c, r)
    PROVE  \A d \in Client : th'[d] = IF d = c THEN r ELSE th[d]
BY Zenon DEF RoraInv, CallsInv, Goes

(* Only the call itself may be one that has the process for itself.         *)
LEMMA OnlyItself ==
    ASSUME ReadInv, NEW c \in Client, th[c].pc \notin Resting
    PROVE  quiet \subseteq {c}
BY Zenon DEF ReadInv, QuietInv

(* A step of one call, after which later reads have to see what they had to *)
(* see before.                                                              *)
LEMMA CallMoves ==
    ASSUME Base, ReadInv, NEW c \in Client, NEW r, Goes(c, r), th[c].pc \notin Resting,
           World', UNCHANGED <<floor, backend, quiet>>, \A o \in Object : last[o] <= last'[o],
           ReadOk(r), SeenOk(floor, last', backend, r),
           c \in quiet => QuietOk(mc', known', epilogues', r)
    PROVE  ReadInv'
<1>1. \A d \in Client : th'[d] = IF d = c THEN r ELSE th[d]
  BY GoesIs, Zenon DEF Base
<1>2. quiet' \subseteq {c}
  BY OnlyItself, Zenon
<1>3. last \in [Object -> Version1] /\ last' \in [Object -> Version1]
  BY Zenon DEF World, ReadInv
<1>4. ASSUME NEW d \in Client
      PROVE  ReadOk(th'[d]) /\ SeenOk(floor', last', backend', th'[d])
  <2>1. CASE d = c
    BY <1>1, <2>1, Zenon
  <2>2. CASE d # c
    <3>1. ReadOk(th[d]) /\ SeenOk(floor, last, backend, th[d])
      BY Zenon DEF ReadInv
    <3>2. SeenOk(floor, last', backend, th[d])
      BY <1>3, <3>1, SeenMore, Zenon
    <3> QED
      BY <1>1, <2>2, <3>1, <3>2, Zenon
  <2> QED
    BY <2>1, <2>2, Zenon
<1>5. QuietInv'
  <2>1. ASSUME NEW e \in quiet'
        PROVE  /\ e \in Client /\ QuietOk(mc', known', epilogues', th'[e])
               /\ \A d \in Client : d # e => th'[d].pc \in Resting
    <3>1. e = c /\ c \in quiet
      BY <1>2, <2>1, Zenon
    <3>2. \A d \in Client : d # c => th[d].pc \in Resting
      BY <3>1, Zenon DEF ReadInv, QuietInv
    <3> QED
      BY <1>1, <3>1, <3>2, Zenon
  <2> QED
    BY <2>1, Zenon DEF QuietInv
<1> QED
  BY <1>4, <1>5, Zenon DEF ReadInv

(* A call that ends.                                                        *)
Rests(r) ==
    /\ IsCall(r) /\ r.pc \in Resting /\ r.req = <<>> /\ r.infos = <<>> /\ r.mcp = "none"
    /\ r.from = [o \in Object |-> 0] /\ r.mark = [o \in Object |-> 0]
    /\ r.wrong # "bytes" /\ (OnlyQuiet => r.wrong # "version")
(* Such a call keeps the invariant, whatever the state.                     *)
LEMMA RestsOk ==
    ASSUME NEW r, Rests(r), NEW fl \in [Object -> Nat], NEW la \in [Object -> Version1], NEW be
    PROVE  ReadOk(r) /\ SeenOk(fl, la, be, r) /\ \A ca, kn, ep : QuietOk(ca, kn, ep, r)
<1>1. /\ Phase(r) \in Resting /\ r.pc \notin Updating /\ Phase(r) \notin Reading
      /\ Phase(r) \notin Storing
      /\ Phase(r) \notin {"levels", "copy", "resolve", "read", "decrypt", "lookup", "get",
                          "change", "changed", "invalidate", "add", "insert"}
  BY Zenon DEF Rests, Resting, Phase, Updating, Reading, Storing
<1>2. <<>> \in Seq(ObjectSlices) /\ DOMAIN <<>> = {}
  OBVIOUS
<1>3. ReadOk(r)
  BY <1>1, <1>2, Zenon DEF ReadOk, Rests
<1>4. ASSUME NEW o \in Object PROVE 0 <= fl[o] /\ 0 <= la[o]
  <2>1. fl[o] \in Nat /\ la[o] \in Version1
    BY Zenon
  <2> QED
    BY <2>1 DEF Version1
<1>5. SeenOk(fl, la, be, r)
  <2>1. r.from \in [Object -> Nat] /\ r.mark \in [Object -> Nat]
    BY 0 \in Nat, Zenon DEF Rests
  <2>2. \A o \in Object : r.from[o] <= fl[o] /\ r.mark[o] <= la[o]
    BY <1>4, Zenon DEF Rests
  <2> QED
    BY <1>1, <1>2, <2>1, <2>2, Zenon DEF SeenOk, Rests
<1>6. \A ca, kn, ep : QuietOk(ca, kn, ep, r)
  BY <1>1, Zenon DEF QuietOk
<1> QED
  BY <1>3, <1>5, <1>6, Zenon

(* Calls that end without an answer to check.                               *)
LEMMA FreshRests ==
    ASSUME NEW r
    PROVE  /\ Rests(Fresh(r)) /\ Rests(Thrown(r))
           /\ \A why : why \notin {"bytes", "version"} =>
                Rests([Fresh(r) EXCEPT !.pc = "undefined", !.wrong = why])
<1>1. /\ IsCall(Idle) /\ Idle.pc = "idle" /\ Idle.wrong = "nothing" /\ Idle.req = <<>>
      /\ Idle.infos = <<>> /\ Idle.mcp = "none" /\ Idle.from = [o \in Object |-> 0]
      /\ Idle.mark = [o \in Object |-> 0]
  BY Zenon DEF IsCall, Fields, Idle
<1>2. /\ IsCall(Fresh(r)) /\ Fresh(r).pc = "idle" /\ Fresh(r).wrong = "nothing"
      /\ Fresh(r).req = <<>> /\ Fresh(r).infos = <<>> /\ Fresh(r).mcp = "none"
      /\ Fresh(r).from = [o \in Object |-> 0] /\ Fresh(r).mark = [o \in Object |-> 0]
  BY <1>1, SomeFields, Zenon DEF Fresh, IsCall
<1>3. Rests(Fresh(r))
  BY <1>2, Zenon DEF Rests, Resting
<1>4. ASSUME NEW why, why \notin {"bytes", "version"}
      PROVE  Rests([Fresh(r) EXCEPT !.pc = "undefined", !.wrong = why])
  BY <1>2, <1>4, SomeFields, Zenon DEF Rests, Resting, IsCall
<1> QED
  BY <1>3, <1>4, Zenon DEF Thrown

(* A call that ends changes nothing for others.                             *)
LEMMA CallEnds ==
    ASSUME Base, ReadInv, NEW c \in Client, NEW r, Goes(c, r), th[c].pc \notin Resting, Rests(r),
           World', UNCHANGED <<floor, backend, quiet>>, \A o \in Object : last[o] <= last'[o]
    PROVE  ReadInv'
<1>1. floor \in [Object -> Nat] /\ last' \in [Object -> Version1]
  BY Zenon DEF World, ReadInv
<1>2. ReadOk(r) /\ SeenOk(floor, last', backend, r) /\ QuietOk(mc', known', epilogues', r)
  BY <1>1, RestsOk, Zenon
<1> QED
  BY <1>2, CallMoves, Zenon

(* What a buffer that is right looks like to who checks it.                 *)
Shown(q, v, got) ==
    /\ Len(got) = Size(Targets(q.slices)) /\ got[1][2] = v
    /\ \A x \in Elements(Targets(q.slices)) : \A n \in 0..(x.size - 1) :
         got[x.target + n + 1] = <<q.object, v, x.offset + n>>
(* The bytes that are right are the ones Right and NewEnough look for.      *)
LEMMA RightIsShown ==
    ASSUME NEW q \in ObjectSlices, NEW v, NEW got, GotRight(q.slices, q.object, v, got)
    PROVE  Shown(q, v, got)
<1> DEFINE s == q.slices
           t == Targets(s)
           n == Size(s)
<1>1. s \in Seq(Asked) /\ s # <<>>
  BY Zenon DEF ObjectSlices, Asked
<1>2. Tiles(s, t) /\ Buffer(t, n) /\ n \in Nat
  BY <1>1, TargetsAre, BufferIs, Zenon
<1>3. Size(t) = n
  <2>1. Size(t) = totals(Sizes(t))[Len(t)] /\ n = totals(Sizes(s))[Len(s)]
    BY <1>1, <1>2, SizesAre, Zenon DEF Tiles
  <2>2. Sizes(t) = Sizes(s)
    BY <1>2, Zenon DEF Tiles, Sizes
  <2> QED
    BY <1>2, <2>1, <2>2, Zenon DEF Tiles
<1>4. \A i \in DOMAIN t : SliceRight(t, 0, t[i])
  BY <1>1, TargetsRight, Zenon
<1>5. Len(got) = n /\ \A b \in 0..(n - 1) : \A p : At(t, b, p) => got[b + 1] = <<q.object, v, p>>
  BY Zenon DEF GotRight
<1> HIDE DEF t, n, s
<1>6. ASSUME NEW i \in DOMAIN t, NEW m \in 0..(t[i].size - 1)
      PROVE  got[t[i].target + m + 1] = <<q.object, v, t[i].offset + m>> /\ 1 <= n
  <2>1. /\ t[i] \in Slice /\ At(t, t[i].target + m, 0 + (t[i].offset + m))
    BY <1>4, Zenon DEF SliceRight
  <2>2. t[i].target + m \in Int /\ 0 + (t[i].offset + m) = t[i].offset + m
    BY <2>1 DEF Slice
  <2>3. t[i].target + m \in 0..(n - 1)
    BY <1>2, <2>1, <2>2, Zenon DEF Buffer
  <2>4. 1 <= n
    BY <1>2, <2>3
  <2> QED
    BY <1>5, <2>1, <2>2, <2>3, <2>4, Zenon
<1>7. got[1][2] = v
  <2>1. 1 \in DOMAIN t
    <3>1. DOMAIN s = 1..Len(s) /\ Len(s) \in Nat /\ Len(s) # 0
      BY <1>1
    <3> QED
      BY <1>2, <3>1 DEF Tiles
  <2>2. 0 \in 0..(t[1].size - 1)
    <3>1. t[1] \in Slice
      BY <1>4, <2>1, Zenon DEF SliceRight
    <3> QED
      BY <3>1 DEF Slice
  <2>3. 0 \in 0..(n - 1) /\ 0 + 1 = 1
    <3>1. 1 <= n
      BY <1>6, <2>1, <2>2, Zenon
    <3> QED
      BY <1>2, <3>1
  <2>4. PICK i \in DOMAIN t : t[i].target <= 0 /\ 0 < t[i].target + t[i].size
    BY <1>2, <2>3, Zenon DEF Buffer
  <2>5. At(t, 0, t[i].offset + (0 - t[i].target))
    BY <2>4, Zenon DEF At
  <2>6. got[1] = <<q.object, v, t[i].offset + (0 - t[i].target)>>
    BY <1>5, <2>3, <2>5, Zenon
  <2> QED
    BY <2>6
<1>8. ASSUME NEW x \in Elements(t), NEW m \in 0..(x.size - 1)
      PROVE  got[x.target + m + 1] = <<q.object, v, x.offset + m>>
  <2>1. PICK i \in DOMAIN t : x = t[i]
    BY <1>8, Zenon DEF Elements
  <2> QED
    BY <1>6, <1>8, <2>1, Zenon
<1>9. Len(got) = Size(t)
  BY <1>3, <1>5, Zenon
<1> QED
  BY <1>7, <1>8, <1>9, Zenon DEF Shown, s, t

(* A read that has all its buffers returns what it was asked for.           *)
LEMMA ReturnedRests ==
    ASSUME NEW r, r.req \in Seq(ObjectSlices), Fetched(r, DOMAIN r.req)
    PROVE  Rests(Returned(r))
<1>1. ASSUME NEW i \in DOMAIN r.req
      PROVE  \E v : New(r.from, r.req[i].object, v) /\ Shown(r.req[i], v, r.got[i])
  <2>1. r.req[i] \in ObjectSlices
    OBVIOUS
  <2>2. GotOk(r.req[i], r.from, r.got[i])
    BY Zenon DEF Fetched
  <2> QED
    BY <2>1, <2>2, RightIsShown, Zenon DEF GotOk
<1>2. Right(r)
  <2>1. ASSUME NEW i \in DOMAIN r.req
        PROVE  LET slices == Targets(r.req[i].slices)
               IN  /\ Len(r.got[i]) = Size(slices)
                   /\ \A s \in Elements(slices) : \A n \in 0..(s.size - 1) :
                        r.got[i][s.target + n + 1]
                          = <<r.req[i].object, Version(r, i), s.offset + n>>
    <3>1. PICK v : Shown(r.req[i], v, r.got[i])
      BY <1>1, Zenon
    <3> QED
      BY <3>1, Zenon DEF Shown, Version
  <2> QED
    BY <2>1, Zenon DEF Right
<1>3. ASSUME OnlyQuiet PROVE NewEnough(r)
  <2>1. ASSUME NEW i \in DOMAIN r.req PROVE Version(r, i) >= r.from[r.req[i].object]
    <3>1. PICK v : New(r.from, r.req[i].object, v) /\ Shown(r.req[i], v, r.got[i])
      BY <1>1, Zenon
    <3>2. Version(r, i) = v /\ r.from[r.req[i].object] <= v
      BY <1>3, <3>1, Zenon DEF Shown, Version, New
    <3> QED
      BY <3>2
  <2> QED
    BY <2>1, Zenon DEF NewEnough
<1> DEFINE w == IF ~Right(r) THEN "bytes" ELSE IF ~NewEnough(r) THEN "version" ELSE "nothing"
<1>4. /\ Returned(r) = [Fresh(r) EXCEPT !.wrong = w]
      /\ w # "bytes" /\ (OnlyQuiet => w # "version")
  BY <1>2, <1>3, Zenon DEF Returned
<1> HIDE DEF w
<1>5. Rests(Fresh(r))
  BY FreshRests, Zenon
<1>6. Rests([Fresh(r) EXCEPT !.wrong = w])
  BY <1>4, <1>5, SomeFields, Zenon DEF Rests, Resting, IsCall
<1> QED
  BY <1>4, <1>6, Zenon

(* A read between its steps: what does not depend on where it is.           *)
Sound(r) ==
    /\ IsCall(r) /\ r.wrong # "bytes" /\ (OnlyQuiet => r.wrong # "version")
    /\ r.req \in Seq(ObjectSlices) /\ r.req # <<>> /\ r.via \subseteq DOMAIN r.req
    /\ r.got = [i \in DOMAIN r.req |-> r.got[i]]
(* What a read relies on that others change, wherever it is.                *)
Current(fl, la, be, r) ==
    /\ r.from \in [Object -> Nat] /\ r.mark \in [Object -> Nat] /\ Zero(r.mark)
    /\ \A o \in Object : r.from[o] <= fl[o] /\ r.mark[o] <= la[o]
    /\ \E S : r.infos \in Seq(S)
    /\ \A j \in DOMAIN r.infos : InfoOk(fl, be, r.infos[j])
(* For a call that reads, that is all it relies on.                         *)
LEMMA CurrentIs ==
    ASSUME NEW fl, NEW la, NEW be, NEW r, Phase(r) \in Reading
    PROVE  /\ SeenOk(fl, la, be, r) => Current(fl, la, be, r)
           /\ Phase(r) # "get" /\ Current(fl, la, be, r) => SeenOk(fl, la, be, r)
           /\ \A ca, kn, ep : QuietOk(ca, kn, ep, r)
           /\ IsCall(r) /\ ReadOk(r) => Sound(r)
<1>1. Phase(r) \notin {"add", "insert", "change", "changed", "invalidate"} /\ Phase(r) \notin Storing
  BY Zenon DEF Reading, Storing
<1>2. SeenOk(fl, la, be, r) => Current(fl, la, be, r)
  BY Zenon DEF SeenOk, Current
<1>3. Phase(r) # "get" /\ Current(fl, la, be, r) => SeenOk(fl, la, be, r)
  BY <1>1, Zenon DEF SeenOk, Current
<1>4. \A ca, kn, ep : QuietOk(ca, kn, ep, r)
  BY <1>1, Zenon DEF QuietOk
<1>5. IsCall(r) /\ ReadOk(r) => Sound(r)
  BY Zenon DEF ReadOk, Sound
<1> QED
  BY <1>2, <1>3, <1>4, <1>5, Zenon

(* Going on through the proxy.                                              *)
LEMMA LookupOk ==
    ASSUME NEW r, Sound(r), r.pc = "lookup", r.via # {}, Fetched(r, DOMAIN r.req \ r.via),
           NEW fl, NEW la, NEW be, Current(fl, la, be, r)
    PROVE  ReadOk(r) /\ SeenOk(fl, la, be, r) /\ \A ca, kn, ep : QuietOk(ca, kn, ep, r)
<1>1. /\ Phase(r) = "lookup" /\ r.pc \notin Updating /\ Phase(r) \in Reading
      /\ Phase(r) \notin Storing /\ Phase(r) \notin Resting
  BY Zenon DEF Phase, Updating, Reading, Storing, Resting
<1>2. ReadOk(r)
  BY <1>1, Zenon DEF ReadOk, Sound
<1> QED
  BY <1>1, <1>2, CurrentIs, Zenon

-----------------------------------------------------------------------------
(* The steps of the direct path.                                            *)

(* What the invariant says of one call.                                     *)
LEMMA CallOk ==
    ASSUME Base, ReadInv, NEW c \in Client
    PROVE  /\ IsCall(th[c]) /\ ReadOk(th[c]) /\ SeenOk(floor, last, backend, th[c])
           /\ c \in quiet => QuietOk(mc, known, epilogues, th[c])
BY CallIs, Zenon DEF Base, ReadInv, QuietInv

(* Nothing is written in a step that leaves the versions alone.             *)
LEMMA NoLater ==
    ASSUME ReadInv, UNCHANGED last PROVE \A o \in Object : last[o] <= last'[o]
<1>1. ASSUME NEW o \in Object PROVE last[o] <= last[o]
  <2>1. last[o] \in Version1
    BY Zenon DEF ReadInv, World
  <2> QED
    BY <2>1 DEF Version1
<1> QED
  BY <1>1, Zenon

(* A step of a call that touches nothing else but OsdAccess.                *)
Beside == UNCHANGED <<last, floor, known, epilogues, backend, mc, quiet>>
(* A call goes on, ...                                                      *)
LEMMA MoveBeside ==
    ASSUME Base, ReadInv, NEW c \in Client, NEW r, Goes(c, r), th[c].pc \notin Resting, Beside,
           ReadOk(r), SeenOk(floor, last, backend, r), c \in quiet => QuietOk(mc, known, epilogues, r)
    PROVE  ReadInv'
<1>1. World'
  BY WorldSame, Zenon DEF ReadInv, Beside
<1>2. UNCHANGED <<floor, backend, quiet, last, mc, known, epilogues>>
  BY Zenon DEF Beside
<1> QED
  BY <1>1, <1>2, NoLater, CallMoves, Zenon

(* ... ends, ...                                                            *)
LEMMA EndBeside ==
    ASSUME Base, ReadInv, NEW c \in Client, NEW r, Goes(c, r), th[c].pc \notin Resting, Beside, Rests(r)
    PROVE  ReadInv'
<1>1. World'
  BY WorldSame, Zenon DEF ReadInv, Beside
<1>2. UNCHANGED <<floor, backend, quiet, last>>
  BY Zenon DEF Beside
<1> QED
  BY <1>1, <1>2, NoLater, CallEnds, Zenon

(* A step of OsdAccess::update keeps the invariant.                         *)
LEMMA UpdateStep ==
    Base /\ ReadInv /\ (\E c \in Client : Update(c) \/ Wait(c) \/ Fill(c) \/ Answer(c) \/ Push(c))
      => ReadInv'
(* ... or stays where it was, beside the rest of the state.                 *)
<1>AlikeBeside.
    ASSUME Base, ReadInv, NEW c \in Client, NEW r, Goes(c, r), th[c].pc \notin Resting, Beside,
           Alike(th[c], r), r.pc \in Updating => r.ret \in {"copy", "read", "first"}
    PROVE  ReadInv'
  <2> USE <1>AlikeBeside
  <2>1. /\ ReadOk(th[c]) /\ SeenOk(floor, last, backend, th[c])
        /\ c \in quiet => QuietOk(mc, known, epilogues, th[c])
    BY CallOk, Zenon
  <2>2. /\ ReadOk(r) /\ SeenOk(floor, last, backend, r)
        /\ QuietOk(mc, known, epilogues, th[c]) => QuietOk(mc, known, epilogues, r)
    BY <2>1, AlikeOk, Zenon
  <2> QED
    BY <2>1, <2>2, MoveBeside, Zenon
(* OsdAccess::update and the fill *)
<1>ReturnsAlike.
    ASSUME Base, ReadInv, NEW c \in Client, NEW ok, th[c].pc \in Updating
    PROVE  Rests(returns(c, ok)) \/ (Alike(th[c], returns(c, ok)) /\ returns(c, ok).pc \notin Updating)
  <2> USE <1>ReturnsAlike
  <2>1. IsCall(th[c]) /\ th[c].ret \in {"copy", "read", "first"}
    BY CallOk, Zenon DEF ReadOk
  <2>2. CASE th[c].ret = "read" \/ ok
    <3> DEFINE r == [th[c] EXCEPT !.pc = th[c].ret, !.ret = "none"]
    <3>1. /\ r.pc = th[c].ret
          /\ r.wrong = th[c].wrong /\ r.req = th[c].req /\ r.via = th[c].via /\ r.locs = th[c].locs
          /\ r.got = th[c].got /\ r.lv = th[c].lv /\ r.work = th[c].work /\ r.from = th[c].from
          /\ r.mark = th[c].mark /\ r.infos = th[c].infos /\ r.mf = th[c].mf /\ r.mcp = th[c].mcp
          /\ r.kind = th[c].kind
      BY <2>1, SomeFields, Zenon DEF IsCall
    <3>2. r = returns(c, ok)
      BY <2>2, Zenon DEF returns
    <3> HIDE DEF r
    <3>3. r.pc \notin Updating
      BY <2>1, <3>1, Zenon DEF Updating
    <3>4. Alike(th[c], r)
      BY <3>1, <3>3, Zenon DEF Alike, Phase
    <3> QED
      BY <3>2, <3>3, <3>4, Zenon
  <2>3. CASE ~(th[c].ret = "read" \/ ok)
    BY <2>3, FreshRests, Zenon DEF returns
  <2> QED
    BY <2>2, <2>3, Zenon
(* Going to another place of one phase.                                     *)
<1>ToAlike.
    ASSUME NEW r, IsCall(r), NEW pc, Phase([r EXCEPT !.pc = pc]) = Phase(r)
    PROVE  /\ Alike(r, [r EXCEPT !.pc = pc])
           /\ [r EXCEPT !.pc = pc].pc = pc /\ [r EXCEPT !.pc = pc].ret = r.ret
  BY <1>ToAlike, SomeFields, Zenon DEF IsCall, Alike
(* The steps of OsdAccess::update that a call waits for.                    *)
<1>UpdatingMoves.
    ASSUME Base, ReadInv, NEW c \in Client, th[c].pc \in Updating, Beside,
           \/ \E pc \in Updating : To(c, pc)
           \/ \E ok : Goes(c, returns(c, ok))
    PROVE  ReadInv'
  <2> USE <1>UpdatingMoves
  <2>1. IsCall(th[c]) /\ th[c].ret \in {"copy", "read", "first"}
    BY CallOk, Zenon DEF ReadOk
  <2>2. th[c].pc \notin Resting
    BY Zenon DEF Updating, Resting
  <2>3. CASE \E pc \in Updating : To(c, pc)
    <3>1. PICK pc \in Updating : To(c, pc)
      BY <2>3, Zenon
    <3> DEFINE r == [th[c] EXCEPT !.pc = pc]
    <3>2. r.pc = pc /\ r.ret = th[c].ret
      BY <2>1, SomeFields, Zenon DEF IsCall
    <3>3. Phase(r) = Phase(th[c])
      <4> HIDE DEF r
      <4> QED
        BY <3>2, Zenon DEF Phase
    <3>4. Alike(th[c], r)
      BY <2>1, <3>3, <1>ToAlike, Zenon
    <3>5. Goes(c, r)
      BY <3>1, Zenon DEF To
    <3> HIDE DEF r
    <3> QED
      BY <2>1, <2>2, <3>2, <3>4, <3>5, <1>AlikeBeside, Zenon
  <2>4. CASE \E ok : Goes(c, returns(c, ok))
    <3>1. PICK ok : Goes(c, returns(c, ok))
      BY <2>4, Zenon
    <3>2. Rests(returns(c, ok)) \/ (Alike(th[c], returns(c, ok)) /\ returns(c, ok).pc \notin Updating)
      BY <1>ReturnsAlike, Zenon
    <3> QED
      BY <2>2, <3>1, <3>2, <1>AlikeBeside, EndBeside, Zenon
  <2> QED
    BY <2>3, <2>4, Zenon
(* OsdAccess::update, its waiters, its request and its answer.              *)
<1>UpdateReads.
    ASSUME Base, ReadInv, NEW c \in Client, Update(c) \/ Wait(c) \/ Fill(c) \/ Answer(c) \/ Push(c)
    PROVE  ReadInv'
  <2> USE <1>UpdateReads
  <2>2. Beside
    BY Zenon DEF Beside, Update, Wait, Fill, Answer, Push, same, sameButEvents, nsmVars
  <2>3. th[c].pc \in Updating
    BY Zenon DEF Update, Wait, Fill, Answer, Push, Updating
  <2>4. UNCHANGED th \/ (\E pc \in Updating : To(c, pc)) \/ (\E ok : Goes(c, returns(c, ok)))
    <3>1. CASE Update(c)
      <4>1. "fill" \in Updating /\ "wait" \in Updating
        BY Zenon DEF Updating
      <4>2. To(c, "fill") \/ To(c, "wait")
        BY <3>1, Zenon DEF Update
      <4> QED
        BY <4>1, <4>2, Zenon
    <3>2. CASE Wait(c) \/ Push(c)
      BY <3>2, Zenon DEF Wait, Push
    <3>3. CASE Fill(c) \/ Answer(c)
      <4>1. "ask" \in Updating /\ "push" \in Updating
        BY Zenon DEF Updating
      <4>2. To(c, "ask") \/ To(c, "push") \/ Goes(c, returns(c, TRUE)) \/ Goes(c, returns(c, FALSE))
        BY <3>3, Zenon DEF Fill, Answer
      <4> QED
        BY <4>1, <4>2, Zenon
    <3> QED
      BY <3>1, <3>2, <3>3, Zenon
  <2>5. CASE UNCHANGED th
    <3>1. World' /\ UNCHANGED <<last, floor, known, epilogues, backend, mc, quiet>>
      BY <2>2, WorldSame, Zenon DEF ReadInv, Beside
    <3> QED
      BY <2>5, <3>1, Zenon DEF ReadInv, QuietInv
  <2> QED
    BY <2>2, <2>3, <2>4, <2>5, <1>UpdatingMoves, Zenon
<1> QED
  BY <1>UpdateReads, Zenon

(* A read that is not waiting for the slices of an object.                  *)
LEMMA ReadingOk ==
    ASSUME NEW r, Sound(r), Phase(r) \in Reading, Phase(r) # "get",
           r.pc \in Updating => r.ret \in {"copy", "read", "first"}, NEW be,
           Phase(r) \in {"levels", "copy"} => r.via = {} /\ r.locs = [i \in DOMAIN r.req |-> <<>>],
           Phase(r) = "resolve" => Resolving(r),
           Phase(r) \in {"read", "decrypt"} => Located(r),
           Phase(r) = "lookup" => r.via # {} /\ Fetched(r, DOMAIN r.req \ r.via),
           NEW fl, NEW la, Current(fl, la, be, r)
    PROVE  ReadOk(r) /\ SeenOk(fl, la, be, r) /\ \A ca, kn, ep : QuietOk(ca, kn, ep, r)
<1>1. Phase(r) \notin Storing /\ Phase(r) \notin Resting /\ Phase(r) \notin {"change", "changed", "invalidate"}
  BY Zenon DEF Reading, Storing, Resting
<1>2. ReadOk(r)
  BY <1>1, Zenon DEF ReadOk, Sound
<1> QED
  BY <1>2, CurrentIs, Zenon

(* What is known of a read before a step.                                   *)
LEMMA ReadIs ==
    ASSUME Base, ReadInv, NEW c \in Client, Phase(th[c]) \in Reading
    PROVE  /\ Sound(th[c]) /\ Current(floor, last, backend, th[c]) /\ ReadOk(th[c])
           /\ IsCall(th[c])
<1>1. IsCall(th[c]) /\ ReadOk(th[c]) /\ SeenOk(floor, last, backend, th[c])
  BY CallOk, Zenon
<1> QED
  BY <1>1, CurrentIs, Zenon

(* A field a step does not touch, and those of a read that none touches.    *)
Keeps(r, s) ==
    /\ IsCall(s) /\ s.wrong = r.wrong /\ s.req = r.req /\ s.from = r.from /\ s.mark = r.mark
    /\ s.infos = r.infos
(* A call that keeps all but what it found is as good.                      *)
LEMMA KeepsOk ==
    ASSUME NEW r, NEW s, Keeps(r, s), Sound(r), s.via \subseteq DOMAIN r.req,
           s.got = [i \in DOMAIN r.req |-> s.got[i]]
    PROVE  Sound(s) /\ \A fl, la, be : Current(fl, la, be, r) => Current(fl, la, be, s)
BY Zenon DEF Keeps, Sound, Current

(* A function on 1..n is a sequence.                                        *)
LEMMA FunctionSeq ==
    ASSUME NEW n \in Nat, NEW S, NEW f \in [1..n -> S] PROVE f \in Seq(S)
OBVIOUS

(* A read takes the levels, and with them its first look-ups.               *)
LEMMA LevelsStep ==
    Base /\ ReadInv /\ (\E c \in Client : Levels(c) \/ Copy(c))
      => ReadInv'
(* get_alba_levels *)
<1>LevelsReads.
    ASSUME Base, ReadInv, NEW c \in Client, Levels(c) PROVE ReadInv'
  <2> USE <1>LevelsReads
  <2>1. th[c].pc = "levels" /\ Beside
    BY Zenon DEF Levels, Beside, ReadInv, World, same, nsmVars, accessVars
  <2>2. Phase(th[c]) = "levels" /\ th[c].pc \notin Resting /\ Phase(th[c]) \in Reading
    BY <2>1, Zenon DEF Phase, Updating, Resting, Reading
  <2>3. /\ Sound(th[c]) /\ Current(floor, last, backend, th[c]) /\ ReadOk(th[c])
        /\ IsCall(th[c])
    BY <2>2, ReadIs, Zenon
  <2> DEFINE r == IF levels = <<>> THEN [th[c] EXCEPT !.pc = "update", !.ret = "copy"]
                  ELSE [th[c] EXCEPT !.pc = "copy"]
  <2>4. Goes(c, r)
    BY Zenon DEF Levels
  <2>5. /\ Keeps(th[c], r) /\ r.via = th[c].via /\ r.got = th[c].got /\ r.locs = th[c].locs
        /\ r.pc = "copy" \/ (r.pc = "update" /\ r.ret = "copy")
    BY <2>3, SomeFields, Zenon DEF IsCall, Keeps
  <2> HIDE DEF r
  <2>6. /\ Phase(r) = "copy" /\ (r.pc \in Updating => r.ret \in {"copy", "read", "first"})
        /\ Phase(r) \in Reading
    BY <2>5, Zenon DEF Phase, Updating, Reading
  <2>7. Sound(r) /\ Current(floor, last, backend, r)
    <3>1. r.via \subseteq DOMAIN th[c].req /\ r.got = [i \in DOMAIN th[c].req |-> r.got[i]]
      BY <2>3, <2>5, Zenon DEF Sound
    <3> QED
      BY <2>3, <2>5, <3>1, KeepsOk, Zenon
  <2>8. r.via = {} /\ r.locs = [i \in DOMAIN r.req |-> <<>>]
    BY <2>2, <2>3, <2>5, Zenon DEF ReadOk, Keeps
  <2>9. ReadOk(r) /\ SeenOk(floor, last, backend, r) /\ \A ca, kn, ep : QuietOk(ca, kn, ep, r)
    BY <2>6, <2>7, <2>8, ReadingOk, Zenon
  <2> QED
    BY <2>1, <2>2, <2>4, <2>9, MoveBeside, Zenon
(* The second read of _alba_levels, and the first look-ups.                 *)
<1>CopyReads.
    ASSUME Base, ReadInv, NEW c \in Client, Copy(c) PROVE ReadInv'
  <2> USE <1>CopyReads
  <2>1. th[c].pc = "copy" /\ Beside
    BY Zenon DEF Copy, Beside, ReadInv, World, same, nsmVars, accessVars
  <2>2. Phase(th[c]) = "copy" /\ th[c].pc \notin Resting /\ Phase(th[c]) \in Reading
    BY <2>1, Zenon DEF Phase, Updating, Resting, Reading
  <2>3. /\ Sound(th[c]) /\ Current(floor, last, backend, th[c]) /\ ReadOk(th[c])
        /\ IsCall(th[c])
    BY <2>2, ReadIs, Zenon
  <2> DEFINE q == th[c].req
             work == [i \in DOMAIN q |-> [i |-> i, level |-> 1, name |-> <<q[i].object>>,
                                          slices |-> Targets(q[i].slices)]]
             r == [th[c] EXCEPT !.pc = "resolve", !.lv = levels, !.work = work]
  <2>4. CASE Undefined(c, "levels") \/ Undefined(c, "race")
    BY <2>1, <2>2, <2>4, FreshRests, EndBeside, Zenon DEF Undefined
  <2>5. CASE levels # <<>> /\ Goes(c, r)
    <3>1. Goes(c, r)
      BY <2>5, Zenon
    <3>2. Len(levels) \in 1..2
      BY <2>5, PushedIs, Zenon DEF Base, RoraInv
    <3>3. th[c].via = {} /\ th[c].locs = [i \in DOMAIN q |-> <<>>]
      BY <2>2, <2>3, Zenon DEF ReadOk
    <3>4. \E S : work \in Seq(S)
      <4>1. q \in Seq(ObjectSlices)
        BY <2>3, Zenon DEF Sound
      <4>2. DOMAIN q = 1..Len(q) /\ Len(q) \in Nat
        BY <4>1
      <4>3. work \in [1..Len(q) -> {work[i] : i \in DOMAIN q}]
        BY <4>2, Zenon
      <4> HIDE DEF work
      <4> QED
        BY <4>2, <4>3, FunctionSeq, Zenon
    <3>5. ASSUME NEW i \in DOMAIN q
          PROVE  work[i].i = i /\ work[i].level = 1 /\ work[i].name = <<q[i].object>>
                 /\ work[i].slices = Targets(q[i].slices)
      BY Zenon
    <3>6. DOMAIN work = DOMAIN q
      BY Zenon
    <3> HIDE DEF work
    <3>7. /\ Keeps(th[c], r) /\ r.via = {} /\ r.got = th[c].got /\ r.locs = th[c].locs
          /\ r.pc = "resolve" /\ r.lv = levels /\ r.work = work /\ r.req = q
      BY <2>3, <3>3, SomeFields, Zenon DEF IsCall, Keeps
    <3> HIDE DEF r
    <3>8. ASSUME NEW i \in DOMAIN q PROVE Progress(q[i], r.from, r.locs[i], work, i)
      <4>1. <<>> = r.locs[i]
        BY <3>3, <3>7, Zenon
      <4>2. Once(work, i)
        <5>1. ASSUME NEW j \in DOMAIN work, work[j].i = i PROVE j = i
          <6>1. j \in DOMAIN q
            BY <3>6, <5>1, Zenon
          <6>2. work[j].i = j
            BY <3>5, <6>1, Zenon
          <6> QED
            BY <5>1, <6>2, Zenon
        <5> QED
          BY <5>1, Zenon DEF Once
      <4>3. i \in DOMAIN work /\ work[i].i = i /\ work[i].level = 1 /\ work[i].name = <<q[i].object>>
            /\ work[i].slices = Targets(q[i].slices)
        BY <3>5, <3>6, Zenon
      <4>4. Unresolved(q[i], r.locs[i], work, i)
        BY <4>1, <4>2, <4>3, Zenon DEF Unresolved
      <4> QED
        BY <4>4, Zenon DEF Progress
    <3>9. Resolving(r)
      <4>1. r.locs = [i \in DOMAIN r.req |-> r.locs[i]]
        BY <3>3, <3>7, Zenon
      <4>2. \A j \in DOMAIN r.work : r.work[j].i \in DOMAIN r.req \ r.via
        BY <3>5, <3>6, <3>7, Zenon
      <4>3. Len(r.lv) \in 1..2
        BY <3>2, <3>7, Zenon
      <4> HIDE DEF q
      <4> QED
        BY <3>4, <3>7, <3>8, <4>1, <4>2, <4>3, Zenon DEF Resolving
    <3>10. Phase(r) = "resolve" /\ r.pc \notin Updating /\ Phase(r) \in Reading
      BY <3>7, Zenon DEF Phase, Updating, Reading
    <3>11. Sound(r) /\ Current(floor, last, backend, r)
      <4>1. r.via \subseteq DOMAIN th[c].req /\ r.got = [i \in DOMAIN th[c].req |-> r.got[i]]
        BY <2>3, <3>7, Zenon DEF Sound
      <4> QED
        BY <2>3, <3>7, <4>1, KeepsOk, Zenon
    <3>12. ReadOk(r) /\ SeenOk(floor, last, backend, r) /\ \A ca, kn, ep : QuietOk(ca, kn, ep, r)
      BY <3>9, <3>10, <3>11, ReadingOk, Zenon
    <3> QED
      BY <2>1, <2>2, <3>1, <3>12, MoveBeside, Zenon
  <2> QED
    BY <2>4, <2>5, Zenon DEF Copy, Races
<1> QED
  BY <1>LevelsReads, <1>CopyReads, Zenon

(* The entries of the ManifestCache: find adds none, and insert adds one    *)
(* and keeps no other with its key.                                         *)
LEMMA ElementsSeq ==
    ASSUME NEW S, NEW s \in Seq(S) PROVE s \in Seq(Elements(s))
<1>1. DOMAIN s = 1..Len(s) /\ Len(s) \in Nat /\ s = [i \in 1..Len(s) |-> s[i]]
  OBVIOUS
<1>2. s \in [1..Len(s) -> Elements(s)]
  BY <1>1, Zenon DEF Elements
<1> QED
  BY <1>1, <1>2, FunctionSeq, Zenon

(* The elements of a sequence are of its kind.                              *)
LEMMA OfElements ==
    ASSUME NEW S, NEW s \in Seq(S), NEW j \in DOMAIN s PROVE s[j] \in S
OBVIOUS

(* The elements of a sequence and one more.                                 *)
LEMMA AppendElements ==
    ASSUME NEW S, NEW s \in Seq(S), NEW e, NEW j \in DOMAIN Append(s, e)
    PROVE  Append(s, e)[j] = e \/ (j \in DOMAIN s /\ Append(s, e)[j] = s[j])
OBVIOUS

(* The names of manifests, of an object and of a cached fragment.           *)
LEMMA ManifestNames ==
    ASSUME NEW o, NEW v, NEW name
    PROVE  ObjectManifest(o, v).name = <<o>> /\ CacheManifest(name).name = name
BY Zenon DEF ObjectManifest, CacheManifest, Manifest

(* A manifest with the name of an object is one of its versions, ...        *)
LEMMA NamedObject ==
    ASSUME NEW fl, NEW mf, Sent(fl, mf), NEW o \in Object, mf.name = <<o>>
    PROVE  \E v \in Version1 : mf = ObjectManifest(o, v) /\ Least(fl, o) <= v
<1>1. ASSUME NEW p \in Object, NEW v \in Version1, mf = ObjectManifest(p, v), Least(fl, p) <= v
      PROVE  \E x \in Version1 : mf = ObjectManifest(o, x) /\ Least(fl, o) <= x
  <2>1. <<p>> = <<o>>
    BY <1>1, ManifestNames, Zenon
  <2>2. p = o
    BY <2>1
  <2> QED
    BY <1>1, <2>2, Zenon
<1>2. ASSUME NEW p, NEW v, NEW c, NEW f, mf = CacheManifest(<<p, v, c, f>>) PROVE FALSE
  <2>1. <<p, v, c, f>> = <<o>>
    BY <1>2, ManifestNames, Zenon
  <2> QED
    BY <2>1
<1> QED
  BY <1>1, <1>2, Zenon DEF Sent

(* The manifest is there: what it is, by the name that was looked up.       *)
FoundFor(r, mf) ==
    /\ \A o \in Object : r.work[1].name = <<o>> =>
         \E v \in Version1 : mf = ObjectManifest(o, v) /\ New(r.from, o, v)
    /\ \A o, v, c, f : r.work[1].name = <<o, v, c, f>> => mf = CacheManifest(r.work[1].name)
(* Its fragments are to be looked up at the next level.                     *)
Lowers(w, found, below) ==
    /\ below = [j \in DOMAIN found |-> below[j]]
    /\ \A j \in DOMAIN found :
         /\ below[j].i = w.i /\ below[j].level = w.level + 1 /\ below[j].name = CacheName(found[j])
         /\ below[j].slices = <<[offset |-> found[j].offset, size |-> found[j].length,
                                 target |-> found[j].target]>>
(* A call's locations with those that were found for the first look-up.     *)
Extends(locs, i, found, more) == more = [locs EXCEPT ![i] = @ \o found]
(* From one version to another.                                             *)
LEMMA LeqTwice == ASSUME NEW a \in Nat, NEW b \in Nat, NEW v \in Nat, a <= b, b <= v PROVE a <= v
OBVIOUS

(* What later reads have to see, a read that began before does see.         *)
LEMMA LeastIsNew ==
    ASSUME World, NEW r, Current(floor, last, backend, r), NEW o \in Object, NEW v \in Version1,
           Least(floor, o) <= v
    PROVE  New(r.from, o, v)
<1> SUFFICES ASSUME OnlyQuiet PROVE r.from[o] <= v
  BY Zenon DEF New
<1>1. r.from[o] \in Nat /\ r.from[o] <= floor[o] /\ floor[o] \in Nat /\ floor[o] <= v
  BY Zenon DEF Current, World, Least
<1>2. v \in Nat
  BY DEF Version1
<1> QED
  BY <1>1, <1>2, LeqTwice, Zenon

(* A look-up keeps the invariant.                                           *)
LEMMA ResolveStep ==
    Base /\ ReadInv /\ (\E c \in Client : Resolve(c))
      => ReadInv'
(* UnsafeLRUCache::find only moves entries.                                 *)
<1>RelocateFrom.
    ASSUME CacheInv, NEW k, NEW j \in DOMAIN relocate(mc, k)
    PROVE  \E i \in DOMAIN mc : relocate(mc, k)[j] = mc[i]
  <2> USE <1>RelocateFrom
  <2>1. mc \in Seq(Elements(mc)) /\ Keyed(mc) /\ Named(mc)
    BY ElementsSeq, Zenon DEF CacheInv
  <2>2. CASE has(mc, k)
    <3> DEFINE t == without(mc, k)
               e == lru_find(mc, k)
    <3>1. relocate(mc, k) = Append(t, e)
      BY <2>2, Zenon DEF relocate
    <3>2. t \in Seq(Elements(mc))
      BY <2>1, WithoutIs, Zenon
    <3>3. \E i \in DOMAIN mc : e = mc[i]
      BY <2>2, Zenon DEF lru_find, has, at
    <3> HIDE DEF t, e
    <3>4. Append(t, e)[j] = e \/ Append(t, e)[j] \in Elements(mc)
      <4>1. j \in DOMAIN Append(t, e)
        BY <3>1, Zenon
      <4>2. Append(t, e)[j] = e \/ (j \in DOMAIN t /\ Append(t, e)[j] = t[j])
        BY <3>2, <4>1, AppendElements
      <4>3. ASSUME j \in DOMAIN t PROVE t[j] \in Elements(mc)
        BY <3>2, <4>3, OfElements, Zenon
      <4> QED
        BY <4>2, <4>3, Zenon
    <3> QED
      BY <3>1, <3>3, <3>4, Zenon DEF Elements
  <2>3. CASE ~has(mc, k)
    BY <2>3, Zenon DEF relocate
  <2> QED
    BY <2>2, <2>3, Zenon
(* ManifestCache::find changes nothing that matters to others.              *)
<1>RelocateWorld.
    ASSUME CacheInv, World, NEW k, mc' = relocate(mc, k),
           UNCHANGED <<last, floor, known, epilogues, backend>>
    PROVE  World'
  <2> USE <1>RelocateWorld
  <2>1. ASSUME NEW j \in DOMAIN mc' PROVE EntryOk(floor, backend, mc'[j])
    <3>1. PICK i \in DOMAIN mc : mc'[j] = mc[i]
      BY <1>RelocateFrom, Zenon
    <3> QED
      BY <3>1, Zenon DEF World
  <2> QED
    BY <2>1, Zenon DEF World
(* The manifest under a name is that of the object, or of the fragment.     *)
<1>FoundAt.
    ASSUME CacheInv, World, NEW a, NEW name, has(mc, <<a, name>>)
    PROVE  /\ lru_find(mc, <<a, name>>).mf.name = name
           /\ Sent(floor, lru_find(mc, <<a, name>>).mf)
  <2> USE <1>FoundAt
  <2> DEFINE key == <<a, name>>
  <2>1. key[2] = name
    OBVIOUS
  <2> HIDE DEF key
  <2>2. has(mc, key)
    BY Zenon DEF key
  <2>3. PICK j \in DOMAIN mc : lru_find(mc, key) = mc[j] /\ mc[j].key = key
    BY <2>2, Zenon DEF lru_find, has, at
  <2>4. mc[j].key[2] = mc[j].mf.name /\ Sent(floor, mc[j].mf)
    BY Zenon DEF World, EntryOk, CacheInv, Named
  <2> QED
    BY <2>1, <2>3, <2>4, Zenon DEF key
(* ... and one with the name of a cached fragment is that fragment's.       *)
<1>NamedFragment.
    ASSUME NEW fl, NEW mf, Sent(fl, mf), NEW p, NEW x, NEW d, NEW g, mf.name = <<p, x, d, g>>
    PROVE  mf = CacheManifest(mf.name)
  <2> USE <1>NamedFragment
  <2>1. ASSUME NEW o \in Object, NEW v \in Version1, mf = ObjectManifest(o, v) PROVE FALSE
    <3>1. <<p, x, d, g>> = <<o>>
      BY <2>1, ManifestNames, Zenon
    <3> QED
      BY <3>1
  <2>2. PICK o, v, c, f : mf = CacheManifest(<<o, v, c, f>>)
    BY <2>1, Zenon DEF Sent
  <2>3. mf.name = <<o, v, c, f>>
    BY <2>2, ManifestNames, Zenon
  <2> QED
    BY <2>2, <2>3, Zenon
(* A look-up, after which the read goes on or ends.                         *)
<1>MoveLooks.
    ASSUME Base, ReadInv, NEW c \in Client, th[c].pc = "resolve", NEW k, mc' = relocate(mc, k),
           UNCHANGED <<last, floor, known, epilogues, backend, quiet>>, NEW r, Goes(c, r),
           \/ Rests(r)
           \/ Sound(r) /\ r.pc = "resolve" /\ Resolving(r) /\ Current(floor, last, backend, r)
    PROVE  ReadInv'
  <2> USE <1>MoveLooks
  <2>1. World'
    BY <1>RelocateWorld, Zenon DEF ReadInv, Base
  <2>0. UNCHANGED last
    BY Zenon
  <2>2. th[c].pc \notin Resting /\ \A o \in Object : last[o] <= last'[o]
    BY <2>0, NoLater, Zenon DEF Resting
  <2>3. CASE Rests(r)
    BY <2>1, <2>2, <2>3, CallEnds, Zenon
  <2>4. CASE Sound(r) /\ r.pc = "resolve" /\ Resolving(r) /\ Current(floor, last, backend, r)
    <3>1. Phase(r) = "resolve" /\ r.pc \notin Updating /\ Phase(r) \in Reading
      BY <2>4, Zenon DEF Phase, Updating, Reading
    <3>2. ReadOk(r) /\ SeenOk(floor, last, backend, r) /\ \A ca, kn, ep : QuietOk(ca, kn, ep, r)
      BY <2>4, <3>1, ReadingOk, Zenon
    <3> QED
      BY <2>1, <2>2, <3>2, CallMoves, Zenon
  <2> QED
    BY <2>3, <2>4, Zenon
(* The manifest is not there.                                               *)
<1>Missed.
    ASSUME NEW r, r.req \in Seq(ObjectSlices), Resolving(r), r.work # <<>>,
           NEW s, s.lv = r.lv, s.req = r.req, s.from = r.from,
           s.via = r.via \union {r.work[1].i},
           s.locs = [r.locs EXCEPT ![r.work[1].i] = <<>>],
           s.work = others(Tail(r.work), r.work[1].i)
    PROVE  Resolving(s) /\ r.work[1].i \in DOMAIN r.req
  <2> USE <1>Missed
  <2> DEFINE w == r.work[1]
             rest == Tail(r.work)
  <2>1. PICK S : r.work \in Seq(S)
    BY Zenon DEF Resolving
  <2>2. rest \in Seq(S) /\ 1 \in DOMAIN r.work
    BY <2>1, RestIs, Zenon
  <2>3. w.i \in DOMAIN r.req
    BY <2>2, Zenon DEF Resolving
  <2>4. w.i + 1 # w.i
    BY <2>3
  <2> HIDE DEF w, rest
  <2>5. s.work \in Seq(S) /\ \A j \in DOMAIN s.work : s.work[j].i # w.i
    <3>1. PICK n : n # w.i
      BY <2>4, Zenon
    <3>2. rest \in Seq(S)
      BY <2>2, Zenon
    <3>3. others(rest, w.i) \in Seq(S) /\ Gone(others(rest, w.i), w.i)
      BY <3>1, <3>2, OthersSame, Zenon
    <3> QED
      BY <3>3, Zenon DEF w, rest, Gone
  <2>6. ASSUME NEW i, i # w.i PROVE Same(r.work, s.work, i)
    <3>1. Same(r.work, rest, i)
      <4>1. r.work[1].i # i
        BY <2>6, Zenon DEF w
      <4>2. Same(r.work, Tail(r.work), i)
        BY <2>1, <4>1, TailSame, Zenon
      <4> QED
        BY <4>2, Zenon DEF rest
    <3>2. Same(rest, s.work, i)
      <4>1. rest \in Seq(S)
        BY <2>2, Zenon
      <4>2. Same(rest, others(rest, w.i), i)
        BY <2>6, <4>1, OthersSame, Zenon
      <4> QED
        BY <4>2, Zenon DEF w, rest
    <3> QED
      BY <3>1, <3>2, SameTwice, Zenon
  <2>7. ASSUME NEW j \in DOMAIN s.work PROVE s.work[j].i \in DOMAIN s.req \ s.via
    <3>1. s.work[j].i # w.i
      BY <2>5, Zenon
    <3>2. PICK k \in DOMAIN r.work : r.work[k] = s.work[j]
      BY <2>6, <3>1, Zenon DEF Same
    <3>3. r.work[k].i \in DOMAIN r.req \ r.via
      BY Zenon DEF Resolving
    <3> QED
      BY <3>1, <3>2, <3>3, Zenon DEF w
  <2>8. r.locs = [i \in DOMAIN r.req |-> r.locs[i]] /\ Len(r.lv) \in 1..2
    BY Zenon DEF Resolving
  <2>9. s.locs = [i \in DOMAIN s.req |-> s.locs[i]] /\ \A i \in DOMAIN s.req : i # w.i => s.locs[i] = r.locs[i]
    BY <2>8, Zenon DEF w
  <2>10. ASSUME NEW i \in DOMAIN s.req \ s.via PROVE Progress(s.req[i], s.from, s.locs[i], s.work, i)
    <3>1. i # w.i /\ i \in DOMAIN r.req \ r.via
      BY Zenon DEF w
    <3>2. Progress(r.req[i], r.from, r.locs[i], r.work, i)
      BY <3>1, Zenon DEF Resolving
    <3>3. s.locs[i] = r.locs[i]
      BY <2>9, <3>1, Zenon
    <3> QED
      BY <2>6, <3>1, <3>2, <3>3, ProgressSame, Zenon
  <2> QED
    BY <2>3, <2>5, <2>7, <2>8, <2>9, <2>10, Zenon DEF Resolving, w
(* The look-up of an object that has none yet is the first, at level 1.     *)
<1>HeadTop.
    ASSUME NEW q, NEW ls, NEW S, NEW work \in Seq(S), work # <<>>, NEW i, work[1].i = i,
           Unresolved(q, ls, work, i)
    PROVE  /\ ls = <<>> /\ work[1].level = 1 /\ work[1].name = <<q.object>>
           /\ work[1].slices = Targets(q.slices) /\ Gone(Tail(work), i)
  <2> USE <1>HeadTop
  <2>1. /\ 1 \in DOMAIN work
        /\ \A j \in DOMAIN Tail(work) : \E k \in DOMAIN work : k # 1 /\ Tail(work)[j] = work[k]
    BY RestIs, Zenon
  <2>2. PICK j \in DOMAIN work :
           /\ work[j].i = i /\ work[j].level = 1 /\ work[j].name = <<q.object>>
           /\ work[j].slices = Targets(q.slices)
    BY Zenon DEF Unresolved
  <2>3. \A k \in DOMAIN work : work[k].i = i => k = 1
    BY <2>1, Zenon DEF Unresolved, Once
  <2>4. Gone(Tail(work), i)
    BY <2>1, <2>3, Zenon DEF Gone
  <2> QED
    BY <2>2, <2>3, <2>4, Zenon DEF Unresolved
(* What is known of the object whose look-up is the first one.              *)
<1>HeadIs.
    ASSUME NEW r, r.req \in Seq(ObjectSlices), Resolving(r), r.work # <<>>
    PROVE  /\ r.work[1].i \in DOMAIN r.req \ r.via /\ r.req[r.work[1].i] \in ObjectSlices
           /\ Progress(r.req[r.work[1].i], r.from, r.locs[r.work[1].i], r.work, r.work[1].i)
           /\ \E S : r.work \in Seq(S)
  <2> USE <1>HeadIs
  <2>1. PICK S : r.work \in Seq(S)
    BY Zenon DEF Resolving
  <2>2. 1 \in DOMAIN r.work
    BY <2>1, RestIs, Zenon
  <2>3. r.work[1].i \in DOMAIN r.req \ r.via
    BY <2>2, Zenon DEF Resolving
  <2>4. r.req[r.work[1].i] \in ObjectSlices
    BY <2>3
  <2> QED
    BY <2>1, <2>3, <2>4, Zenon DEF Resolving
(* There are no three levels.                                               *)
<1>TwoLevels.
    ASSUME NEW n \in 1..2, 2 < n PROVE FALSE
  BY <1>TwoLevels
(* _resolve_one_many_levels goes to the next level: what it looks up there  *)
(* is right.                                                                *)
<1>Descended.
    ASSUME NEW r, r.req \in Seq(ObjectSlices), Resolving(r), r.work # <<>>,
           NEW mf, FoundFor(r, mf), AllInside(mf, r.work[1].slices), r.work[1].level < Len(r.lv),
           NEW found, found = resolve(mf, r.work[1].slices),
           NEW below, Lowers(r.work[1], found, below),
           NEW s, s.lv = r.lv, s.req = r.req, s.from = r.from, s.via = r.via, s.locs = r.locs,
           s.work = below \o Tail(r.work)
    PROVE  Resolving(s)
  <2> USE <1>Descended
  <2> DEFINE w == r.work[1]
             i == w.i
             q == r.req[i]
             rest == Tail(r.work)
             u == below \o rest
  <2>1. i \in DOMAIN r.req \ r.via /\ q \in ObjectSlices /\ Progress(q, r.from, r.locs[i], r.work, i)
    BY <1>HeadIs, Zenon
  <2>2. PICK S : r.work \in Seq(S)
    BY <1>HeadIs, Zenon
  <2>3. rest \in Seq(S) /\ 1 \in DOMAIN r.work
        /\ \A j \in DOMAIN rest : \E k \in DOMAIN r.work : k # 1 /\ rest[j] = r.work[k]
    BY <2>2, RestIs, Zenon
  <2> HIDE DEF q, rest, u, i
  <2>4. Unresolved(q, r.locs[i], r.work, i)
    <3>1. ASSUME NEW v, Below(Targets(q.slices), q.object, v, w) PROVE FALSE
      <4>1. w.level = 2
        BY <3>1, Zenon DEF Below
      <4>2. Len(r.lv) \in 1..2
        BY Zenon DEF Resolving
      <4> QED
        BY <4>1, <4>2, <1>TwoLevels, Zenon
    <3>2. ASSUME NEW v, Partly(q, r.locs[i], r.work, i, v) PROVE FALSE
      BY <2>3, <3>1, <3>2, Zenon DEF Partly, i
    <3> QED
      BY <2>1, <3>2, Zenon DEF Progress
  <2>5. /\ r.locs[i] = <<>> /\ w.level = 1 /\ w.name = <<q.object>>
        /\ w.slices = Targets(q.slices) /\ Gone(rest, i)
    BY <2>2, <2>4, <1>HeadTop, Zenon DEF i, rest
  <2>6. q.object \in Object
    BY <2>1, Zenon DEF ObjectSlices
  <2>7. PICK v \in Version1 : mf = ObjectManifest(q.object, v) /\ New(r.from, q.object, v)
    BY <2>5, <2>6, Zenon DEF FoundFor
  <2>8. Resolved(mf, Targets(q.slices), 0, Targets(q.slices), found)
    BY <2>1, <2>5, <2>7, TopFound, Zenon
  <2>9. DOMAIN found = 1..Len(found) /\ Len(found) \in Nat
    <3>1. found \in Seq(Locs(mf))
      BY <2>8, Zenon DEF Resolved
    <3> QED
      BY <3>1
  <2> DEFINE T == S \union {below[j] : j \in DOMAIN found}
  <2>10. below \in Seq(T) /\ rest \in Seq(T)
    <3>1. below \in [1..Len(found) -> T]
      BY <2>9, Zenon DEF Lowers
    <3>2. below \in Seq(T)
      <4> HIDE DEF T
      <4> QED
        BY <2>9, <3>1, FunctionSeq, Zenon
    <3>3. S \subseteq T
      BY Zenon
    <3> HIDE DEF T
    <3>4. rest \in Seq(T)
      BY <2>3, <3>3
    <3> QED
      BY <3>2, <3>4, Zenon
  <2> HIDE DEF T
  <2>11. u \in Seq(T) /\ Both(below, rest, u)
    <3>1. u \in Seq(T)
      BY <2>10 DEF u
    <3> QED
      BY <2>10, <3>1, BothIs, Zenon DEF u
  <2>12. DOMAIN below = DOMAIN found
    BY Zenon DEF Lowers
  <2>13. ASSUME NEW j \in DOMAIN found
         PROVE  /\ below[j].i = i /\ below[j].level = 2 /\ below[j].name = CacheName(found[j])
                /\ below[j].slices = <<[offset |-> found[j].offset, size |-> found[j].length,
                                        target |-> found[j].target]>>
    <3>1. 1 + 1 = 2
      OBVIOUS
    <3> QED
      BY <2>5, <3>1, Zenon DEF i, Lowers
  <2>14. Progress(q, r.from, <<>>, u, i)
    <3>1. Resolved(ObjectManifest(q.object, v), Targets(q.slices), 0, Targets(q.slices), found)
      BY <2>7, <2>8, Zenon
    <3>2. Lower(found, below, i)
      BY <2>12, <2>13, Zenon DEF Lower
    <3>3. Gone(rest, i) /\ Both(below, rest, u) /\ New(r.from, q.object, v) /\ q \in ObjectSlices
      BY <2>1, <2>5, <2>7, <2>11, Zenon
    <3> QED
      BY <3>1, <3>2, <3>3, TopDescends, Zenon
  <2>15. ASSUME NEW k, k # i PROVE Same(r.work, u, k)
    <3>1. Same(r.work, rest, k)
      <4>1. r.work[1].i # k
        BY <2>15, Zenon DEF i
      <4>2. Same(r.work, Tail(r.work), k)
        BY <2>2, <4>1, TailSame, Zenon
      <4> QED
        BY <4>2, Zenon DEF rest
    <3>2. \A j \in DOMAIN below : below[j].i # k
      BY <2>12, <2>13, <2>15, Zenon
    <3>3. Same(rest, u, k)
      BY <2>10, <3>2, ConcatSame, Zenon DEF u
    <3> QED
      BY <3>1, <3>3, SameTwice, Zenon
  <2>16. s.work = u
    BY Zenon DEF u, rest
  <2>17. ASSUME NEW k \in DOMAIN r.req \ r.via PROVE Progress(r.req[k], r.from, r.locs[k], u, k)
    <3>1. CASE k = i
      BY <2>5, <2>14, <3>1, Zenon DEF q
    <3>2. CASE k # i
      <4>1. Progress(r.req[k], r.from, r.locs[k], r.work, k)
        BY <2>17, Zenon DEF Resolving
      <4> QED
        BY <2>15, <3>2, <4>1, ProgressSame, Zenon
    <3> QED
      BY <3>1, <3>2, Zenon
  <2>18. ASSUME NEW j \in DOMAIN u PROVE u[j].i \in DOMAIN r.req \ r.via
    <3>1. ASSUME NEW k \in DOMAIN below, u[j] = below[k] PROVE u[j].i \in DOMAIN r.req \ r.via
      <4>1. below[k].i = i
        BY <2>12, <2>13, Zenon
      <4> QED
        BY <2>1, <3>1, <4>1, Zenon
    <3>2. ASSUME NEW k \in DOMAIN rest, u[j] = rest[k] PROVE u[j].i \in DOMAIN r.req \ r.via
      <4>1. PICK m \in DOMAIN r.work : rest[k] = r.work[m]
        BY <2>3, Zenon
      <4>2. r.work[m].i \in DOMAIN r.req \ r.via
        BY Zenon DEF Resolving
      <4> QED
        BY <3>2, <4>1, <4>2, Zenon
    <3> QED
      BY <2>11, <3>1, <3>2, Zenon DEF Both
  <2>19. Len(r.lv) \in 1..2 /\ r.locs = [k \in DOMAIN r.req |-> r.locs[k]]
    BY Zenon DEF Resolving
  <2> QED
    BY <2>11, <2>16, <2>17, <2>18, <2>19, Zenon DEF Resolving
(* _resolve_one_many_levels is at the last level: the locations it adds are *)
(* right.                                                                   *)
<1>Finished.
    ASSUME NEW r, r.req \in Seq(ObjectSlices), Resolving(r), r.work # <<>>,
           NEW mf, FoundFor(r, mf), AllInside(mf, r.work[1].slices),
           NEW found, found = resolve(mf, r.work[1].slices),
           NEW s, s.lv = r.lv, s.req = r.req, s.from = r.from, s.via = r.via,
           Extends(r.locs, r.work[1].i, found, s.locs), s.work = Tail(r.work)
    PROVE  Resolving(s)
  <2> USE <1>Finished
  <2> DEFINE w == r.work[1]
             i == w.i
             q == r.req[i]
             rest == Tail(r.work)
             ls == r.locs[i]
  <2>1. i \in DOMAIN r.req \ r.via /\ q \in ObjectSlices /\ Progress(q, r.from, ls, r.work, i)
    BY <1>HeadIs, Zenon
  <2>2. PICK S : r.work \in Seq(S)
    BY <1>HeadIs, Zenon
  <2>3. rest \in Seq(S) /\ 1 \in DOMAIN r.work
        /\ \A j \in DOMAIN rest : \E k \in DOMAIN r.work : k # 1 /\ rest[j] = r.work[k]
    BY <2>2, RestIs, Zenon
  <2>4. Len(r.lv) \in 1..2 /\ r.locs = [k \in DOMAIN r.req |-> r.locs[k]]
    BY Zenon DEF Resolving
  <2>5. /\ s.locs = [k \in DOMAIN s.req |-> s.locs[k]] /\ s.locs[i] = ls \o found
        /\ \A k \in DOMAIN r.req : k # i => s.locs[k] = r.locs[k]
    BY <2>1, <2>4, Zenon DEF Extends
  <2> HIDE DEF q, rest, i, ls
  <2>6. Progress(q, r.from, ls \o found, rest, i)
    <3>1. CASE Unresolved(q, ls, r.work, i)
      <4>1. /\ ls = <<>> /\ w.name = <<q.object>> /\ w.slices = Targets(q.slices) /\ Gone(rest, i)
        BY <2>2, <3>1, <1>HeadTop, Zenon DEF i, rest
      <4>2. q.object \in Object
        BY <2>1, Zenon DEF ObjectSlices
      <4>3. PICK v \in Version1 : mf = ObjectManifest(q.object, v) /\ New(r.from, q.object, v)
        BY <4>1, <4>2, Zenon DEF FoundFor
      <4>4. Resolved(ObjectManifest(q.object, v), Targets(q.slices), 0, Targets(q.slices), found)
        BY <2>1, <4>1, <4>3, TopFound, Zenon
      <4>5. \A j \in DOMAIN rest : rest[j].i # i
        BY <4>1, Zenon DEF Gone
      <4>6. Progress(q, r.from, <<>> \o found, rest, i)
        BY <2>1, <4>3, <4>4, <4>5, TopKeeps, Zenon
      <4> QED
        BY <4>1, <4>6, Zenon
    <3>2. ASSUME NEW v \in Version1, New(r.from, q.object, v), Partly(q, ls, r.work, i, v)
          PROVE  Progress(q, r.from, ls \o found, rest, i)
      <4>1. Below(Targets(q.slices), q.object, v, w)
        BY <2>3, <3>2, Zenon DEF Partly, i
      <4>2. PICK c, f : w.name = <<q.object, v, c, f>>
        BY <4>1, Zenon DEF Below
      <4>3. mf = CacheManifest(w.name)
        BY <4>2, Zenon DEF FoundFor
      <4>4. Partly(q, ls \o found, Tail(r.work), i, v)
        BY <2>1, <2>2, <3>2, <4>3, LastKeeps, Zenon DEF i
      <4> QED
        BY <3>2, <4>4, Zenon DEF Progress, rest
    <3> QED
      BY <2>1, <3>1, <3>2, Zenon DEF Progress
  <2>7. ASSUME NEW k, k # i PROVE Same(r.work, rest, k)
    <3>1. r.work[1].i # k
      BY <2>7, Zenon DEF i
    <3>2. Same(r.work, Tail(r.work), k)
      BY <2>2, <3>1, TailSame, Zenon
    <3> QED
      BY <3>2, Zenon DEF rest
  <2>8. ASSUME NEW k \in DOMAIN r.req \ r.via PROVE Progress(r.req[k], r.from, s.locs[k], rest, k)
    <3>1. CASE k = i
      BY <2>5, <2>6, <3>1, Zenon DEF q
    <3>2. CASE k # i
      <4>1. Progress(r.req[k], r.from, r.locs[k], r.work, k)
        BY <2>8, Zenon DEF Resolving
      <4>2. s.locs[k] = r.locs[k]
        BY <2>5, <2>8, <3>2, Zenon
      <4> QED
        BY <2>7, <3>2, <4>1, <4>2, ProgressSame, Zenon
    <3> QED
      BY <3>1, <3>2, Zenon
  <2>9. ASSUME NEW j \in DOMAIN rest PROVE rest[j].i \in DOMAIN r.req \ r.via
    <3>1. PICK m \in DOMAIN r.work : rest[j] = r.work[m]
      BY <2>3, Zenon
    <3>2. r.work[m].i \in DOMAIN r.req \ r.via
      BY Zenon DEF Resolving
    <3> QED
      BY <3>1, <3>2, Zenon
  <2>10. s.work = rest
    BY Zenon DEF rest
  <2> QED
    BY <2>3, <2>4, <2>5, <2>8, <2>9, <2>10, Zenon DEF Resolving
(* What ManifestCache::find finds is what the look-up is for.               *)
<1>FoundForIs.
    ASSUME CacheInv, World, NEW r, Current(floor, last, backend, r), NEW a,
           has(mc, <<a, r.work[1].name>>)
    PROVE  FoundFor(r, lru_find(mc, <<a, r.work[1].name>>).mf)
  <2> USE <1>FoundForIs
  <2> DEFINE mf == lru_find(mc, <<a, r.work[1].name>>).mf
  <2>1. mf.name = r.work[1].name /\ Sent(floor, mf)
    BY <1>FoundAt, Zenon
  <2> HIDE DEF mf
  <2>2. ASSUME NEW o \in Object, r.work[1].name = <<o>>
        PROVE  \E v \in Version1 : mf = ObjectManifest(o, v) /\ New(r.from, o, v)
    <3>1. PICK v \in Version1 : mf = ObjectManifest(o, v) /\ Least(floor, o) <= v
      BY <2>1, <2>2, NamedObject, Zenon
    <3> QED
      BY <3>1, LeastIsNew, Zenon
  <2>3. ASSUME NEW o, NEW v, NEW c, NEW f, r.work[1].name = <<o, v, c, f>>
        PROVE  mf = CacheManifest(r.work[1].name)
    BY <2>1, <2>3, <1>NamedFragment, Zenon
  <2> QED
    BY <2>2, <2>3, Zenon DEF FoundFor, mf
(* One look-up of _resolve_one_many_levels.                                 *)
<1>ResolveReads.
    ASSUME Base, ReadInv, NEW c \in Client, Resolve(c) PROVE ReadInv'
  <2> USE <1>ResolveReads
  <2> DEFINE r == th[c]
             w == r.work[1]
             rest == Tail(r.work)
             key == <<r.lv[w.level], w.name>>
             mf == lru_find(mc, key).mf
             found == resolve(mf, w.slices)
             below == [j \in DOMAIN found |->
                         [i |-> w.i, level |-> w.level + 1, name |-> CacheName(found[j]),
                          slices |-> <<[offset |-> found[j].offset, size |-> found[j].length,
                                        target |-> found[j].target]>>]]
             missed == [r EXCEPT !.via = @ \union {w.i}, !.locs[w.i] = <<>>, !.work = others(rest, w.i)]
             lower == [r EXCEPT !.work = below \o rest]
             done == [r EXCEPT !.locs[w.i] = @ \o found, !.work = rest]
  <2>1. /\ r.pc = "resolve" /\ r.work # <<>> /\ mc' = relocate(mc, key)
        /\ UNCHANGED <<last, floor, known, epilogues, backend, quiet>>
    BY Zenon DEF Resolve, same, nsmVars, accessVars
  <2>2. \/ ~has(mc, key) /\ Goes(c, missed)
        \/ Undefined(c, "outside")
        \/ has(mc, key) /\ AllInside(mf, w.slices) /\ w.level < Len(r.lv) /\ Goes(c, lower)
        \/ has(mc, key) /\ AllInside(mf, w.slices) /\ Goes(c, done)
    BY Zenon DEF Resolve
  <2>3. Phase(r) = "resolve" /\ Phase(r) \in Reading
    BY <2>1, Zenon DEF Phase, Updating, Reading
  <2>4. Sound(r) /\ Current(floor, last, backend, r) /\ ReadOk(r) /\ IsCall(r)
    BY <2>3, ReadIs, Zenon
  <2>5. Resolving(r) /\ r.req \in Seq(ObjectSlices)
    BY <2>3, <2>4, Zenon DEF ReadOk, Sound
  <2>6. CacheInv /\ World
    BY Zenon DEF Base, ReadInv
  <2>7. ASSUME NEW s, Goes(c, s), Keeps(r, s), s.pc = "resolve", s.got = r.got, s.via \subseteq DOMAIN r.req,
               Resolving(s)
        PROVE  ReadInv'
    <3>1. s.got = [i \in DOMAIN r.req |-> s.got[i]]
      BY <2>4, <2>7, Zenon DEF Sound
    <3>2. Sound(s) /\ Current(floor, last, backend, s)
      BY <2>4, <2>7, <3>1, KeepsOk, Zenon
    <3> QED
      BY <2>1, <2>7, <3>2, <1>MoveLooks, Zenon
  <2>8. ASSUME has(mc, key) PROVE FoundFor(r, mf)
    BY <2>4, <2>6, <2>8, <1>FoundForIs, Zenon
  <2>9. r.via \subseteq DOMAIN r.req
    BY <2>4, Zenon DEF Sound
  <2>10. CASE ~has(mc, key) /\ Goes(c, missed)
    <3>1. /\ Keeps(r, missed) /\ missed.pc = "resolve" /\ missed.got = r.got /\ missed.lv = r.lv
          /\ missed.via = r.via \union {r.work[1].i}
          /\ missed.locs = [r.locs EXCEPT ![r.work[1].i] = <<>>]
          /\ missed.work = others(Tail(r.work), r.work[1].i)
      BY <2>1, <2>4, SomeFields, Zenon DEF IsCall, Keeps
    <3> HIDE DEF missed
    <3>2. Resolving(missed) /\ r.work[1].i \in DOMAIN r.req
      BY <2>1, <2>5, <3>1, <1>Missed, Zenon DEF Keeps
    <3>3. missed.via \subseteq DOMAIN r.req
      BY <2>9, <3>1, <3>2, Zenon
    <3> QED
      BY <2>7, <2>10, <3>1, <3>2, <3>3, Zenon
  <2>11. CASE Undefined(c, "outside")
    BY <2>1, <2>11, FreshRests, <1>MoveLooks, Zenon DEF Undefined
  <2>12. CASE has(mc, key) /\ AllInside(mf, w.slices) /\ w.level < Len(r.lv) /\ Goes(c, lower)
    <3>1. Lowers(r.work[1], found, below)
      <4> HIDE DEF found
      <4> QED
        BY Zenon DEF Lowers
    <3> HIDE DEF below, mf, found
    <3>2. /\ Keeps(r, lower) /\ lower.pc = "resolve" /\ lower.got = r.got /\ lower.lv = r.lv
          /\ lower.via = r.via /\ lower.locs = r.locs /\ lower.work = below \o Tail(r.work)
      BY <2>1, <2>4, SomeFields, Zenon DEF IsCall, Keeps
    <3> HIDE DEF lower
    <3>3. Resolving(lower)
      BY <2>1, <2>5, <2>8, <2>12, <3>1, <3>2, <1>Descended, Zenon DEF Keeps, found
    <3> QED
      BY <2>7, <2>9, <2>12, <3>2, <3>3, Zenon
  <2>13. CASE has(mc, key) /\ AllInside(mf, w.slices) /\ Goes(c, done)
    <3> HIDE DEF mf, found
    <3>1. /\ Keeps(r, done) /\ done.pc = "resolve" /\ done.got = r.got /\ done.lv = r.lv
          /\ done.via = r.via /\ Extends(r.locs, r.work[1].i, found, done.locs)
          /\ done.work = Tail(r.work)
      BY <2>1, <2>4, SomeFields, Zenon DEF IsCall, Keeps, Extends
    <3> HIDE DEF done
    <3>2. Resolving(done)
      BY <2>1, <2>5, <2>8, <2>13, <3>1, <1>Finished, Zenon DEF Keeps, found
    <3> QED
      BY <2>7, <2>9, <2>13, <3>1, <3>2, Zenon
  <2> QED
    BY <2>2, <2>10, <2>11, <2>12, <2>13, Zenon
<1> QED
  BY <1>ResolveReads, Zenon

(* The fast path once the locations are there.                              *)
LEMMA DirectStep ==
    Base /\ ReadInv /\ (\E c \in Client : ShortPath(c) \/ ReadDirect(c) \/ Decrypt(c))
      => ReadInv'
(* The end of the fast path: the buffers that were read are right; after a  *)
(* failure all are read again.                                              *)
<1>FastDoneOk.
    ASSUME NEW r, Sound(r), Located(r), NEW rc,
           rc = 0 => \A i \in DOMAIN r.req \ r.via : \A j \in DOMAIN r.locs[i] : Readable(r.locs[i][j]),
           NEW fl, NEW la, NEW be, Current(fl, la, be, r)
    PROVE  \/ Rests(FastDone(r, rc))
           \/ /\ ReadOk(FastDone(r, rc)) /\ SeenOk(fl, la, be, FastDone(r, rc))
              /\ \A ca, kn, ep : QuietOk(ca, kn, ep, FastDone(r, rc))
  <2> USE <1>FastDoneOk
  <2> DEFINE got == [i \in DOMAIN r.got |-> IF i \in r.via THEN <<>> ELSE Filled(r.req[i].slices, r.locs[i])]
             a == [r EXCEPT !.failures = 0, !.got = got]
             n == IF rc = -2 \/ r.failures > MaxFailures THEN r.failures ELSE r.failures + 1
             b == [r EXCEPT !.via = redo(r), !.recent = TRUE, !.failures = n]
             end(d) == IF d.via = {} THEN Returned(d) ELSE [d EXCEPT !.pc = "lookup", !.locs = <<>>]
  <2>0. IsCall(r) /\ DOMAIN r.got = DOMAIN r.req
    BY Zenon DEF Sound
  <2>1. ASSUME NEW d, Sound(d), Fetched(d, DOMAIN d.req \ d.via), Current(fl, la, be, d)
        PROVE  \/ Rests(end(d))
               \/ /\ ReadOk(end(d)) /\ SeenOk(fl, la, be, end(d))
                  /\ \A ca, kn, ep : QuietOk(ca, kn, ep, end(d))
    <3>1. CASE d.via = {}
      <4>1. Fetched(d, DOMAIN d.req) /\ d.req \in Seq(ObjectSlices)
        BY <2>1, <3>1, Zenon DEF Fetched, Sound
      <4> QED
        BY <3>1, <4>1, ReturnedRests, Zenon
    <3>2. CASE d.via # {}
      <4> DEFINE e == [d EXCEPT !.pc = "lookup", !.locs = <<>>]
      <4>1. /\ IsCall(e) /\ e.pc = "lookup" /\ e.wrong = d.wrong /\ e.req = d.req /\ e.via = d.via
            /\ e.got = d.got /\ e.from = d.from /\ e.mark = d.mark /\ e.infos = d.infos
        BY <2>1, SomeFields, Zenon DEF IsCall, Sound
      <4> HIDE DEF e
      <4>2. /\ Sound(e) /\ Fetched(e, DOMAIN e.req \ e.via) /\ Current(fl, la, be, e) /\ e.via # {}
        BY <2>1, <3>2, <4>1, Zenon DEF Sound, Fetched, Current
      <4>3. ReadOk(e) /\ SeenOk(fl, la, be, e) /\ \A ca, kn, ep : QuietOk(ca, kn, ep, e)
        BY <4>1, <4>2, LookupOk, Zenon
      <4> QED
        BY <3>2, <4>3, Zenon DEF e
    <3> QED
      BY <3>1, <3>2, Zenon
  <2>2. CASE rc = 0
    <3>1. FastDone(r, rc) = end(a)
      BY <2>2, Zenon DEF FastDone
    <3>2. /\ IsCall(a) /\ a.wrong = r.wrong /\ a.req = r.req /\ a.via = r.via /\ a.got = got
          /\ a.from = r.from /\ a.mark = r.mark /\ a.infos = r.infos
      <4> HIDE DEF got
      <4> QED
        BY <2>0, SomeFields, Zenon DEF IsCall
    <3> HIDE DEF a
    <3>3. Sound(a)
      <4>1. got = [i \in DOMAIN r.req |-> got[i]]
        BY <2>0, Zenon
      <4> HIDE DEF got
      <4> QED
        BY <3>2, <4>1, Zenon DEF Sound
    <3>4. ASSUME NEW i \in DOMAIN r.req \ r.via PROVE GotOk(r.req[i], r.from, got[i])
      <4>1. got[i] = Filled(r.req[i].slices, r.locs[i])
        BY <2>0, <3>4, Zenon
      <4>2. r.req[i] \in ObjectSlices
        BY DEF Sound
      <4>3. Whole(r.req[i], r.from, r.locs[i])
        BY Zenon DEF Located
      <4> QED
        BY <2>2, <4>1, <4>2, <4>3, WholeGot, Zenon
    <3>5. Fetched(a, DOMAIN a.req \ a.via) /\ Current(fl, la, be, a)
      <4> HIDE DEF got
      <4> QED
        BY <3>2, <3>4, Zenon DEF Fetched, Current
    <3> HIDE DEF end
    <3> QED
      BY <2>1, <3>1, <3>3, <3>5, Zenon
  <2>3. CASE rc # 0
    <3>1. FastDone(r, rc) = end(b)
      BY <2>3, Zenon DEF FastDone
    <3> HIDE DEF n
    <3>2. /\ IsCall(b) /\ b.wrong = r.wrong /\ b.req = r.req /\ b.via = DOMAIN r.req /\ b.got = r.got
          /\ b.from = r.from /\ b.mark = r.mark /\ b.infos = r.infos
      BY <2>0, SomeFields, Zenon DEF IsCall, redo
    <3> HIDE DEF b
    <3>3. Sound(b) /\ Fetched(b, DOMAIN b.req \ b.via) /\ Current(fl, la, be, b)
      BY <3>2, Zenon DEF Sound, Fetched, Current
    <3> HIDE DEF end
    <3> QED
      BY <2>1, <3>1, <3>3, Zenon
  <2> QED
    BY <2>2, <2>3, Zenon
(* The end of the fast path.                                                *)
<1>FastMoves.
    ASSUME Base, ReadInv, NEW c \in Client, th[c].pc \notin Resting, Beside, NEW r, Sound(r),
           Located(r), Current(floor, last, backend, r), NEW rc,
           rc = 0 => \A l \in locations(r.locs) : Readable(l), Goes(c, FastDone(r, rc))
    PROVE  ReadInv'
  <2> USE <1>FastMoves
  <2>1. ASSUME rc = 0, NEW i \in DOMAIN r.req \ r.via, NEW j \in DOMAIN r.locs[i]
        PROVE  Readable(r.locs[i][j])
    <3>1. i \in DOMAIN r.locs
      BY <2>1, Zenon DEF Located
    <3>2. r.locs[i][j] \in locations(r.locs)
      <4>1. r.locs[i][j] \in Elements(r.locs[i])
        BY <2>1, Zenon DEF Elements
      <4>2. Elements(r.locs[i]) \in {Elements(r.locs[k]) : k \in DOMAIN r.locs}
        BY <3>1, Zenon
      <4> QED
        BY <4>1, <4>2, Zenon DEF locations
    <3> QED
      BY <2>1, <3>2, Zenon
  <2> DEFINE d == FastDone(r, rc)
  <2>2. \/ Rests(d)
        \/ /\ ReadOk(d) /\ SeenOk(floor, last, backend, d)
           /\ \A ca, kn, ep : QuietOk(ca, kn, ep, d)
    BY <2>1, <1>FastDoneOk, Zenon
  <2> HIDE DEF d
  <2>3. Goes(c, d)
    BY Zenon DEF d
  <2> QED
    BY <2>2, <2>3, EndBeside, MoveBeside, Zenon
(* Going on to read, maybe after an update.                                 *)
<1>LocatedMoves.
    ASSUME Base, ReadInv, NEW c \in Client, th[c].pc \notin Resting, Beside, NEW r, Sound(r),
           Located(r), Current(floor, last, backend, r), Goes(c, r),
           Phase(r) \in {"read", "decrypt"}, r.pc \in Updating => r.ret = "read"
    PROVE  ReadInv'
  <2> USE <1>LocatedMoves
  <2>1. /\ Phase(r) \in Reading /\ Phase(r) # "get" /\ Phase(r) \notin {"levels", "copy"}
        /\ Phase(r) # "resolve" /\ Phase(r) # "lookup"
    BY Zenon DEF Reading
  <2>2. ReadOk(r) /\ SeenOk(floor, last, backend, r) /\ \A ca, kn, ep : QuietOk(ca, kn, ep, r)
    BY <2>1, ReadingOk, Zenon
  <2> QED
    BY <2>2, MoveBeside, Zenon
(* The fast path's reading changes nothing but the call.                    *)
<1>ReadBeside.
    ASSUME ReadInv, NEW c, ShortPath(c) \/ ReadDirect(c) \/ Decrypt(c) PROVE Beside
  BY <1>ReadBeside, Zenon DEF ShortPath, ReadDirect, Decrypt, Beside, ReadInv, World, same, sameButEvents, nsmVars,
               accessVars
(* _short_path: which objects it leaves to the proxy.                       *)
<1>ShortPathReads.
    ASSUME Base, ReadInv, NEW c \in Client, ShortPath(c) PROVE ReadInv'
  <2> USE <1>ShortPathReads
  <2> DEFINE r == th[c]
             split == {i \in DOMAIN r.req : \E l \in Elements(r.locs[i]) : proxyOnly(l)}
             locs == [i \in DOMAIN r.req |-> IF i \in split THEN <<>> ELSE r.locs[i]]
             rec == [r EXCEPT !.via = @ \union split, !.locs = locs]
             reading == [rec EXCEPT !.pc = "read"]
             updating == [rec EXCEPT !.pc = "update", !.ret = "read"]
  <2>1. /\ r.pc = "resolve" /\ r.work = <<>> /\ Beside
        /\ \/ needed(locs) = {} /\ Goes(c, FastDone(rec, 0))
           \/ Undefined(c, "levels") \/ Goes(c, reading) \/ Goes(c, updating)
    <3>1. Beside
      BY <1>ReadBeside, Zenon
    <3> QED
      BY <3>1, Zenon DEF ShortPath
  <2>2. Phase(r) = "resolve" /\ Phase(r) \in Reading /\ r.pc \notin Resting
    BY <2>1, Zenon DEF Phase, Updating, Reading, Resting
  <2>3. Sound(r) /\ Current(floor, last, backend, r) /\ ReadOk(r) /\ IsCall(r)
    BY <2>2, ReadIs, Zenon
  <2>4. split \subseteq DOMAIN r.req
    BY Zenon
  <2>5. /\ locs = [i \in DOMAIN r.req |-> locs[i]] /\ \A i \in DOMAIN r.req \ split : locs[i] = r.locs[i]
    BY Zenon
  <2> HIDE DEF split, locs
  <2>6. /\ Keeps(r, rec) /\ rec.via = r.via \union split /\ rec.locs = locs /\ rec.got = r.got
        /\ Keeps(r, reading) /\ reading.via = r.via \union split /\ reading.locs = locs
        /\ reading.got = r.got /\ reading.pc = "read"
        /\ Keeps(r, updating) /\ updating.via = r.via \union split /\ updating.locs = locs
        /\ updating.got = r.got /\ updating.pc = "update" /\ updating.ret = "read"
    BY <2>3, SomeFields, Zenon DEF IsCall, Keeps
  <2>7. ASSUME NEW i \in DOMAIN r.req \ (r.via \union split) PROVE Whole(r.req[i], r.from, locs[i])
    <3>1. Progress(r.req[i], r.from, r.locs[i], <<>>, i)
      BY <2>1, <2>2, <2>3, Zenon DEF ReadOk, Resolving
    <3>2. locs[i] = r.locs[i]
      BY <2>5, Zenon
    <3> QED
      BY <3>1, <3>2, ProgressDone, Zenon
  <2>8. ASSUME NEW s, Keeps(r, s), s.via = r.via \union split, s.locs = locs, s.got = r.got
        PROVE  Sound(s) /\ Located(s) /\ Current(floor, last, backend, s)
    <3>1. s.via \subseteq DOMAIN r.req /\ s.got = [i \in DOMAIN r.req |-> s.got[i]]
      BY <2>3, <2>4, <2>8, Zenon DEF Sound
    <3>2. Located(s)
      BY <2>5, <2>7, <2>8, Zenon DEF Located, Keeps
    <3> QED
      BY <2>3, <2>8, <3>1, <3>2, KeepsOk, Zenon
  <2> HIDE DEF rec, reading, updating
  <2>9. CASE needed(locs) = {} /\ Goes(c, FastDone(rec, 0))
    <3>1. \A l \in locations(rec.locs) : Readable(l)
      BY <2>6, <2>9, Zenon DEF needed
    <3>2. Sound(rec) /\ Located(rec) /\ Current(floor, last, backend, rec)
      BY <2>6, <2>8, Zenon
    <3> QED
      BY <2>1, <2>2, <2>9, <3>1, <3>2, <1>FastMoves, Zenon
  <2>10. CASE Undefined(c, "levels")
    BY <2>1, <2>2, <2>10, FreshRests, EndBeside, Zenon DEF Undefined
  <2>11. CASE Goes(c, reading)
    <3>1. Phase(reading) = "read" /\ reading.pc \notin Updating
      BY <2>6, Zenon DEF Phase, Updating
    <3>2. Sound(reading) /\ Located(reading) /\ Current(floor, last, backend, reading)
      BY <2>6, <2>8, Zenon
    <3> QED
      BY <2>1, <2>2, <2>11, <3>1, <3>2, <1>LocatedMoves, Zenon
  <2>12. CASE Goes(c, updating)
    <3>1. Phase(updating) = "read"
      BY <2>6, Zenon DEF Phase, Updating
    <3>2. Sound(updating) /\ Located(updating) /\ Current(floor, last, backend, updating)
      BY <2>6, <2>8, Zenon
    <3> QED
      BY <2>1, <2>2, <2>6, <2>12, <3>1, <3>2, <1>LocatedMoves, Zenon
  <2> QED
    BY <2>1, <2>9, <2>10, <2>11, <2>12, Zenon
(* OsdAccess::read_osds_slices, or its failure.                             *)
<1>ReadDirectReads.
    ASSUME Base, ReadInv, NEW c \in Client, ReadDirect(c) PROVE ReadInv'
  <2> USE <1>ReadDirectReads
  <2> DEFINE r == th[c]
             ls == locations(r.locs)
             decrypt == [r EXCEPT !.pc = "decrypt"]
  <2>1. /\ r.pc = "read" /\ Beside
        /\ \/ Undefined(c, "levels") \/ Goes(c, decrypt)
           \/ (\A l \in ls : l.encryption = "none") /\ Goes(c, FastDone(r, 0))
           \/ Goes(c, FastDone(r, -1)) \/ Goes(c, FastDone(r, -2))
    <3>1. Beside
      BY <1>ReadBeside, Zenon
    <3> QED
      BY <3>1, Zenon DEF ReadDirect
  <2>2. Phase(r) = "read" /\ Phase(r) \in Reading /\ r.pc \notin Resting
    BY <2>1, Zenon DEF Phase, Updating, Reading, Resting
  <2>3. Sound(r) /\ Current(floor, last, backend, r) /\ ReadOk(r) /\ IsCall(r)
    BY <2>2, ReadIs, Zenon
  <2>4. Located(r)
    BY <2>2, <2>3, Zenon DEF ReadOk
  <2>5. CASE Undefined(c, "levels")
    BY <2>1, <2>2, <2>5, FreshRests, EndBeside, Zenon DEF Undefined
  <2>6. CASE Goes(c, decrypt)
    <3>1. /\ Keeps(r, decrypt) /\ decrypt.via = r.via /\ decrypt.locs = r.locs /\ decrypt.got = r.got
          /\ decrypt.pc = "decrypt"
      BY <2>3, SomeFields, Zenon DEF IsCall, Keeps
    <3> HIDE DEF decrypt
    <3>2. Phase(decrypt) = "decrypt" /\ decrypt.pc \notin Updating
      BY <3>1, Zenon DEF Phase, Updating
    <3>3. decrypt.via \subseteq DOMAIN r.req /\ decrypt.got = [i \in DOMAIN r.req |-> decrypt.got[i]]
      BY <2>3, <3>1, Zenon DEF Sound
    <3>4. Sound(decrypt) /\ Current(floor, last, backend, decrypt)
      BY <2>3, <3>1, <3>3, KeepsOk, Zenon
    <3>5. Located(decrypt)
      BY <2>4, <3>1, Zenon DEF Located, Keeps
    <3> QED
      BY <2>1, <2>2, <2>6, <3>2, <3>4, <3>5, <1>LocatedMoves, Zenon
  <2>7. CASE (\A l \in ls : l.encryption = "none") /\ Goes(c, FastDone(r, 0))
    <3>1. \A l \in locations(r.locs) : Readable(l)
      BY <2>7, Zenon DEF Readable
    <3> QED
      BY <2>1, <2>2, <2>3, <2>4, <2>7, <3>1, <1>FastMoves, Zenon
  <2>8. CASE Goes(c, FastDone(r, -1)) \/ Goes(c, FastDone(r, -2))
    <3>1. -1 # 0 /\ -2 # 0
      OBVIOUS
    <3> QED
      BY <2>1, <2>2, <2>3, <2>4, <2>8, <3>1, <1>FastMoves, Zenon
  <2> QED
    BY <2>1, <2>5, <2>6, <2>7, <2>8, Zenon
(* The decryption of what was read, or its failure.                         *)
<1>DecryptReads.
    ASSUME Base, ReadInv, NEW c \in Client, Decrypt(c) PROVE ReadInv'
  <2> USE <1>DecryptReads
  <2> DEFINE r == th[c]
  <2>1. /\ r.pc = "decrypt" /\ Beside
        /\ \/ /\ \A l \in locations(r.locs) : l.encryption # "none" => l.ctr # <<>>
              /\ Goes(c, FastDone(r, 0))
           \/ Goes(c, FastDone(r, -1))
    <3>1. Beside
      BY <1>ReadBeside, Zenon
    <3> QED
      BY <3>1, Zenon DEF Decrypt
  <2>2. Phase(r) = "decrypt" /\ Phase(r) \in Reading /\ r.pc \notin Resting
    BY <2>1, Zenon DEF Phase, Updating, Reading, Resting
  <2>3. Sound(r) /\ Current(floor, last, backend, r) /\ ReadOk(r) /\ IsCall(r)
    BY <2>2, ReadIs, Zenon
  <2>4. Located(r)
    BY <2>2, <2>3, Zenon DEF ReadOk
  <2>5. CASE /\ \A l \in locations(r.locs) : l.encryption # "none" => l.ctr # <<>>
             /\ Goes(c, FastDone(r, 0))
    <3>1. \A l \in locations(r.locs) : Readable(l)
      BY <2>5, Zenon DEF Readable
    <3> QED
      BY <2>1, <2>2, <2>3, <2>4, <2>5, <3>1, <1>FastMoves, Zenon
  <2>6. CASE Goes(c, FastDone(r, -1))
    <3>1. -1 # 0
      OBVIOUS
    <3> QED
      BY <2>1, <2>2, <2>3, <2>4, <2>6, <3>1, <1>FastMoves, Zenon
  <2> QED
    BY <2>1, <2>5, <2>6, Zenon
<1> QED
  BY <1>ShortPathReads, <1>ReadDirectReads, <1>DecryptReads, Zenon
=============================================================================
