------------------------ MODULE CorePipelinesProofs ------------------------
(***************************************************************************)
(* The pipelines of OpenEXRCore for any chunks of any sizes: what is       *)
(* allocated has one owner and is released once (BuffersSound), what is    *)
(* stored and what is delivered is what was asked for (ChunksStored,       *)
(* ChunksDelivered), and what belongs to the application is left alone     *)
(* (ApplicationsKept).                                                     *)
(*                                                                         *)
(* The proof goes along the memory.  Sound(mem) is kept by every operation *)
(* on buffers, and Touches(mem, nm, B) says which buffers one has left     *)
(* alone, so that what an earlier stage has put into a buffer, Holds(...), *)
(* is still there for a later one.  IInv adds what each stage of a run     *)
(* finds in the buffers, for the Job that the run is to do: a pipeline     *)
(* keeps buffers and aliases from the chunks before, so this must not      *)
(* depend on what they were.                                               *)
(*                                                                         *)
(* Two things an application may do are outside of it.  A lent table that  *)
(* is unpacked in place (Job.open) is left out of what is kept.  And when  *)
(* a block has been adopted under the name of one buffer that another one  *)
(* counts as its own (d.shared), nothing is said of the memory any more:   *)
(* the invariant is IInv until then and Loose, which speaks of the file    *)
(* only, from then on.                                                     *)
(***************************************************************************)
EXTENDS CorePipelines, FiniteSetTheorems, WellFoundedInduction, TLAPS

-----------------------------------------------------------------------------
(* Memories.                                                                *)

Addr == Buffers \X (Nat \ {0})
Forms == {"junk", "plain", "coded", "individual"}
TokenT == [what : {"none", "counts", "pixels"}, of : Nat, form : Forms]
BlockT == [own : {"pipeline", "application"}, size : Nat, data : TokenT]
BufferT == [ptr : Addr \cup {Null}, size : Nat]

\* Finitely many blocks at addresses.
Heaps == UNION {[D -> BlockT] : D \in {D \in SUBSET Addr : IsFiniteSet(D)}}
MemT == [heap : Heaps, buf : [Buffers -> BufferT], fault : BOOLEAN]

\* What a buffer owns is there, is its own, and is as large as its size says.
OwnedSound(mem) ==
    \A b \in Buffers : Owns(mem, b) =>
        LET p == mem.buf[b].ptr IN
        /\ p \in DOMAIN mem.heap /\ p[1] = b
        /\ mem.heap[p].own = "pipeline" /\ mem.heap[p].size = mem.buf[b].size

\* Every block of the pipeline has an owner.
NoLeak(mem) ==
    \A p \in DOMAIN mem.heap : mem.heap[p].own = "pipeline" =>
        p[1] \in Buffers /\ Owns(mem, p[1]) /\ mem.buf[p[1]].ptr = p

\* A buffer points to a block of its own or of the one it may stand for.
Original(b) == CASE b \in {"unpacked", "compressed"} -> "packed"
                 [] b = "table" -> "packedTable"
                 [] OTHER -> b
Tagged(mem) == \A b \in Buffers : mem.buf[b].ptr[1] \in {"none", b, Original(b)}

Sound(mem) == /\ mem \in MemT /\ ~mem.fault
              /\ OwnedSound(mem) /\ NoLeak(mem) /\ Tagged(mem)

\* What a decoder is asked for: units of the table in the file, of the counts and of
\* the table of its user; units of the pixels in the file and unpacked, if they are
\* wanted in a buffer; whose memory it may read from, and where the table is that the
\* application has lent if that is unpacked in place (Exposed).
Job == [stored   |-> IF Deep THEN Cur.table ELSE 0,
        area     |-> IF Deep THEN Cur.area ELSE 0,
        size     |-> IF Deep THEN TableSize ELSE 0,
        packed   |-> IF d.countsOnly \/ d.direct THEN 0 ELSE Cur.packed,
        unpacked |-> IF d.countsOnly \/ d.direct THEN 0 ELSE Cur.unpacked,
        coded    |-> Coded,
        counts   |-> Cur.counts,
        pixels   |-> Cur.pixels,
        owners   |-> IF d.foreign THEN {"pipeline", "application"} ELSE {"pipeline"},
        open     |-> IF d.foreign /\ Cur.table = TableSize
                     THEN {Address("packedTable", {})} ELSE {}]

\* What an application has in a heap is still there, and is the same but for what is
\* open to the job.
KeepsApp(mem, nm) ==
    \A p \in DOMAIN mem.heap : mem.heap[p].own = "application" =>
        /\ p \in DOMAIN nm.heap
        /\ nm.heap[p].own = "application" /\ nm.heap[p].size = mem.heap[p].size
        /\ p \notin Job.open => nm.heap[p] = mem.heap[p]

\* Another memory differs only in buffers of B and in the blocks they own.
Touches(mem, nm, B) ==
    /\ \A a \in Buffers \ B : nm.buf[a] = mem.buf[a]
    /\ \A p \in DOMAIN mem.heap : p[1] \notin B =>
           p \in DOMAIN nm.heap /\ nm.heap[p] = mem.heap[p]
    /\ KeepsApp(mem, nm)

LEMMA HeapsOpen ==
    ASSUME NEW h
    PROVE  h \in Heaps <=> /\ DOMAIN h \subseteq Addr /\ IsFiniteSet(DOMAIN h)
                           /\ h \in [DOMAIN h -> BlockT]
  <1>1. ASSUME h \in Heaps
        PROVE  DOMAIN h \subseteq Addr /\ IsFiniteSet(DOMAIN h) /\ h \in [DOMAIN h -> BlockT]
    <2>1. PICK D \in SUBSET Addr : IsFiniteSet(D) /\ h \in [D -> BlockT]
      BY <1>1 DEF Heaps
    <2>2. D = DOMAIN h
      BY <2>1
    <2>3. QED
      BY <2>1, <2>2
  <1>2. ASSUME DOMAIN h \subseteq Addr, IsFiniteSet(DOMAIN h), h \in [DOMAIN h -> BlockT]
        PROVE  h \in Heaps
    <2>1. PICK D \in SUBSET Addr : D = DOMAIN h
      BY <1>2
    <2>2. IsFiniteSet(D) /\ h \in [D -> BlockT]
      BY <1>2, <2>1
    <2>3. QED
      BY <2>2, Zenon DEF Heaps
  <1>3. QED
    BY <1>1, <1>2

\* A set of numbers that is not empty has a least element.
LEMMA LeastNumber ==
    ASSUME NEW S, S \subseteq Nat, S # {}
    PROVE  \E u \in S : \A v \in S : u <= v
  <1>1. PICK u \in S : \A v \in S : ~ (<<v, u>> \in OpToRel(<, Nat))
    BY NatLessThanWellFounded, WFMin
  <1>2. OpToRel(<, Nat) = {p \in Nat \X Nat : p[1] < p[2]}
    BY Zenon DEF OpToRel
  <1>3. ASSUME NEW v \in S PROVE u <= v
    <2>1. <<v, u>> \notin {p \in Nat \X Nat : p[1] < p[2]}
      BY <1>1, <1>2, Zenon
    <2>2. u \in Nat /\ v \in Nat
      OBVIOUS
    <2>3. ~(v < u)
      BY <2>1, <2>2
    <2>4. QED
      BY <2>2, <2>3
  <1>4. QED
    BY <1>3

\* The allocator has an address that is not taken.
LEMMA AddressNew ==
    ASSUME NEW b \in Buffers, NEW taken, IsFiniteSet(taken)
    PROVE  /\ Address(b, taken) \in Addr /\ Address(b, taken) \notin taken
           /\ Address(b, taken)[1] = b
  <1> DEFINE n == Cardinality(taken)
             S == {k \in 1 .. n + 1 : <<b, k>> \notin taken}
  <1>1. n \in Nat
    BY FS_CardinalityType
  <1>2. S # {}
    <2> SUFFICES ASSUME \A k \in 1 .. n + 1 : <<b, k>> \in taken PROVE FALSE
      OBVIOUS
    <2> DEFINE f == [k \in 1 .. n + 1 |-> <<b, k>>]
    <2>1. f \in Injection(1 .. n + 1, taken)
      BY DEF Injection, IsInjective
    <2>2. IsFiniteSet(1 .. n + 1) /\ Cardinality(1 .. n + 1) = n + 1
      BY <1>1, FS_Interval
    <2> HIDE DEF f
    <2>3. Cardinality(1 .. n + 1) <= n
      BY <2>1, FS_Injection
    <2>4. QED
      BY <1>1, <2>2, <2>3
  <1>3. S \subseteq Nat
    BY <1>1
  <1> HIDE DEF S
  <1>4. PICK k \in S : \A j \in S : k <= j
    BY <1>2, <1>3, LeastNumber
  <1> USE DEF S
  <1>5. k \in 1 .. n + 1 /\ <<b, k>> \notin taken
    OBVIOUS
  <1>6. ASSUME NEW j \in 1 .. k - 1 PROVE <<b, j>> \in taken
    <2>1. j \in 1 .. n + 1 /\ ~(k <= j)
      BY <1>1, <1>5
    <2>2. QED
      BY <1>4, <2>1
  <1>7. PICK i \in 1 .. n + 1 : Address(b, taken) = <<b, i>> /\ <<b, i>> \notin taken
    BY <1>5, <1>6 DEF Address
  <1>8. i \in Nat \ {0}
    BY <1>1
  <1>9. QED
    BY <1>7, <1>8 DEF Addr

LEMMA BuffersFinite == IsFiniteSet(Buffers)
  <1>1. Buffers = ((((({"packed"} \cup {"unpacked"}) \cup {"compressed"}) \cup {"packedTable"})
                     \cup {"table"}) \cup {"scratch"})
    BY DEF Buffers
  <1>2. QED
    BY <1>1, FS_Singleton, FS_Union

\* Both addresses that the allocator may choose are new.
LEMMA AddressesNew ==
    ASSUME NEW mem \in MemT, NEW b \in Buffers, NEW p \in Addresses(mem, b)
    PROVE  p \in Addr /\ p \notin DOMAIN mem.heap /\ p[1] = b /\ p # Null
  <1> DEFINE live == DOMAIN mem.heap
             ptrs == {mem.buf[a].ptr : a \in Buffers}
             f == [a \in Buffers |-> mem.buf[a].ptr]
  <1>1. f \in Surjection(Buffers, ptrs)
    BY DEF Surjection
  <1>2. IsFiniteSet(ptrs)
    BY <1>1, BuffersFinite, FS_Surjection
  <1>3. IsFiniteSet(live) /\ IsFiniteSet(live \cup ptrs)
    BY <1>2, FS_Union, HeapsOpen DEF MemT
  <1>4. p = Address(b, live) \/ p = Address(b, live \cup ptrs)
    BY DEF Addresses
  <1>5. p \in Addr /\ p \notin live /\ p[1] = b
    BY <1>3, <1>4, AddressNew
  <1>6. p # Null
    BY <1>5 DEF Null, Buffers
  <1>7. QED
    BY <1>5, <1>6

\* Releasing a buffer.
LEMMA FreeIs ==
    ASSUME NEW mem, Sound(mem), NEW b \in Buffers
    PROVE  \E left \in Heaps :
              /\ left = IF Owns(mem, b)
                        THEN [q \in DOMAIN mem.heap \ {mem.buf[b].ptr} |-> mem.heap[q]]
                        ELSE mem.heap
              /\ FreeBuffer(mem, b) = [mem EXCEPT !.heap = left, !.buf[b] = Nobody]
  <1> DEFINE at == mem.buf[b].ptr
             rest == [q \in DOMAIN mem.heap \ {at} |-> mem.heap[q]]
  <1>1. mem \in MemT /\ mem.heap \in Heaps
    BY DEF Sound, MemT
  <1>2. rest \in Heaps
    <2>1. DOMAIN rest = DOMAIN mem.heap \ {at}
      OBVIOUS
    <2>2. /\ DOMAIN mem.heap \subseteq Addr /\ IsFiniteSet(DOMAIN mem.heap)
          /\ mem.heap \in [DOMAIN mem.heap -> BlockT]
      BY <1>1, HeapsOpen
    <2>3. DOMAIN rest \subseteq Addr /\ IsFiniteSet(DOMAIN rest)
      BY <2>1, <2>2, FS_Subset
    <2>4. rest \in [DOMAIN rest -> BlockT]
      BY <2>2
    <2> HIDE DEF rest
    <2>5. QED
      BY <2>3, <2>4, HeapsOpen
  <1>3. CASE Owns(mem, b)
    <2>1. at \in DOMAIN mem.heap /\ mem.heap[at].own = "pipeline"
      BY <1>3 DEF Sound, OwnedSound
    <2>2. Release(mem, at) = [mem EXCEPT !.heap = rest]
      BY <2>1 DEF Release, Restrict
    <2>3. FreeBuffer(mem, b) = Cleared(Release(mem, at), b)
      BY <1>3, Zenon DEF FreeBuffer
    <2> HIDE DEF rest
    <2>4. FreeBuffer(mem, b) = [mem EXCEPT !.heap = rest, !.buf[b] = Nobody]
      BY <1>1, <2>2, <2>3 DEF MemT, Cleared
    <2>5. QED
      BY <1>2, <1>3, <2>4, Zenon DEF rest
  <1>4. CASE ~Owns(mem, b)
    <2>1. FreeBuffer(mem, b) = Cleared(mem, b)
      BY <1>4, Zenon DEF FreeBuffer
    <2>2. FreeBuffer(mem, b) = [mem EXCEPT !.heap = mem.heap, !.buf[b] = Nobody]
      BY <1>1, <2>1 DEF MemT, Cleared
    <2>3. QED
      BY <1>1, <1>4, <2>2, Zenon
  <1>5. QED
    BY <1>3, <1>4, Zenon

LEMMA FreeSound ==
    ASSUME NEW mem, Sound(mem), NEW b \in Buffers
    PROVE  /\ Sound(FreeBuffer(mem, b)) /\ Touches(mem, FreeBuffer(mem, b), {b})
           /\ FreeBuffer(mem, b).buf[b] = Nobody
  <1> DEFINE p == mem.buf[b].ptr
             f == FreeBuffer(mem, b)
  <1>a. PICK left \in Heaps :
              /\ left = IF Owns(mem, b) THEN [q \in DOMAIN mem.heap \ {p} |-> mem.heap[q]]
                        ELSE mem.heap
              /\ f = [mem EXCEPT !.heap = left, !.buf[b] = Nobody]
    BY FreeIs, Zenon
  <1> HIDE DEF f
  <1>m. mem \in MemT /\ mem.heap \in Heaps /\ mem.buf \in [Buffers -> BufferT] /\ ~mem.fault
    BY DEF Sound, MemT
  <1>c. f.buf = [mem.buf EXCEPT ![b] = Nobody] /\ f.heap = left /\ f.fault = mem.fault
    BY <1>m, <1>a DEF MemT
  <1>1. f.heap = IF Owns(mem, b) THEN [q \in DOMAIN mem.heap \ {p} |-> mem.heap[q]]
                 ELSE mem.heap
    BY <1>a, <1>c, Zenon
  <1>2. f.buf = [mem.buf EXCEPT ![b] = Nobody]
    BY <1>c
  <1>3. f \in MemT /\ ~f.fault
    <2>1. Nobody \in BufferT
      BY DEF BufferT, Nobody
    <2>2. f \in MemT
      BY <1>m, <1>a, <2>1 DEF MemT
    <2>3. QED
      BY <1>m, <1>c, <2>2
  <1>5. /\ f.buf \in [Buffers -> BufferT] /\ f.buf[b] = Nobody
        /\ \A a \in Buffers : a # b => f.buf[a] = mem.buf[a]
        /\ ~Owns(f, b) /\ \A a \in Buffers : Owns(f, a) <=> a # b /\ Owns(mem, a)
    BY <1>m, <1>2 DEF BufferT, Nobody, Owns
  <1>6. \A q \in DOMAIN f.heap : q \in DOMAIN mem.heap /\ f.heap[q] = mem.heap[q]
    BY <1>1
  <1>7. \A q \in DOMAIN mem.heap : q \notin DOMAIN f.heap => Owns(mem, b) /\ q = p
    BY <1>1
  <1>8. Owns(mem, b) => p \notin DOMAIN f.heap
    BY <1>1
  <1>10. OwnedSound(f)
    <2> SUFFICES ASSUME NEW a \in Buffers, Owns(f, a)
                 PROVE  LET q == f.buf[a].ptr IN
                        /\ q \in DOMAIN f.heap /\ q[1] = a
                        /\ f.heap[q].own = "pipeline" /\ f.heap[q].size = f.buf[a].size
      BY DEF OwnedSound
    <2>1. a # b /\ Owns(mem, a) /\ f.buf[a] = mem.buf[a]
      BY <1>5
    <2>2. /\ mem.buf[a].ptr \in DOMAIN mem.heap /\ mem.buf[a].ptr[1] = a
          /\ Owns(mem, b) => p[1] = b
          /\ mem.heap[mem.buf[a].ptr].own = "pipeline"
          /\ mem.heap[mem.buf[a].ptr].size = mem.buf[a].size
      BY <2>1 DEF Sound, OwnedSound
    <2>3. QED
      BY <1>6, <1>7, <2>1, <2>2
  <1>11. NoLeak(f)
    <2> SUFFICES ASSUME NEW q \in DOMAIN f.heap, f.heap[q].own = "pipeline"
                 PROVE  q[1] \in Buffers /\ Owns(f, q[1]) /\ f.buf[q[1]].ptr = q
      BY DEF NoLeak
    <2>1. q[1] \in Buffers /\ Owns(mem, q[1]) /\ mem.buf[q[1]].ptr = q
      BY <1>6 DEF Sound, NoLeak
    <2>2. q[1] # b
      BY <1>8, <2>1
    <2>3. QED
      BY <1>5, <2>1, <2>2
  <1>12. Touches(mem, f, {b})
    <2>1. Owns(mem, b) => p[1] = b /\ mem.heap[p].own = "pipeline"
      BY DEF Sound, OwnedSound
    <2>2. QED
      BY <1>5, <1>6, <1>7, <2>1 DEF Touches, KeepsApp
  <1>t. Tagged(f)
    BY <1>5 DEF Sound, Tagged, Nobody, Null
  <1>13. QED
    BY <1>3, <1>5, <1>10, <1>11, <1>12, <1>t DEF Sound, f

\* What is touched in two steps.
LEMMA TouchesTwice ==
    ASSUME NEW m1, NEW m2, NEW m3, NEW B, NEW C, Touches(m1, m2, B), Touches(m2, m3, C)
    PROVE  Touches(m1, m3, B \cup C)
  BY DEF Touches, KeepsApp

LEMMA TouchesMore ==
    ASSUME NEW m1, NEW m2, NEW B, NEW C, B \subseteq C, Touches(m1, m2, B)
    PROVE  Touches(m1, m2, C)
  BY DEF Touches, KeepsApp

\* A new block in a buffer that owns none.
LEMMA NewBlock ==
    ASSUME NEW mem, Sound(mem), NEW b \in Buffers, ~Owns(mem, b), NEW n \in Nat \ {0},
           NEW p \in Addresses(mem, b), NEW nm,
           nm = Allocated(mem, b, p, n)
    PROVE  /\ Sound(nm) /\ Touches(mem, nm, {b})
           /\ Owns(nm, b) /\ nm.buf[b].size = n
  <1>1. p \in Addr /\ p \notin DOMAIN mem.heap /\ p[1] = b /\ p # Null
    BY AddressesNew DEF Sound
  <1>2. Block("pipeline", n, Junk) \in BlockT
    BY DEF Block, BlockT, Junk, Token, TokenT, Forms
  <1> DEFINE new == Block("pipeline", n, Junk)
  <1>3. new.own = "pipeline" /\ new.size = n
    BY DEF Block
  <1> HIDE DEF new
  <1>m. mem \in MemT /\ mem.heap \in Heaps /\ mem.buf \in [Buffers -> BufferT] /\ ~mem.fault
    BY DEF Sound, MemT
  <1> DEFINE heap == [q \in DOMAIN mem.heap \cup {p} |-> IF q = p THEN new ELSE mem.heap[q]]
  <1>w. nm = [mem EXCEPT !.heap = heap, !.buf[b] = [ptr |-> p, size |-> n]]
    BY <1>m DEF Allocated, WithBlock, MemT, new
  <1>h. heap \in Heaps
    <2>1. DOMAIN heap = DOMAIN mem.heap \cup {p}
      OBVIOUS
    <2>2. /\ DOMAIN mem.heap \subseteq Addr /\ IsFiniteSet(DOMAIN mem.heap)
          /\ mem.heap \in [DOMAIN mem.heap -> BlockT]
      BY <1>m, HeapsOpen
    <2>3. DOMAIN heap \subseteq Addr /\ IsFiniteSet(DOMAIN heap)
      BY <1>1, <2>1, <2>2, FS_AddElement
    <2>4. heap \in [DOMAIN heap -> BlockT]
      BY <1>2, <2>2 DEF new
    <2> HIDE DEF heap
    <2>5. QED
      BY <2>3, <2>4, HeapsOpen
  <1>6. /\ DOMAIN heap = DOMAIN mem.heap \cup {p} /\ heap[p] = new
        /\ \A q \in DOMAIN mem.heap : heap[q] = mem.heap[q]
    BY <1>1
  <1> HIDE DEF heap
  <1>4. /\ nm.heap = heap
        /\ nm.buf = [mem.buf EXCEPT ![b] = [ptr |-> p, size |-> n]]
        /\ nm.fault = mem.fault
    BY <1>m, <1>w DEF MemT
  <1>5. /\ nm.buf \in [Buffers -> BufferT] /\ nm.buf[b] = [ptr |-> p, size |-> n]
        /\ \A a \in Buffers : a # b => nm.buf[a] = mem.buf[a]
        /\ Owns(nm, b) /\ \A a \in Buffers : a # b => (Owns(nm, a) <=> Owns(mem, a))
    BY <1>m, <1>1, <1>4 DEF BufferT, Owns
  <1>7. nm \in MemT
    BY <1>m, <1>w, <1>h, <1>5, <1>4 DEF MemT
  <1>8. OwnedSound(nm)
    <2> SUFFICES ASSUME NEW a \in Buffers, Owns(nm, a)
                 PROVE  LET q == nm.buf[a].ptr IN
                        /\ q \in DOMAIN nm.heap /\ q[1] = a
                        /\ nm.heap[q].own = "pipeline" /\ nm.heap[q].size = nm.buf[a].size
      BY DEF OwnedSound
    <2>1. CASE a = b
      BY <2>1, <1>1, <1>3, <1>5, <1>4, <1>6
    <2>2. CASE a # b
      BY <2>2, <1>5, <1>4, <1>6 DEF Sound, OwnedSound
    <2>3. QED
      BY <2>1, <2>2
  <1>9. NoLeak(nm)
    <2> SUFFICES ASSUME NEW q \in DOMAIN nm.heap, nm.heap[q].own = "pipeline"
                 PROVE  q[1] \in Buffers /\ Owns(nm, q[1]) /\ nm.buf[q[1]].ptr = q
      BY DEF NoLeak
    <2>1. CASE q = p
      BY <2>1, <1>1, <1>5
    <2>2. CASE q # p
      <3>1. q \in DOMAIN mem.heap /\ mem.heap[q].own = "pipeline"
        BY <2>2, <1>4, <1>6
      <3>2. q[1] \in Buffers /\ Owns(mem, q[1]) /\ mem.buf[q[1]].ptr = q
        BY <3>1 DEF Sound, NoLeak
      <3>3. QED
        BY <1>5, <3>2
    <2>3. QED
      BY <2>1, <2>2
  <1>10. Touches(mem, nm, {b})
    BY <1>5, <1>4, <1>6 DEF Touches, KeepsApp
  <1>t. Tagged(nm)
    BY <1>1, <1>5 DEF Sound, Tagged
  <1>11. QED
    BY <1>m, <1>4, <1>5, <1>7, <1>8, <1>9, <1>10, <1>t DEF Sound

\* The outcome of a step from mem that has touched B.
Result(mem, o, B) == Sound(o.mem) /\ Touches(mem, o.mem, B) /\ o.ok \in BOOLEAN

\* A buffer owns a block of n units, if that is any.
Enough(mem, b, n) == n > 0 => Owns(mem, b) /\ mem.buf[b].size >= n

\* alloc_buffer: a buffer that is large enough, or a failure that leaves none.
LEMMA AllocSound ==
    ASSUME NEW mem, Sound(mem), NEW b \in Buffers, NEW n \in Nat, NEW o \in AllocBuffer(mem, b, n)
    PROVE  /\ Result(mem, o, {b}) /\ (o.ok => Enough(o.mem, b, n))
           /\ (~o.ok => o.mem.buf[b] = Nobody) /\ (n = 0 => o.mem = mem /\ o.ok)
  <1>1. CASE n = 0 \/ (mem.buf[b].ptr # Null /\ mem.buf[b].size >= n)
    <2>1. o = [mem |-> mem, ok |-> TRUE]
      BY <1>1 DEF AllocBuffer, Good
    <2>2. o.mem = mem /\ o.ok = TRUE /\ mem.buf[b].size \in Nat
      BY <2>1 DEF Sound, MemT, BufferT
    <2>3. Touches(mem, mem, {b})
      BY Zenon DEF Touches, KeepsApp
    <2>4. n > 0 => Owns(mem, b) /\ mem.buf[b].size >= n
      BY <1>1, <2>2 DEF Owns
    <2>5. QED
      BY <2>2, <2>3, <2>4, Zenon DEF Result, Enough
  <1>2. CASE ~(n = 0 \/ (mem.buf[b].ptr # Null /\ mem.buf[b].size >= n))
    <2>1. PICK f : f = FreeBuffer(mem, b)
      OBVIOUS
    <2>2. Sound(f) /\ Touches(mem, f, {b}) /\ f.buf[b] = Nobody
      BY <2>1, FreeSound
    <2>3. ~Owns(f, b)
      BY <2>2 DEF Owns, Nobody
    <2>4. \/ o = Bad(f)
          \/ \E p \in Addresses(f, b) : o = Good(Allocated(f, b, p, n))
      BY <1>2, <2>1 DEF AllocBuffer
    <2>5. CASE o = Bad(f)
      <3>1. o.mem = f /\ o.ok = FALSE
        BY <2>5 DEF Bad
      <3>2. QED
        BY <1>2, <2>2, <3>1, Zenon DEF Result
    <2>6. CASE o # Bad(f)
      <3>1. PICK p \in Addresses(f, b) : o = Good(Allocated(f, b, p, n))
        BY <2>4, <2>6
      <3>2. PICK nm : nm = Allocated(f, b, p, n)
        OBVIOUS
      <3>3. o.mem = nm /\ o.ok = TRUE
        BY <3>1, <3>2 DEF Good
      <3>4. n \in Nat \ {0}
        BY <1>2
      <3>5. Sound(nm) /\ Touches(f, nm, {b}) /\ Owns(nm, b) /\ nm.buf[b].size = n
        BY <2>2, <2>3, <3>2, <3>4, NewBlock
      <3>6. Touches(mem, nm, {b} \cup {b})
        BY <2>2, <3>5, TouchesTwice, Zenon
      <3>7. {b} \cup {b} = {b}
        OBVIOUS
      <3>8. nm.buf[b].size >= n /\ n # 0
        BY <3>4, <3>5
      <3>9. QED
        BY <3>3, <3>5, <3>6, <3>7, <3>8, Zenon DEF Result, Enough
    <2>7. QED
      BY <2>5, <2>6
  <1>3. QED
    BY <1>1, <1>2

LEMMA TouchesKeepsApp ==
    ASSUME NEW mem, NEW nm, NEW B, Touches(mem, nm, B)
    PROVE  KeepsApp(mem, nm)
  BY DEF Touches, KeepsApp

LEMMA KeepsAppTwice ==
    ASSUME NEW m1, NEW m2, NEW m3, KeepsApp(m1, m2), KeepsApp(m2, m3)
    PROVE  KeepsApp(m1, m3)
  BY DEF KeepsApp

\* There is room for n units where a buffer points to.
Room(mem, b, n) ==
    n > 0 => Live(mem, b) /\ mem.heap[mem.buf[b].ptr].size >= n

\* Nothing differs but what is written where buffer b points to.
Written(mem, nm, b, n, data) ==
    /\ nm.buf = mem.buf /\ DOMAIN nm.heap = DOMAIN mem.heap
    /\ \A p \in DOMAIN mem.heap :
          /\ nm.heap[p].own = mem.heap[p].own /\ nm.heap[p].size = mem.heap[p].size
          /\ n = 0 \/ p # mem.buf[b].ptr => nm.heap[p] = mem.heap[p]
    /\ n > 0 => nm.heap[mem.buf[b].ptr].data = data

\* Writing inside of a block.
LEMMA PutSound ==
    ASSUME NEW mem, Sound(mem), NEW b \in Buffers, NEW n \in Nat, NEW data \in TokenT,
           Room(mem, b, n), NEW nm, nm = Put(mem, b, n, data)
    PROVE  Sound(nm) /\ Written(mem, nm, b, n, data)
  <1> DEFINE at == mem.buf[b].ptr
  <1>1. CASE n = 0
    <2>1. nm = mem
      BY <1>1, Zenon DEF Put
    <2>2. QED
      BY <1>1, <2>1 DEF Written
  <1>2. CASE n # 0
    <2>m. /\ mem \in MemT /\ mem.heap \in Heaps /\ mem.buf \in [Buffers -> BufferT]
          /\ ~mem.fault
      BY DEF Sound, MemT
    <2>h. /\ DOMAIN mem.heap \subseteq Addr /\ IsFiniteSet(DOMAIN mem.heap)
          /\ mem.heap \in [DOMAIN mem.heap -> BlockT]
      BY <2>m, HeapsOpen
    <2>1. at \in DOMAIN mem.heap /\ n <= mem.heap[at].size
      <3>1. at \in DOMAIN mem.heap /\ mem.heap[at].size >= n
        BY <1>2 DEF Live, Room
      <3>2. mem.heap[at].size \in Nat
        BY <2>h, <3>1 DEF BlockT
      <3>3. QED
        BY <3>1, <3>2
    <2>2. nm = [mem EXCEPT !.heap[at].data = data]
      BY <1>2, <2>1, Zenon DEF Put, Live
    <2> DEFINE block == [mem.heap[at] EXCEPT !.data = data]
               heap == [mem.heap EXCEPT ![at] = block]
    <2>3. block \in BlockT /\ block.own = mem.heap[at].own /\ block.size = mem.heap[at].size
          /\ block.data = data
      BY <2>h, <2>1 DEF BlockT
    <2>4. nm = [mem EXCEPT !.heap = heap]
      BY <2>2, Zenon
    <2> HIDE DEF block
    <2>5. DOMAIN heap = DOMAIN mem.heap /\ heap[at] = block
          /\ \A p \in DOMAIN mem.heap : p # at => heap[p] = mem.heap[p]
      BY <2>h, <2>1
    <2>6. heap \in Heaps
      <3>1. heap \in [DOMAIN mem.heap -> BlockT]
        BY <2>h, <2>3
      <3> HIDE DEF heap
      <3>2. QED
        BY <2>h, <2>5, <3>1, HeapsOpen
    <2> HIDE DEF heap
    <2>7. nm.heap = heap /\ nm.buf = mem.buf /\ nm.fault = mem.fault /\ nm \in MemT
      BY <2>m, <2>4, <2>6 DEF MemT
    <2>8. \A a : Owns(nm, a) <=> Owns(mem, a)
      BY <2>7 DEF Owns
    <2>9. \A p \in DOMAIN mem.heap :
                 /\ nm.heap[p].own = mem.heap[p].own /\ nm.heap[p].size = mem.heap[p].size
                 /\ p # at => nm.heap[p] = mem.heap[p]
      BY <2>3, <2>5, <2>7
    <2>10. OwnedSound(nm)
      BY <2>5, <2>7, <2>8, <2>9 DEF Sound, OwnedSound
    <2>11. NoLeak(nm)
      BY <2>5, <2>7, <2>8, <2>9 DEF Sound, NoLeak
    <2>12. Tagged(nm)
      BY <2>7 DEF Sound, Tagged
    <2>13. Sound(nm)
      BY <2>m, <2>7, <2>10, <2>11, <2>12 DEF Sound
    <2>14. nm.heap[at].data = data
      BY <2>3, <2>5, <2>7
    <2>15. QED
      BY <1>2, <2>5, <2>7, <2>9, <2>13, <2>14 DEF Written
  <1>3. QED
    BY <1>1, <1>2

\* Where a buffer may point without owning it.
Unowned(b, p, n) == /\ p \in Addr \cup {Null} /\ p[1] \in {"none", b, Original(b)}
                    /\ n \in Nat /\ (p = Null \/ n = 0)

Pointed(mem, b, p, n) == [mem EXCEPT !.buf[b] = [ptr |-> p, size |-> n]]

\* A buffer that owns nothing may be made to point elsewhere.
LEMMA PointerSound ==
    ASSUME NEW mem, Sound(mem), NEW b \in Buffers, ~Owns(mem, b),
           NEW p, NEW n, Unowned(b, p, n),
           NEW nm, nm = Pointed(mem, b, p, n)
    PROVE  /\ Sound(nm) /\ Touches(mem, nm, {b}) /\ nm.heap = mem.heap
           /\ nm.buf[b] = [ptr |-> p, size |-> n] /\ ~Owns(nm, b)
  <1>m. mem \in MemT /\ mem.buf \in [Buffers -> BufferT] /\ ~mem.fault
    BY DEF Sound, MemT
  <1>1. [ptr |-> p, size |-> n] \in BufferT
    BY DEF BufferT, Unowned
  <1>2. /\ nm \in MemT /\ nm.heap = mem.heap /\ nm.fault = mem.fault
        /\ nm.buf = [mem.buf EXCEPT ![b] = [ptr |-> p, size |-> n]]
    BY <1>m, <1>1 DEF MemT, Pointed
  <1>3. /\ nm.buf[b] = [ptr |-> p, size |-> n] /\ ~Owns(nm, b)
        /\ \A a \in Buffers : a # b => nm.buf[a] = mem.buf[a]
        /\ \A a \in Buffers : Owns(nm, a) <=> Owns(mem, a)
    BY <1>m, <1>2 DEF Owns, Unowned
  <1>4. OwnedSound(nm)
    BY <1>2, <1>3 DEF Sound, OwnedSound
  <1>5. NoLeak(nm)
    BY <1>2, <1>3 DEF Sound, NoLeak
  <1>6. Tagged(nm)
    BY <1>3 DEF Sound, Tagged, Unowned
  <1>7. Touches(mem, nm, {b})
    BY <1>2, <1>3 DEF Touches, KeepsApp
  <1>8. QED
    BY <1>m, <1>2, <1>3, <1>4, <1>5, <1>6, <1>7 DEF Sound

LEMMA ForgetSound ==
    ASSUME NEW mem, Sound(mem), NEW b \in Buffers, ~Owns(mem, b), NEW nm, nm = Forget(mem, b)
    PROVE  /\ Sound(nm) /\ Touches(mem, nm, {b}) /\ nm.heap = mem.heap
           /\ nm.buf[b] = [ptr |-> Null, size |-> mem.buf[b].size] /\ ~Owns(nm, b)
  <1>1. mem \in MemT /\ mem.buf \in [Buffers -> BufferT]
    BY DEF Sound, MemT
  <1>2. mem.buf[b].size \in Nat
    BY <1>1 DEF BufferT
  <1>3. [mem.buf[b] EXCEPT !.ptr = Null] = [ptr |-> Null, size |-> mem.buf[b].size]
    BY <1>1 DEF BufferT
  <1>4. nm = [mem EXCEPT !.buf[b] = [ptr |-> Null, size |-> mem.buf[b].size]]
    BY <1>3, Zenon DEF Forget
  <1>5. Null \in Addr \cup {Null} /\ Null[1] \in {"none", b, Original(b)}
    BY DEF Null
  <1>6. PICK p, n : p = Null /\ n = mem.buf[b].size
    OBVIOUS
  <1>7. Unowned(b, p, n) /\ nm = Pointed(mem, b, p, n)
    BY <1>2, <1>4, <1>5, <1>6 DEF Unowned, Pointed
  <1>8. /\ Sound(nm) /\ Touches(mem, nm, {b}) /\ nm.heap = mem.heap
        /\ nm.buf[b] = [ptr |-> p, size |-> n] /\ ~Owns(nm, b)
    BY <1>7, PointerSound, Zenon
  <1>9. QED
    BY <1>6, <1>8, Zenon

LEMMA PointToSound ==
    ASSUME NEW mem, Sound(mem), NEW a \in Buffers, NEW b \in Buffers, ~Owns(mem, a),
           b = Original(a), b = Original(b), NEW nm, nm = PointTo(mem, a, b)
    PROVE  /\ Sound(nm) /\ Touches(mem, nm, {a}) /\ nm.heap = mem.heap
           /\ nm.buf[a] = [ptr |-> mem.buf[b].ptr, size |-> 0]
  <1>1. mem \in MemT /\ mem.buf \in [Buffers -> BufferT]
    BY DEF Sound, MemT
  <1>2. mem.buf[b].ptr \in Addr \cup {Null}
    BY <1>1 DEF BufferT
  <1>3. mem.buf[b].ptr[1] \in {"none", a, Original(a)}
    BY DEF Sound, Tagged
  <1>4. nm = [mem EXCEPT !.buf[a] = [ptr |-> mem.buf[b].ptr, size |-> 0]]
    BY Zenon DEF PointTo
  <1>5. PICK p, n : p = mem.buf[b].ptr /\ n = 0
    OBVIOUS
  <1>6. Unowned(a, p, n) /\ nm = Pointed(mem, a, p, n)
    BY <1>2, <1>3, <1>4, <1>5 DEF Unowned, Pointed
  <1>7. /\ Sound(nm) /\ Touches(mem, nm, {a}) /\ nm.heap = mem.heap
        /\ nm.buf[a] = [ptr |-> p, size |-> n] /\ ~Owns(nm, a)
    BY <1>6, PointerSound, Zenon
  <1>8. QED
    BY <1>5, <1>7, Zenon

\* n units where a buffer points to, of data, in a block of one of owners.
Holds(mem, owners, b, n, data) ==
    n > 0 => LET p == mem.buf[b].ptr IN
             /\ p \in DOMAIN mem.heap /\ mem.heap[p].own \in owners
             /\ mem.heap[p].size >= n /\ mem.heap[p].data = data

\* What a buffer holds can be read from it.
LEMMA HoldsGet ==
    ASSUME NEW mem, NEW owners, NEW b, NEW n, NEW data, Holds(mem, owners, b, n, data), n > 0
    PROVE  Get(mem, b) = data
  BY DEF Holds, Get, Live

\* What a buffer holds stays in it.
LEMMA HoldsKept ==
    ASSUME NEW mem, NEW nm, NEW owners, NEW b \in Buffers, NEW n, NEW data, NEW B,
           Holds(mem, owners, b, n, data), Touches(mem, nm, B),
           b \notin B, mem.buf[b].ptr[1] \notin B
    PROVE  Holds(nm, owners, b, n, data)
  BY DEF Holds, Touches, KeepsApp

-----------------------------------------------------------------------------
(* The stages of the decoder.                                               *)

LEMMA HoldsMore ==
    ASSUME NEW mem, NEW owners, NEW more, owners \subseteq more, NEW b, NEW n, NEW data,
           Holds(mem, owners, b, n, data)
    PROVE  Holds(mem, more, b, n, data)
  BY DEF Holds

\* A buffer that owns enough is where n units may be written.
LEMMA OwnedRoom ==
    ASSUME NEW mem, Sound(mem), NEW b \in Buffers, Owns(mem, b)
    PROVE  LET p == mem.buf[b].ptr IN
           /\ p \in DOMAIN mem.heap /\ Live(mem, b) /\ p[1] = b
           /\ mem.heap[p].own = "pipeline" /\ mem.heap[p].size = mem.buf[b].size
  BY DEF Sound, OwnedSound, Live

\* Writing to a block of the pipeline touches the blocks of the buffer that owns it.
LEMMA PutTouches ==
    ASSUME NEW mem, Sound(mem), NEW b \in Buffers, NEW n \in Nat, NEW data \in TokenT,
           NEW owners,
           n > 0 => /\ Live(mem, b) /\ mem.heap[mem.buf[b].ptr].size >= n
                    /\ mem.heap[mem.buf[b].ptr].own \in owners
                    /\ \/ mem.heap[mem.buf[b].ptr].own = "pipeline"
                       \/ mem.buf[b].ptr \in Job.open,
           NEW nm, nm = Put(mem, b, n, data), NEW B, n > 0 => mem.buf[b].ptr[1] \in B
    PROVE  /\ Sound(nm) /\ Touches(mem, nm, B) /\ nm.buf = mem.buf
           /\ Holds(nm, owners, b, n, data)
           /\ \A a \in Buffers : Owns(nm, a) <=> Owns(mem, a)
  <1>1. Sound(nm) /\ Written(mem, nm, b, n, data)
    <2>1. Room(mem, b, n)
      BY DEF Room
    <2>2. QED
      BY <2>1, PutSound, Zenon
  <1>2. n = 0 \/ n > 0
    OBVIOUS
  <1>3. Touches(mem, nm, B)
    BY <1>1, <1>2 DEF Touches, KeepsApp, Written
  <1>4. Holds(nm, owners, b, n, data)
    BY <1>1 DEF Holds, Live, Written
  <1>5. \A a \in Buffers : Owns(nm, a) <=> Owns(mem, a)
    BY <1>1, Zenon DEF Owns, Written
  <1>6. QED
    BY <1>1, <1>3, <1>4, <1>5, Zenon DEF Written

LEMMA JunkToken == Junk \in TokenT
  BY DEF Junk, Token, TokenT, Forms

\* Reading n units into a buffer that has room for them.
LEMMA ReadSound ==
    ASSUME NEW mem, Sound(mem), NEW b \in Buffers, NEW n \in Nat, NEW data \in TokenT,
           Enough(mem, b, n), NEW o \in do_read(mem, b, n, data)
    PROVE  /\ Result(mem, o, {b}) /\ o.mem.buf = mem.buf
           /\ (o.ok => Holds(o.mem, {"pipeline"}, b, n, data))
  <1>1. CASE n = 0
    <2>1. o.mem = mem /\ o.ok = TRUE
      BY <1>1 DEF do_read, Good
    <2>2. Touches(mem, mem, {b}) /\ Holds(mem, {"pipeline"}, b, n, data)
      BY <1>1 DEF Touches, KeepsApp, Holds
    <2>3. QED
      BY <2>1, <2>2, Zenon DEF Result
  <1>2. CASE n # 0
    <2>1. \/ o.mem = Put(mem, b, n, Junk) /\ o.ok = FALSE
          \/ o.mem = Put(mem, b, n, data) /\ o.ok = TRUE
      BY <1>2 DEF do_read, Good, Bad
    <2>2. /\ n > 0 /\ Live(mem, b) /\ mem.heap[mem.buf[b].ptr].size >= n
          /\ mem.heap[mem.buf[b].ptr].own = "pipeline" /\ mem.buf[b].ptr[1] \in {b}
      BY <1>2, OwnedRoom DEF Enough
    <2>3. ASSUME NEW x \in TokenT, o.mem = Put(mem, b, n, x)
          PROVE  /\ Sound(o.mem) /\ Touches(mem, o.mem, {b}) /\ o.mem.buf = mem.buf
                 /\ Holds(o.mem, {"pipeline"}, b, n, x)
      <3>1. PICK owners : owners = {"pipeline"}
        OBVIOUS
      <3>2. mem.heap[mem.buf[b].ptr].own \in owners
        BY <2>2, <3>1
      <3>3. /\ Sound(o.mem) /\ Touches(mem, o.mem, {b}) /\ o.mem.buf = mem.buf
            /\ Holds(o.mem, owners, b, n, x)
        BY <2>2, <2>3, <3>2, PutTouches
      <3>4. QED
        BY <3>1, <3>3
    <2>4. QED
      BY <2>1, <2>3, JunkToken DEF Result
  <1>3. QED
    BY <1>1, <1>2

\* What a step has touched before another.
LEMMA ResultAfter ==
    ASSUME NEW m1, NEW m2, NEW o, NEW B, NEW C, NEW D, Touches(m1, m2, B), Result(m2, o, C),
           B \subseteq D, C \subseteq D
    PROVE  Result(m1, o, D)
  <1>1. Touches(m1, o.mem, B \cup C)
    BY TouchesTwice, Zenon DEF Result
  <1>2. Touches(m1, o.mem, D)
    <2>1. B \cup C \subseteq D
      OBVIOUS
    <2>2. QED
      BY <1>1, <2>1, TouchesMore, Zenon
  <1>3. QED
    BY <1>2, Zenon DEF Result

\* A buffer that has been allocated, and read into if that succeeded.
LEMMA AllocRead ==
    ASSUME NEW mem, Sound(mem), NEW b \in Buffers, NEW n \in Nat, NEW data \in TokenT,
           NEW a \in AllocBuffer(mem, b, n),
           NEW o \in IF a.ok THEN do_read(a.mem, b, n, data) ELSE {a}
    PROVE  Result(mem, o, {b}) /\ (o.ok => Holds(o.mem, {"pipeline"}, b, n, data))
  <1>1. Result(mem, a, {b}) /\ (a.ok => Enough(a.mem, b, n))
    BY AllocSound, ZenonT(40)
  <1>2. CASE a.ok
    <2>1. o \in do_read(a.mem, b, n, data) /\ Sound(a.mem) /\ Touches(mem, a.mem, {b})
      BY <1>1, <1>2 DEF Result
    <2>2. Result(a.mem, o, {b}) /\ (o.ok => Holds(o.mem, {"pipeline"}, b, n, data))
      BY <1>1, <1>2, <2>1, ReadSound
    <2>3. QED
      BY <2>1, <2>2, ResultAfter
  <1>3. CASE ~a.ok
    <2>1. o = a
      BY <1>3
    <2>2. QED
      BY <1>1, <1>3, <2>1, Zenon
  <1>4. QED
    BY <1>2, <1>3

-----------------------------------------------------------------------------
(* The inductive invariant.                                                 *)

ChunkT == [area : Nat, table : Nat, packed : Nat, unpacked : Nat, counts : TokenT,
           pixels : TokenT, by : {"none", "application", "compressor"}]

\* What a stored chunk is like.  What the codec left as large is not told apart here:
\* Odd(pt, s) is NotShrunk for the chunk s.
Odd(pt, s) == /\ pt.codec \in {"b44", "ht"} /\ s.by = "application"
              /\ s.packed = s.unpacked

WellStored(pt, c, s) ==
    /\ s.area > 0
    /\ s.unpacked > 0 => s.packed > 0
    /\ pt.codec = "none" => s.packed = s.unpacked
    /\ s.unpacked > 0 /\ ~Odd(pt, s) =>
          s.pixels = Token("pixels", c, IF s.packed = s.unpacked THEN "plain" ELSE "coded")
    /\ IF pt.deep
       THEN s.counts = Token("counts", c, IF pt.codec # "none" /\ s.table # s.area
                                          THEN "coded" ELSE "plain")
       ELSE s.table = 0

PartOK == /\ part.deep \in BOOLEAN /\ part.tiled \in BOOLEAN /\ part.codec \in Codecs
          /\ ~part.deep => part.raw \in [Chunks -> Nat]

FileOK == /\ file \in [Chunks -> ChunkT]
          /\ \A c \in Chunks : file[c] # Missing => WellStored(part, c, file[c])

EncodeT == e \in [at : {"none", "ready", "pack", "compress", "yield", "write"},
                  chunk : Chunks \cup {NoChunk}, user : {"none", "application", "compressor"},
                  packedBytes : Nat, compressedBytes : Nat, fails : Nat]

PipelineT ==
    [at : {"none", "ready", "read", "pointers", "decompress", "samples", "unpack"},
     chunk : Chunks \cup {NoChunk}, individual : BOOLEAN, countsOnly : BOOLEAN,
     direct : BOOLEAN, foreign : BOOLEAN, rv : {"none", "ok", "error"}, fails : Nat,
     shared : BOOLEAN]

DecodeT ==
    /\ d \in PipelineT
    /\ out \in [counts : TokenT, pixels : TokenT]

\* A part is written, then read.
Phases == /\ d.at # "none" => e.at = "none" /\ Complete
          /\ d.at = "none" /\ e.at = "none" => \A b \in Buffers : m.buf[b] = Nobody
          /\ d.at = "none" => ~d.foreign

\* What an encoder has in its buffers.
Encoding ==
    e.at # "none" =>
       /\ ~part.deep /\ e.chunk \in Chunks /\ e.user # "none"
       /\ \A b \in {"unpacked", "table", "packedTable"} : m.buf[b] = Nobody
       /\ e.user = "compressor" => e.at = "ready" /\ m.buf["packed"].size = 0
       /\ e.at = "compress" =>
             /\ e.packedBytes = Raw
             /\ Holds(m, {"pipeline"}, "packed", Raw, Token("pixels", e.chunk, "plain"))
       /\ e.at \in {"yield", "write"} =>
             /\ e.compressedBytes <= Raw /\ (Raw > 0 => e.compressedBytes > 0)
             /\ ~Coded => e.compressedBytes = Raw
             /\ Raw > 0 /\ ~(part.codec \in {"b44", "ht"} /\ e.compressedBytes = Raw) =>
                   Get(m, "compressed") =
                      Token("pixels", e.chunk, IF e.compressedBytes = Raw THEN "plain" ELSE "coded")

PlainCounts(j) == IF j.stored = j.area \/ ~j.coded THEN j.counts ELSE Undo(j.counts)
PlainPixels(j) == IF j.packed = j.unpacked THEN j.pixels ELSE Undo(j.pixels)

CountsOf(j) == [IF j.stored = 0 THEN Zeros ELSE PlainCounts(j)
                EXCEPT !.form = IF j.size = j.area THEN "plain" ELSE "individual"]

\* After each stage.
TableRead(mem, j) == Holds(mem, j.owners, "packedTable", j.stored, j.counts)
PixelsRead(mem, j) == Holds(mem, j.owners, "packed", j.packed, j.pixels)

\* n units where a buffer points to, of the pipeline's own memory or of what is open.
OwnRoom(mem, open, b, n) ==
    n > 0 => LET p == mem.buf[b].ptr IN
             /\ p \in DOMAIN mem.heap /\ mem.heap[p].size >= n
             /\ mem.heap[p].own = "pipeline" \/ p \in open

TablePlaced(mem, j) ==
    j.size > 0 => /\ OwnRoom(mem, j.open, "table", j.size)
                  /\ IF j.stored = j.size THEN Aliases(mem, "table", "packedTable")
                     ELSE Owns(mem, "table")
PixelsPlaced(mem, j) ==
    j.unpacked > 0 => IF j.packed = j.unpacked THEN Aliases(mem, "unpacked", "packed")
                      ELSE Owns(mem, "unpacked") /\ mem.buf["unpacked"].size >= j.unpacked

TablePlain(mem, j) ==
    j.stored > 0 => /\ Holds(mem, j.owners, "table", j.area, PlainCounts(j))
                    /\ mem.buf["packedTable"].ptr # Null
PixelsPlain(mem, j) == Holds(mem, j.owners, "unpacked", j.unpacked, PlainPixels(j))

Overlooked(mem, j) == j.coded /\ j.stored = 0 /\ mem.buf["packedTable"].ptr # Null
CountsMade(mem, j) ==
    ~Overlooked(mem, j) => Holds(mem, j.owners, "table", j.size, CountsOf(j))

\* What the application has lent for the chunk that run_mem_decode was given; what is
\* open may have changed.
Lent(mem, s, open) ==
    /\ \A b \in {"packed", "packedTable"} :
          mem.buf[b].ptr \in DOMAIN mem.heap /\ mem.buf[b].size = 0
    /\ mem.buf["packedTable"].ptr = Address("packedTable", {})
    /\ mem.buf["packed"].ptr = Address("packed", {})
    /\ mem.heap[mem.buf["packed"].ptr] = Block("application", s.packed, s.pixels)
    /\ LET p == mem.buf["packedTable"].ptr IN
       /\ mem.heap[p].own = "application" /\ mem.heap[p].size = s.table
       /\ p \notin open => mem.heap[p] = Block("application", s.table, s.counts)

Decoding ==
    d.at # "none" =>
       /\ d.chunk \in Chunks /\ m.buf["compressed"] = Nobody
       /\ d.individual \/ d.countsOnly \/ d.foreign => Deep
       /\ d.direct => ~Deep /\ ~Coded
       /\ d.foreign => d.individual /\ ~part.tiled /\ Lent(m, Cur, Job.open)
       /\ d.foreign /\ (d.at = "read" \/ (d.at = "ready" /\ d.rv = "none")) =>
             Lent(m, Cur, {})
       /\ d.at \in {"pointers", "decompress"} => TableRead(m, Job) /\ PixelsRead(m, Job)
       /\ d.at \in {"decompress", "samples"} => TablePlaced(m, Job)
       /\ d.at = "decompress" => PixelsPlaced(m, Job)
       /\ d.at = "samples" => IF Coded THEN TablePlain(m, Job) ELSE TableRead(m, Job)
       /\ d.at \in {"samples", "unpack"} => PixelsPlain(m, Job)
       /\ d.at = "unpack" => CountsMade(m, Job)
       /\ d.direct /\ d.at \in {"pointers", "decompress", "samples", "unpack"} =>
             out.pixels = Cur.pixels
       /\ d.at = "ready" /\ d.rv = "ok" =>
             /\ CountsMade(m, Job) /\ PixelsPlain(m, Job)
             /\ Deep /\ ~Overlooked(m, Job) => out.counts = CountsOf(Job)
             /\ Job.unpacked > 0 => out.pixels = PlainPixels(Job)
             /\ d.direct => out.pixels = Cur.pixels

IInv == /\ Sound(m) /\ PartOK /\ FileOK /\ EncodeT /\ DecodeT
        /\ Phases /\ Encoding /\ Decoding

-----------------------------------------------------------------------------
(* The stages keep the invariant.                                           *)

\* The chunk of the decoder is well stored.
LEMMA CurFacts ==
    ASSUME IInv, d.at # "none"
    PROVE  /\ d.chunk \in Chunks /\ WellStored(part, d.chunk, Cur)
           /\ Cur.area \in Nat /\ Cur.table \in Nat /\ Cur.packed \in Nat /\ Cur.unpacked \in Nat
           /\ Cur.counts \in TokenT /\ Cur.pixels \in TokenT
           /\ Cur.area > 0 /\ TableSize \in {Cur.area, Cur.area + 1}
  <1>1. d.chunk \in Chunks /\ Complete
    BY DEF IInv, Decoding, Phases
  <1>2. Cur \in ChunkT /\ WellStored(part, d.chunk, Cur)
    BY <1>1 DEF IInv, FileOK, Complete, Cur
  <1>3. Cur.area > 0
    BY <1>2 DEF WellStored
  <1>4. TableSize \in {Cur.area, Cur.area + 1}
    BY <1>2 DEF TableSize, ChunkT
  <1>5. QED
    BY <1>1, <1>2, <1>3, <1>4 DEF ChunkT

\* What the decoder may forget before it reads.
LEMMA ForgetAlias ==
    ASSUME NEW mem, Sound(mem), NEW b \in Buffers, NEW a \in Buffers, NEW nm,
           nm = IF Aliases(mem, b, a) THEN Forget(mem, b) ELSE mem
    PROVE  Sound(nm) /\ Touches(mem, nm, {b}) /\ nm.heap = mem.heap
  <1>1. CASE Aliases(mem, b, a)
    <2>1. ~Owns(mem, b)
      BY <1>1 DEF Aliases, Owns
    <2>2. nm = Forget(mem, b)
      BY <1>1
    <2>3. QED
      BY <2>1, <2>2, ForgetSound, ZenonT(40)
  <1>2. CASE ~Aliases(mem, b, a)
    <2>1. nm = mem
      BY <1>2
    <2>2. Touches(mem, mem, {b})
      BY DEF Touches, KeepsApp
    <2>3. QED
      BY <2>1, <2>2
  <1>3. QED
    BY <1>1, <1>2

LEMMA ReadStage ==
    ASSUME IInv, d.at = "read", ~d.foreign, ~d.direct, NEW o \in default_read_chunk
    PROVE  /\ Result(m, o, {"packed", "packedTable", "unpacked"})
           /\ o.ok => TableRead(o.mem, Job) /\ PixelsRead(o.mem, Job)
  <1> DEFINE s == Cur
  <1>1. PICK m0 : m0 = IF Aliases(m, "unpacked", "packed") THEN Forget(m, "unpacked") ELSE m
    OBVIOUS
  <1>2. Sound(m0) /\ Touches(m, m0, {"unpacked"})
    BY <1>1, ForgetAlias DEF IInv, Buffers
  <1>3. /\ s.table \in Nat /\ s.packed \in Nat /\ s.counts \in TokenT /\ s.pixels \in TokenT
    BY CurFacts
  <1>4. /\ Job.stored = IF Deep THEN s.table ELSE 0
        /\ Job.packed = IF d.countsOnly THEN 0 ELSE s.packed
        /\ Job.counts = s.counts /\ Job.pixels = s.pixels /\ Job.owners = {"pipeline"}
    BY DEF Job
  <1>5. "packed" \in Buffers /\ "packedTable" \in Buffers
    BY DEF Buffers
  <1> HIDE DEF s
  <1>6. CASE Deep /\ s.table > 0 /\ d.countsOnly
    <2>1. PICK a \in AllocBuffer(m0, "packedTable", s.table) :
             o \in IF a.ok THEN do_read(a.mem, "packedTable", s.table, s.counts) ELSE {a}
      BY <1>1, <1>6 DEF default_read_chunk, Then, s
    <2>2. /\ Result(m0, o, {"packedTable"})
          /\ o.ok => Holds(o.mem, {"pipeline"}, "packedTable", s.table, s.counts)
      BY <1>2, <1>3, <1>5, <2>1, AllocRead
    <2>3. Result(m, o, {"packed", "packedTable", "unpacked"})
      BY <1>2, <2>2, ResultAfter
    <2>4. Job.stored = s.table /\ ~(Job.packed > 0)
      BY <1>4, <1>6
    <2>5. o.ok => TableRead(o.mem, Job)
      BY <1>4, <2>2, <2>4, Zenon DEF TableRead
    <2>6. PixelsRead(o.mem, Job)
      BY <2>4, Zenon DEF PixelsRead, Holds
    <2>7. QED
      BY <2>3, <2>5, <2>6, Zenon
  <1>7. CASE Deep /\ s.table > 0 /\ ~d.countsOnly
    <2>1. PICK t \in AllocBuffer(m0, "packedTable", s.table) :
             IF ~t.ok THEN o = t
             ELSE \E a \in AllocBuffer(t.mem, "packed", s.packed) :
                    IF ~a.ok THEN o = a
                    ELSE \E r \in do_read(a.mem, "packedTable", s.table, s.counts) :
                            o \in IF r.ok THEN do_read(r.mem, "packed", s.packed, s.pixels)
                                  ELSE {r}
      BY <1>1, <1>7 DEF default_read_chunk, Then, s
    <2>2. Result(m0, t, {"packedTable"}) /\ (t.ok => Enough(t.mem, "packedTable", s.table))
      BY <1>2, <1>3, <1>5, AllocSound, ZenonT(40)
    <2>3. CASE ~t.ok
      <3>1. o = t
        BY <2>1, <2>3
      <3>2. Result(m, o, {"packed", "packedTable", "unpacked"})
        BY <1>2, <2>2, <3>1, ResultAfter
      <3>3. QED
        BY <2>3, <3>1, <3>2, Zenon
    <2>4. CASE t.ok
      <3>1. PICK a \in AllocBuffer(t.mem, "packed", s.packed) :
               IF ~a.ok THEN o = a
               ELSE \E r \in do_read(a.mem, "packedTable", s.table, s.counts) :
                       o \in IF r.ok THEN do_read(r.mem, "packed", s.packed, s.pixels)
                             ELSE {r}
        BY <2>1, <2>4
      <3>2. Sound(t.mem) /\ Enough(t.mem, "packedTable", s.table)
        BY <2>2, <2>4, Zenon DEF Result
      <3>3. Result(t.mem, a, {"packed"}) /\ (a.ok => Enough(a.mem, "packed", s.packed))
        BY <1>3, <1>5, <3>2, AllocSound, ZenonT(40)
      <3>4. Touches(m, t.mem, {"unpacked", "packedTable"})
        BY <1>2, <2>2, ResultAfter DEF Result
      <3>5. Result(m, a, {"packed", "packedTable", "unpacked"})
        BY <3>3, <3>4, ResultAfter
      <3>6. CASE ~a.ok
        <4>1. o = a
          BY <3>1, <3>6
        <4>2. QED
          BY <3>5, <3>6, <4>1, Zenon
      <3>7. CASE a.ok
        <4>1. PICK r \in do_read(a.mem, "packedTable", s.table, s.counts) :
                 o \in IF r.ok THEN do_read(r.mem, "packed", s.packed, s.pixels) ELSE {r}
          BY <3>1, <3>7
        <4>2. a.mem.buf["packedTable"] = t.mem.buf["packedTable"]
          BY <1>5, <3>3 DEF Result, Touches, KeepsApp
        <4>3. Enough(a.mem, "packedTable", s.table) /\ Sound(a.mem)
          BY <3>2, <3>3, <4>2 DEF Enough, Owns, Result
        <4>4. /\ Result(a.mem, r, {"packedTable"}) /\ r.mem.buf = a.mem.buf
              /\ r.ok => Holds(r.mem, {"pipeline"}, "packedTable", s.table, s.counts)
          BY <1>3, <1>5, <4>3, ReadSound, Zenon
        <4>5. Result(m, r, {"packed", "packedTable", "unpacked"})
          BY <3>5, <4>4, ResultAfter DEF Result
        <4>6. CASE ~r.ok
          <5>1. o = r
            BY <4>1, <4>6
          <5>2. QED
            BY <4>5, <4>6, <5>1, Zenon
        <4>7. CASE r.ok
          <5>1. o \in do_read(r.mem, "packed", s.packed, s.pixels)
            BY <4>1, <4>7
          <5>2. Sound(r.mem) /\ Enough(r.mem, "packed", s.packed)
            BY <3>3, <3>7, <4>4 DEF Enough, Owns, Result
          <5>3. /\ Result(r.mem, o, {"packed"})
                /\ o.ok => Holds(o.mem, {"pipeline"}, "packed", s.packed, s.pixels)
            BY <1>3, <1>5, <5>1, <5>2, ReadSound, Zenon
          <5>4. Result(m, o, {"packed", "packedTable", "unpacked"})
            BY <4>5, <5>3, ResultAfter DEF Result
          <5>5. Owns(r.mem, "packedTable")
            BY <1>7, <4>3, <4>4 DEF Enough, Owns
          <5>6. r.mem.buf["packedTable"].ptr[1] = "packedTable"
            BY <1>5, <5>2, <5>5, OwnedRoom
          <5>7. Holds(o.mem, {"pipeline"}, "packedTable", s.table, s.counts)
            BY <1>5, <4>4, <4>7, <5>3, <5>6, HoldsKept DEF Result
          <5>8. QED
            BY <1>4, <1>7, <5>3, <5>4, <5>7 DEF TableRead, PixelsRead
        <4>8. QED
          BY <4>6, <4>7
      <3>8. QED
        BY <3>6, <3>7
    <2>5. QED
      BY <2>3, <2>4
  <1>8. CASE ~(Deep /\ s.table > 0)
    <2>1. PICK a \in AllocBuffer(m0, "packed", s.packed) :
             o \in IF a.ok THEN do_read(a.mem, "packed", s.packed, s.pixels) ELSE {a}
      BY <1>1, <1>8 DEF default_read_chunk, Then, s
    <2>2. /\ Result(m0, o, {"packed"})
          /\ o.ok => Holds(o.mem, {"pipeline"}, "packed", s.packed, s.pixels)
      BY <1>2, <1>3, <1>5, <2>1, AllocRead
    <2>3. Result(m, o, {"packed", "packedTable", "unpacked"})
      BY <1>2, <2>2, ResultAfter
    <2>4. ~(Job.stored > 0)
      BY <1>3, <1>4, <1>8
    <2>5. TableRead(o.mem, Job)
      BY <2>4 DEF TableRead, Holds
    <2>6. o.ok => PixelsRead(o.mem, Job)
      <3>1. CASE d.countsOnly
        <4>1. ~(Job.packed > 0)
          BY <1>4, <3>1
        <4>2. QED
          BY <4>1, Zenon DEF PixelsRead, Holds
      <3>2. CASE ~d.countsOnly
        <4>1. Job.packed = s.packed
          BY <1>4, <3>2
        <4>2. QED
          BY <1>4, <2>2, <4>1, Zenon DEF PixelsRead
      <3>3. QED
        BY <3>1, <3>2
    <2>7. QED
      BY <2>3, <2>5, <2>6, Zenon
  <1>9. QED
    BY <1>6, <1>7, <1>8

\* Where the user's table of counts will be.
LEMMA TablePointer ==
    ASSUME IInv, d.at = "pointers", Deep, NEW o \in update_table_pointer
    PROVE  Result(m, o, {"table"}) /\ (o.ok => TablePlaced(o.mem, Job))
  <1>1. /\ Sound(m) /\ Cur.table \in Nat /\ Cur.area \in Nat /\ TableSize \in Nat /\ TableSize > 0
        /\ TableSize \in {Cur.area, Cur.area + 1}
    BY CurFacts DEF IInv
  <1>2. /\ Job.stored = Cur.table /\ Job.size = TableSize /\ Job.counts = Cur.counts
        /\ Job.owners = IF d.foreign THEN {"pipeline", "application"} ELSE {"pipeline"}
    BY DEF Job
  <1>3. "table" \in Buffers /\ "packedTable" \in Buffers
    BY DEF Buffers
  <1>4. CASE Cur.table = TableSize
    <2>1. PICK f : f = FreeBuffer(m, "table")
      OBVIOUS
    <2>2. o.mem = PointTo(f, "table", "packedTable") /\ o.ok = TRUE
      BY <1>4, <2>1 DEF update_table_pointer, Good
    <2>3. Sound(f) /\ Touches(m, f, {"table"}) /\ f.buf["table"] = Nobody
      BY <1>1, <1>3, <2>1, FreeSound
    <2>4. ~Owns(f, "table")
      BY <2>3 DEF Owns, Nobody
    <2>5. "packedTable" = Original("table") /\ "packedTable" = Original("packedTable")
      BY DEF Original
    <2>6. /\ Sound(o.mem) /\ Touches(f, o.mem, {"table"}) /\ o.mem.heap = f.heap
          /\ o.mem.buf["table"] = [ptr |-> f.buf["packedTable"].ptr, size |-> 0]
      BY <1>3, <2>2, <2>3, <2>4, <2>5, PointToSound
    <2>7. Result(f, o, {"table"})
      BY <2>2, <2>6, Zenon DEF Result
    <2>8. Result(m, o, {"table"})
      BY <2>3, <2>7, ResultAfter
    <2>9. o.mem.buf["packedTable"] = m.buf["packedTable"]
          /\ f.buf["packedTable"] = m.buf["packedTable"]
      BY <1>3, <2>3, <2>6 DEF Touches, KeepsApp
    <2>10. Holds(m, Job.owners, "packedTable", Cur.table, Cur.counts)
      BY <1>2 DEF IInv, Decoding, TableRead
    <2>11. m.buf["packedTable"].ptr[1] \in {"none", "packedTable"}
      BY <1>1, <1>3 DEF Sound, Tagged, Original
    <2>12. Holds(o.mem, Job.owners, "packedTable", Cur.table, Cur.counts)
      BY <1>3, <2>8, <2>10, <2>11, HoldsKept DEF Result
    <2>13. OwnRoom(o.mem, Job.open, "table", Cur.table)
      <3>1. o.mem.buf["table"].ptr = o.mem.buf["packedTable"].ptr
        BY <2>6, <2>9
      <3>2. ASSUME d.foreign PROVE o.mem.buf["table"].ptr \in Job.open
        <4>1. m.buf["packedTable"].ptr = Address("packedTable", {})
          BY <3>2 DEF IInv, Decoding, Lent
        <4>2. Job.open = {Address("packedTable", {})}
          BY <1>4, <3>2 DEF Job
        <4>3. QED
          BY <2>9, <3>1, <4>1, <4>2
      <3>3. ASSUME ~d.foreign PROVE Job.owners = {"pipeline"}
        BY <1>2, <3>3
      <3>4. QED
        BY <2>12, <3>1, <3>2, <3>3 DEF OwnRoom, Holds
    <2>14. Aliases(o.mem, "table", "packedTable")
      BY <2>6, <2>9 DEF Aliases
    <2>15. QED
      BY <1>2, <1>4, <2>2, <2>8, <2>13, <2>14 DEF TablePlaced
  <1>5. CASE Cur.table # TableSize
    <2>1. o \in AllocBuffer(m, "table", TableSize)
      BY <1>5 DEF update_table_pointer
    <2>2. Result(m, o, {"table"}) /\ (o.ok => Enough(o.mem, "table", TableSize))
      BY <1>1, <1>3, <2>1, AllocSound, ZenonT(40)
    <2>3. ASSUME o.ok PROVE TablePlaced(o.mem, Job)
      <3>1. Owns(o.mem, "table") /\ o.mem.buf["table"].size >= TableSize /\ Sound(o.mem)
        BY <1>1, <2>2, <2>3 DEF Enough, Result
      <3>2. OwnRoom(o.mem, Job.open, "table", TableSize)
        BY <1>3, <3>1, OwnedRoom DEF OwnRoom
      <3>3. QED
        BY <1>2, <1>5, <3>1, <3>2 DEF TablePlaced
    <2>4. QED
      BY <2>2, <2>3
  <1>6. QED
    BY <1>4, <1>5

\* Where the pixels will be unpacked to.
LEMMA UnpackedPointer ==
    ASSUME IInv, d.at = "pointers", NEW mem, Sound(mem), NEW o \in update_unpacked_pointer(mem)
    PROVE  Result(mem, o, {"unpacked"}) /\ (o.ok => PixelsPlaced(o.mem, Job))
  <1>1. Cur.packed \in Nat /\ Cur.unpacked \in Nat
    BY CurFacts
  <1>2. Job.unpacked # 0 => Job.unpacked = Cur.unpacked /\ Job.packed = Cur.packed
    BY DEF Job
  <1>3. "packed" \in Buffers /\ "unpacked" \in Buffers
    BY DEF Buffers
  <1>4. CASE Cur.packed = Cur.unpacked
    <2>1. PICK f : f = FreeBuffer(mem, "unpacked")
      OBVIOUS
    <2>2. o.mem = PointTo(f, "unpacked", "packed") /\ o.ok = TRUE
      BY <1>4, <2>1 DEF update_unpacked_pointer, Good
    <2>3. Sound(f) /\ Touches(mem, f, {"unpacked"}) /\ f.buf["unpacked"] = Nobody
      BY <1>3, <2>1, FreeSound
    <2>4. ~Owns(f, "unpacked")
      BY <2>3 DEF Owns, Nobody
    <2>5. "packed" = Original("unpacked") /\ "packed" = Original("packed")
      BY DEF Original
    <2>6. /\ Sound(o.mem) /\ Touches(f, o.mem, {"unpacked"})
          /\ o.mem.buf["unpacked"] = [ptr |-> f.buf["packed"].ptr, size |-> 0]
      BY <1>3, <2>2, <2>3, <2>4, <2>5, PointToSound
    <2>7. Result(f, o, {"unpacked"})
      BY <2>2, <2>6, Zenon DEF Result
    <2>8. Result(mem, o, {"unpacked"})
      BY <2>3, <2>7, ResultAfter
    <2>9. o.mem.buf["packed"] = f.buf["packed"]
      BY <1>3, <2>6 DEF Touches, KeepsApp
    <2>10. Aliases(o.mem, "unpacked", "packed")
      BY <2>6, <2>9 DEF Aliases
    <2>11. QED
      BY <1>2, <1>4, <2>2, <2>8, <2>10 DEF PixelsPlaced
  <1>5. CASE Cur.packed # Cur.unpacked
    <2>1. o \in AllocBuffer(mem, "unpacked", Cur.unpacked)
      BY <1>5 DEF update_unpacked_pointer
    <2>2. Result(mem, o, {"unpacked"}) /\ (o.ok => Enough(o.mem, "unpacked", Cur.unpacked))
      BY <1>1, <1>3, <2>1, AllocSound, ZenonT(40)
    <2>3. ASSUME o.ok PROVE PixelsPlaced(o.mem, Job)
      BY <1>1, <1>2, <1>5, <2>2, <2>3 DEF Enough, PixelsPlaced
    <2>4. QED
      BY <2>2, <2>3
  <1>6. QED
    BY <1>4, <1>5

\* What is read stays where it is while the other buffers are placed.
LEMMA ReadKept ==
    ASSUME NEW mem, Sound(mem), NEW nm, NEW B, Touches(mem, nm, B), NEW j,
           "packed" \notin B, "packedTable" \notin B, "none" \notin B
    PROVE  /\ TableRead(mem, j) => TableRead(nm, j)
           /\ PixelsRead(mem, j) => PixelsRead(nm, j)
           /\ \A b \in {"packed", "packedTable"} : nm.buf[b] = mem.buf[b]
  <1>1. /\ mem.buf["packed"].ptr[1] \notin B /\ mem.buf["packedTable"].ptr[1] \notin B
        /\ "packed" \in Buffers /\ "packedTable" \in Buffers
    BY DEF Sound, Tagged, Original, Buffers
  <1>2. TableRead(mem, j) => TableRead(nm, j)
    BY <1>1, HoldsKept, Zenon DEF TableRead
  <1>3. PixelsRead(mem, j) => PixelsRead(nm, j)
    BY <1>1, HoldsKept, Zenon DEF PixelsRead
  <1>4. \A b \in {"packed", "packedTable"} : nm.buf[b] = mem.buf[b]
    BY <1>1 DEF Touches, KeepsApp
  <1>5. QED
    BY <1>2, <1>3, <1>4

LEMMA TablePlacedKept ==
    ASSUME NEW mem, Sound(mem), NEW nm, Touches(mem, nm, {"unpacked"}), NEW j,
           TablePlaced(mem, j)
    PROVE  TablePlaced(nm, j)
  <1>1. mem.buf["table"].ptr[1] # "unpacked"
    BY DEF Sound, Tagged, Original, Buffers
  <1>2. nm.buf["table"] = mem.buf["table"] /\ nm.buf["packedTable"] = mem.buf["packedTable"]
    BY DEF Touches, KeepsApp, Buffers
  <1>3. \A p \in DOMAIN mem.heap : p[1] # "unpacked" =>
           p \in DOMAIN nm.heap /\ nm.heap[p] = mem.heap[p]
    BY DEF Touches, KeepsApp
  <1>4. OwnRoom(mem, j.open, "table", j.size) => OwnRoom(nm, j.open, "table", j.size)
    BY <1>1, <1>2, <1>3 DEF OwnRoom
  <1>5. QED
    BY <1>2, <1>4 DEF TablePlaced, Aliases, Owns

LEMMA PointersStage ==
    ASSUME IInv, d.at = "pointers", NEW o \in update_pack_unpack_ptrs
    PROVE  /\ Result(m, o, {"table", "unpacked"})
           /\ o.ok => /\ TableRead(o.mem, Job) /\ PixelsRead(o.mem, Job)
                      /\ TablePlaced(o.mem, Job) /\ PixelsPlaced(o.mem, Job)
  <1>1. Sound(m) /\ TableRead(m, Job) /\ PixelsRead(m, Job)
    BY DEF IInv, Decoding
  <1>2. ASSUME Result(m, o, {"table", "unpacked"})
        PROVE  TableRead(o.mem, Job) /\ PixelsRead(o.mem, Job)
    <2>1. Touches(m, o.mem, {"table", "unpacked"})
      BY <1>2 DEF Result
    <2>2. QED
      BY <1>1, <2>1, ReadKept
  <1>3. CASE ~Deep
    <2>1. o \in update_unpacked_pointer(m)
      BY <1>3 DEF update_pack_unpack_ptrs
    <2>2. Result(m, o, {"unpacked"}) /\ (o.ok => PixelsPlaced(o.mem, Job))
      BY <1>1, <2>1, UnpackedPointer
    <2>3. Result(m, o, {"table", "unpacked"})
      <3>1. Touches(m, m, {})
        BY DEF Touches, KeepsApp
      <3>2. QED
        BY <2>2, <3>1, ResultAfter
    <2>4. TablePlaced(o.mem, Job)
      BY <1>3 DEF TablePlaced, Job
    <2>5. QED
      BY <1>2, <2>2, <2>3, <2>4
  <1>4. CASE Deep /\ d.countsOnly
    <2>1. o \in update_table_pointer
      BY <1>4 DEF update_pack_unpack_ptrs
    <2>2. Result(m, o, {"table"}) /\ (o.ok => TablePlaced(o.mem, Job))
      BY <1>4, <2>1, TablePointer
    <2>3. Result(m, o, {"table", "unpacked"})
      <3>1. Touches(m, m, {})
        BY DEF Touches, KeepsApp
      <3>2. QED
        BY <2>2, <3>1, ResultAfter
    <2>4. PixelsPlaced(o.mem, Job)
      BY <1>4 DEF PixelsPlaced, Job
    <2>5. QED
      BY <1>2, <2>2, <2>3, <2>4
  <1>5. CASE Deep /\ ~d.countsOnly
    <2>1. PICK t \in update_table_pointer :
             IF t.ok THEN o \in update_unpacked_pointer(t.mem) ELSE o = t
      BY <1>5 DEF update_pack_unpack_ptrs, Then
    <2>2. Result(m, t, {"table"}) /\ (t.ok => TablePlaced(t.mem, Job))
      BY <1>5, <2>1, TablePointer
    <2>3. CASE ~t.ok
      <3>1. o = t
        BY <2>1, <2>3
      <3>2. Touches(m, m, {})
        BY DEF Touches, KeepsApp
      <3>3. Result(m, t, {"table", "unpacked"})
        BY <2>2, <3>2, ResultAfter
      <3>4. QED
        BY <2>3, <3>1, <3>3, Zenon
    <2>4. CASE t.ok
      <3>1. o \in update_unpacked_pointer(t.mem) /\ Sound(t.mem) /\ Touches(m, t.mem, {"table"})
        BY <2>1, <2>2, <2>4 DEF Result
      <3>2. Result(t.mem, o, {"unpacked"}) /\ (o.ok => PixelsPlaced(o.mem, Job))
        BY <3>1, UnpackedPointer
      <3>3. Result(m, o, {"table", "unpacked"})
        BY <3>1, <3>2, ResultAfter
      <3>4. TablePlaced(o.mem, Job)
        BY <2>2, <2>4, <3>1, <3>2, TablePlacedKept DEF Result
      <3>5. QED
        BY <1>2, <3>2, <3>3, <3>4
    <2>5. QED
      BY <2>3, <2>4
  <1>6. QED
    BY <1>3, <1>4, <1>5

LEMMA UndoToken ==
    ASSUME NEW data \in TokenT
    PROVE  Undo(data) \in TokenT
  BY JunkToken DEF Undo, TokenT, Forms

\* The owners of what the pipeline may write to.
Lends(owners) == "pipeline" \in owners /\ (Job.open # {} => "application" \in owners)

\* The blocks that a heap has at the addresses of some buffers stay as large.
LEMMA PutRoom ==
    ASSUME NEW mem, Sound(mem), NEW b \in Buffers, NEW n \in Nat, NEW data \in TokenT,
           OwnRoom(mem, Job.open, b, n), NEW nm, nm = Put(mem, b, n, data), NEW B,
           mem.buf[b].ptr[1] \in B \cup {"none"}, NEW owners, Lends(owners)
    PROVE  /\ Sound(nm) /\ Touches(mem, nm, B) /\ nm.buf = mem.buf
           /\ Holds(nm, owners, b, n, data)
           /\ \A a, k : OwnRoom(mem, Job.open, a, k) => OwnRoom(nm, Job.open, a, k)
  <1> DEFINE at == mem.buf[b].ptr
  <1>1. n > 0 => /\ Live(mem, b) /\ mem.heap[at].size >= n
                 /\ mem.heap[at].own \in owners
                 /\ mem.heap[at].own = "pipeline" \/ at \in Job.open
                 /\ at[1] \in B
    <2>1. DOMAIN mem.heap \subseteq Addr /\ mem.heap \in [DOMAIN mem.heap -> BlockT]
      BY HeapsOpen DEF Sound, MemT
    <2>2. \A p \in Addr : p[1] # "none"
      BY DEF Addr, Buffers
    <2>3. \A p \in DOMAIN mem.heap : mem.heap[p].own \in {"pipeline", "application"}
      BY <2>1 DEF BlockT
    <2>4. ASSUME n > 0
          PROVE  /\ at \in DOMAIN mem.heap /\ mem.heap[at].size >= n
                 /\ mem.heap[at].own = "pipeline" \/ at \in Job.open
      BY <2>4 DEF OwnRoom
    <2>5. ASSUME n > 0 PROVE mem.heap[at].own \in owners
      BY <2>3, <2>4, <2>5 DEF Lends
    <2>6. QED
      BY <2>1, <2>2, <2>4, <2>5 DEF Live
  <1>2. /\ Sound(nm) /\ Touches(mem, nm, B) /\ nm.buf = mem.buf
        /\ Holds(nm, owners, b, n, data)
    BY <1>1, PutTouches, SMTT(20)
  <1>3. Room(mem, b, n)
    BY <1>1 DEF Room
  <1>4. Written(mem, nm, b, n, data)
    BY <1>3, PutSound
  <1>5. \A a, k : OwnRoom(mem, Job.open, a, k) => OwnRoom(nm, Job.open, a, k)
    BY <1>4 DEF Written, OwnRoom
  <1>6. QED
    BY <1>2, <1>5

\* Where n units are uncompressed to outn units, unless they are there already.
Placeable(mem, from, n, to, outn) ==
    n > 0 /\ ~(n = outn /\ mem.buf[from].ptr = mem.buf[to].ptr) => OwnRoom(mem, Job.open, to, outn)

\* The outcome of decompress_data.
Undone(mem, o, owners, from, n, to, outn, data) ==
    /\ Result(mem, o, {"scratch", from, to})
    /\ \A b \in Buffers \ {"scratch"} : o.mem.buf[b] = mem.buf[b]
    /\ \A k : OwnRoom(mem, Job.open, to, k) => OwnRoom(o.mem, Job.open, to, k)
    /\ o.ok /\ n > 0 => Holds(o.mem, owners, to, outn, IF n = outn THEN data ELSE Undo(data))

\* decompress_data: to what a buffer holds, in place or from another buffer.
LEMMA Decompressed ==
    ASSUME NEW mem, Sound(mem), NEW from \in Buffers, NEW to \in Buffers,
           from # "scratch", to # "scratch", mem.buf[from].ptr[1] # "scratch",
           mem.buf[to].ptr[1] \in {"none", from, to},
           NEW n \in Nat, NEW outn \in Nat, NEW data \in TokenT,
           NEW owners, Lends(owners), Holds(mem, owners, from, n, data),
           Placeable(mem, from, n, to, outn),
           NEW o \in decompress_data(mem, from, n, to, outn)
    PROVE  Undone(mem, o, owners, from, n, to, outn, data)
  <1> SUFFICES
         /\ Result(mem, o, {"scratch", from, to})
         /\ \A b \in Buffers \ {"scratch"} : o.mem.buf[b] = mem.buf[b]
         /\ \A k : OwnRoom(mem, Job.open, to, k) => OwnRoom(o.mem, Job.open, to, k)
         /\ o.ok /\ n > 0 => Holds(o.mem, owners, to, outn, IF n = outn THEN data ELSE Undo(data))
    BY DEF Undone
  <1> DEFINE B == {"scratch", from, to}
  <1>0. Touches(mem, mem, B)
    BY DEF Touches, KeepsApp
  <1>1. CASE n = 0
    <2>1. o.mem = mem /\ o.ok = TRUE
      BY <1>1 DEF decompress_data, Good, Then
    <2>2. Result(mem, o, B)
      BY <1>0, <2>1 DEF Result
    <2>3. QED
      BY <1>1, <2>1, <2>2
  <1>2. CASE n # 0 /\ n = outn /\ mem.buf[from].ptr = mem.buf[to].ptr
    <2>1. o.mem = mem /\ o.ok = TRUE
      BY <1>2 DEF decompress_data, Good, Then
    <2>2. Result(mem, o, B)
      BY <1>0, <2>1 DEF Result
    <2>3. Holds(mem, owners, to, outn, data)
      BY <1>2 DEF Holds
    <2>4. QED
      BY <1>2, <2>1, <2>2, <2>3
  <1>3. CASE n # 0 /\ n = outn /\ mem.buf[from].ptr # mem.buf[to].ptr
    <2>1. o.mem = Put(mem, to, outn, Get(mem, from)) /\ o.ok = TRUE
      BY <1>3 DEF decompress_data, Good, Then
    <2>2. Get(mem, from) = data
      BY <1>3 DEF Get, Live, Holds
    <2>3. OwnRoom(mem, Job.open, to, outn)
      BY <1>3 DEF Placeable
    <2>4. mem.buf[to].ptr[1] \in B \cup {"none"}
      OBVIOUS
    <2> HIDE DEF B
    <2>5. /\ Sound(o.mem) /\ Touches(mem, o.mem, B) /\ o.mem.buf = mem.buf
          /\ Holds(o.mem, owners, to, outn, data)
          /\ \A a, k : OwnRoom(mem, Job.open, a, k) => OwnRoom(o.mem, Job.open, a, k)
      BY <2>1, <2>2, <2>3, <2>4, PutRoom
    <2>6. Result(mem, o, B)
      BY <2>1, <2>5 DEF Result
    <2>7. QED
      BY <1>3, <2>5, <2>6 DEF B
  <1>4. CASE n # 0 /\ n # outn
    <2>1. PICK a \in AllocBuffer(mem, "scratch", outn) :
             IF a.ok THEN o \in {Bad(a.mem), Good(Put(a.mem, to, outn, Undo(Get(a.mem, from))))}
             ELSE o = a
      BY <1>4 DEF decompress_data, Then
    <2>2. Result(mem, a, {"scratch"})
      BY AllocSound DEF Buffers
    <2>3. \A b \in Buffers \ {"scratch"} : a.mem.buf[b] = mem.buf[b]
      BY <2>2 DEF Result, Touches, KeepsApp
    <2>4. Holds(a.mem, owners, from, n, data)
      BY <2>2, HoldsKept DEF Result
    <2>5. OwnRoom(mem, Job.open, to, outn)
      BY <1>4 DEF Placeable
    <2>6. \A k : OwnRoom(mem, Job.open, to, k) => OwnRoom(a.mem, Job.open, to, k)
      <3>1. a.mem.buf[to] = mem.buf[to]
        BY <2>3
      <3>2. \A p \in DOMAIN mem.heap : p[1] # "scratch" =>
               p \in DOMAIN a.mem.heap /\ a.mem.heap[p] = mem.heap[p]
        BY <2>2 DEF Result, Touches, KeepsApp
      <3>3. mem.buf[to].ptr[1] # "scratch"
        OBVIOUS
      <3>4. QED
        BY <3>1, <3>2, <3>3 DEF OwnRoom
    <2>7. Sound(a.mem) /\ Touches(mem, a.mem, {"scratch"})
      BY <2>2 DEF Result
    <2>8. CASE o.mem = a.mem /\ o.ok = FALSE
      <3>1. Result(a.mem, o, {"scratch"})
        BY <2>7, <2>8 DEF Result, Touches, KeepsApp
      <3>2. Result(mem, o, B)
        BY <2>7, <3>1, ResultAfter
      <3> HIDE DEF B
      <3>3. QED
        BY <2>3, <2>6, <2>8, <3>2 DEF B
    <2>9. CASE o.mem = Put(a.mem, to, outn, Undo(Get(a.mem, from))) /\ o.ok = TRUE
      <3>1. Get(a.mem, from) = data
        <4>1. n > 0
          BY <1>4
        <4>2. QED
          BY <2>4, <4>1, HoldsGet
      <3>2. OwnRoom(a.mem, Job.open, to, outn) /\ Undo(data) \in TokenT
        BY <2>5, <2>6, UndoToken
      <3>3. a.mem.buf[to].ptr[1] \in B \cup {"none"}
        BY <2>3
      <3> HIDE DEF B
      <3>4. /\ Sound(o.mem) /\ Touches(a.mem, o.mem, B) /\ o.mem.buf = a.mem.buf
            /\ Holds(o.mem, owners, to, outn, Undo(data))
            /\ \A b, k : OwnRoom(a.mem, Job.open, b, k) => OwnRoom(o.mem, Job.open, b, k)
        BY <2>7, <2>9, <3>1, <3>2, <3>3, PutRoom
      <3>6. Result(a.mem, o, B)
        BY <2>9, <3>4 DEF Result
      <3>7. Result(mem, o, B)
        BY <2>7, <3>6, ResultAfter DEF B
      <3>8. QED
        BY <1>4, <2>3, <2>6, <3>4, <3>7 DEF B
    <2>10. CASE ~a.ok
      <3>1. o = a
        BY <2>1, <2>10
      <3>2. Touches(mem, mem, {})
        BY DEF Touches, KeepsApp
      <3>3. Result(mem, a, B)
        BY <2>2, <3>2, ResultAfter
      <3> HIDE DEF B
      <3>4. QED
        BY <2>3, <2>6, <2>10, <3>1, <3>3, Zenon DEF B
    <2>11. CASE a.ok
      <3>1. \/ o.mem = a.mem /\ o.ok = FALSE
            \/ o.mem = Put(a.mem, to, outn, Undo(Get(a.mem, from))) /\ o.ok = TRUE
        BY <2>1, <2>11 DEF Good, Bad
      <3>2. QED
        BY <2>8, <2>9, <3>1
    <2>12. QED
      BY <2>10, <2>11
  <1>5. QED
    BY <1>1, <1>2, <1>3, <1>4

LEMMA OwnRoomKept ==
    ASSUME NEW mem, NEW nm, NEW open, NEW b \in Buffers, NEW n, NEW B, OwnRoom(mem, open, b, n),
           Touches(mem, nm, B), b \notin B, mem.buf[b].ptr[1] \notin B
    PROVE  OwnRoom(nm, open, b, n)
  BY DEF OwnRoom, Touches, KeepsApp

\* What a decoder is asked for, in terms of the chunk.
LEMMA JobFacts ==
    ASSUME IInv, d.at # "none"
    PROVE  /\ Job.stored \in Nat /\ Job.area \in Nat /\ Job.size \in Nat
           /\ Job.packed \in Nat /\ Job.unpacked \in Nat
           /\ Job.counts = Cur.counts /\ Job.pixels = Cur.pixels /\ Job.coded = Coded
           /\ Job.counts \in TokenT /\ Job.pixels \in TokenT
           /\ Lends(Job.owners)
           /\ Job.unpacked > 0 => Job.packed > 0
           /\ IF Deep THEN /\ Job.stored = Cur.table /\ Job.area = Cur.area
                           /\ Job.size = TableSize /\ Job.area > 0 /\ Job.size >= Job.area
              ELSE Job.stored = 0 /\ Job.area = 0 /\ Job.size = 0 /\ Cur.table = 0
           /\ IF d.countsOnly \/ d.direct THEN Job.packed = 0 /\ Job.unpacked = 0
              ELSE Job.packed = Cur.packed /\ Job.unpacked = Cur.unpacked
  <1>1. /\ WellStored(part, d.chunk, Cur)
        /\ Cur.area \in Nat /\ Cur.table \in Nat /\ Cur.packed \in Nat /\ Cur.unpacked \in Nat
        /\ Cur.counts \in TokenT /\ Cur.pixels \in TokenT
        /\ Cur.area > 0 /\ TableSize \in {Cur.area, Cur.area + 1}
    BY CurFacts
  <1>2. /\ Job.counts = Cur.counts /\ Job.pixels = Cur.pixels /\ Job.coded = Coded
        /\ Lends(Job.owners)
        /\ Job.stored = IF Deep THEN Cur.table ELSE 0
        /\ Job.area = IF Deep THEN Cur.area ELSE 0
        /\ Job.size = IF Deep THEN TableSize ELSE 0
        /\ Job.packed = IF d.countsOnly \/ d.direct THEN 0 ELSE Cur.packed
        /\ Job.unpacked = IF d.countsOnly \/ d.direct THEN 0 ELSE Cur.unpacked
    BY DEF Job, Lends
  <1>3. (Cur.unpacked > 0 => Cur.packed > 0) /\ (~Deep => Cur.table = 0)
    BY <1>1 DEF WellStored, Deep
  <1>4. QED
    BY <1>1, <1>2, <1>3

\* The table of counts is uncompressed to where the user wants it.
LEMMA DecompressTable ==
    ASSUME IInv, d.at = "decompress", Coded,
           NEW o \in IF m.buf["packedTable"].ptr = Null THEN {Good(m)}
                     ELSE decompress_data(m, "packedTable", Cur.table, "table", Cur.area)
    PROVE  /\ Result(m, o, {"scratch", "packedTable", "table"})
           /\ \A b \in Buffers \ {"scratch"} : o.mem.buf[b] = m.buf[b]
           /\ o.ok => TablePlaced(o.mem, Job) /\ TablePlain(o.mem, Job)
  <1>1. /\ Sound(m) /\ TableRead(m, Job) /\ TablePlaced(m, Job)
    BY DEF IInv, Decoding
  <1>2. /\ Cur.table \in Nat /\ Cur.area \in Nat /\ Cur.counts \in TokenT
    BY CurFacts
  <1>3. "packedTable" \in Buffers /\ "table" \in Buffers
    BY DEF Buffers
  <1>4. \A b \in Buffers : m.buf[b].ptr[1] \in {"none", b, Original(b)}
    BY <1>1 DEF Sound, Tagged
  <1>5. m.buf["packedTable"].ptr[1] # "scratch" /\ m.buf["table"].ptr[1] # "scratch"
        /\ m.buf["table"].ptr[1] \in {"none", "packedTable", "table"}
    BY <1>3, <1>4 DEF Original
  <1>6. /\ Job.stored \in Nat /\ Job.size \in Nat /\ Lends(Job.owners)
        /\ Job.counts = Cur.counts /\ Job.stored = Cur.table /\ Job.coded = Coded
        /\ Deep => Job.area = Cur.area /\ Job.size >= Job.area /\ Job.area > 0
        /\ ~Deep => Job.size = 0 /\ Cur.table = 0
    BY JobFacts
  <1>7. Holds(m, Job.owners, "packedTable", Cur.table, Cur.counts)
    BY <1>1, <1>6 DEF TableRead
  <1>8. Cur.table > 0 => OwnRoom(m, Job.open, "table", Cur.area)
    <2>1. CASE Deep
      <3>1. OwnRoom(m, Job.open, "table", Job.size)
        BY <1>1, <1>2, <1>6, <2>1 DEF TablePlaced
      <3>2. LET p == m.buf["table"].ptr IN
            /\ p \in DOMAIN m.heap /\ m.heap[p].size >= Job.size
            /\ m.heap[p].own = "pipeline" \/ p \in Job.open
        BY <1>2, <1>6, <2>1, <3>1 DEF OwnRoom
      <3>3. m.heap[m.buf["table"].ptr].size \in Nat
        <4>1. m.heap \in [DOMAIN m.heap -> BlockT]
          BY <1>1, HeapsOpen DEF Sound, MemT
        <4>2. QED
          BY <3>2, <4>1 DEF BlockT
      <3>4. m.heap[m.buf["table"].ptr].size >= Cur.area
        BY <1>2, <1>6, <2>1, <3>2, <3>3
      <3>5. QED
        BY <3>2, <3>4 DEF OwnRoom
    <2>2. QED
      BY <1>2, <1>6, <2>1
  <1>9. CASE m.buf["packedTable"].ptr = Null
    <2>1. o.mem = m /\ o.ok = TRUE
      BY <1>9 DEF Good
    <2>2. Cur.table = 0
      <3>1. Null \notin DOMAIN m.heap
        <4>1. DOMAIN m.heap \subseteq Addr
          BY <1>1, HeapsOpen DEF Sound, MemT
        <4>2. QED
          BY <4>1 DEF Addr, Null
      <3>2. QED
        BY <1>2, <1>7, <1>9, <3>1 DEF Holds
    <2>3. TablePlain(m, Job)
      BY <1>6, <2>2 DEF TablePlain
    <2>4. QED
      BY <1>1, <2>1, <2>3 DEF Result, Touches, KeepsApp
  <1>10. CASE m.buf["packedTable"].ptr # Null
    <2>1. o \in decompress_data(m, "packedTable", Cur.table, "table", Cur.area)
      BY <1>10
    <2>a. Placeable(m, "packedTable", Cur.table, "table", Cur.area)
      BY <1>8 DEF Placeable
    <2>b. Undone(m, o, Job.owners, "packedTable", Cur.table, "table", Cur.area, Cur.counts)
      BY <1>1, <1>2, <1>3, <1>5, <1>6, <1>7, <2>1, <2>a, Decompressed
    <2>2. /\ Result(m, o, {"scratch", "packedTable", "table"})
          /\ \A b \in Buffers \ {"scratch"} : o.mem.buf[b] = m.buf[b]
          /\ \A k : OwnRoom(m, Job.open, "table", k) => OwnRoom(o.mem, Job.open, "table", k)
          /\ o.ok /\ Cur.table > 0 =>
                Holds(o.mem, Job.owners, "table", Cur.area,
                      IF Cur.table = Cur.area THEN Cur.counts ELSE Undo(Cur.counts))
      BY <2>b DEF Undone
    <2>3. o.mem.buf["table"] = m.buf["table"] /\ o.mem.buf["packedTable"] = m.buf["packedTable"]
      BY <2>2 DEF Buffers
    <2>4. TablePlaced(o.mem, Job)
      BY <1>1, <2>2, <2>3 DEF TablePlaced, Aliases, Owns
    <2>5. ASSUME o.ok PROVE TablePlain(o.mem, Job)
      <3>1. SUFFICES ASSUME Job.stored > 0
                     PROVE  /\ Holds(o.mem, Job.owners, "table", Job.area, PlainCounts(Job))
                            /\ o.mem.buf["packedTable"].ptr # Null
        BY DEF TablePlain
      <3>2. Deep /\ Cur.table > 0 /\ Job.area = Cur.area
        BY <1>6, <3>1
      <3>3. PlainCounts(Job) = IF Cur.table = Cur.area THEN Cur.counts ELSE Undo(Cur.counts)
        BY <1>6, <3>2 DEF PlainCounts
      <3>4. QED
        BY <1>10, <2>2, <2>3, <2>5, <3>2, <3>3
    <2>6. QED
      BY <2>2, <2>4, <2>5
  <1>11. QED
    BY <1>9, <1>10

\* The pixels of a compressed chunk are uncompressed to where the user wants them.
LEMMA DecompressPixels ==
    ASSUME IInv, d.at # "none", Coded, ~d.countsOnly, NEW mem, Sound(mem),
           PixelsRead(mem, Job), PixelsPlaced(mem, Job),
           NEW o \in IF Cur.unpacked = 0 THEN {Good(mem)}
                     ELSE decompress_data(mem, "packed", Cur.packed, "unpacked", Cur.unpacked)
    PROVE  /\ Result(mem, o, {"scratch", "packed", "unpacked"})
           /\ \A b \in Buffers \ {"scratch"} : o.mem.buf[b] = mem.buf[b]
           /\ o.ok => PixelsPlain(o.mem, Job)
  <1>1. /\ Cur.packed \in Nat /\ Cur.unpacked \in Nat /\ Cur.pixels \in TokenT
    BY CurFacts
  <1>2. "packed" \in Buffers /\ "unpacked" \in Buffers
    BY DEF Buffers
  <1>3. \A b \in Buffers : mem.buf[b].ptr[1] \in {"none", b, Original(b)}
    BY DEF Sound, Tagged
  <1>4. mem.buf["packed"].ptr[1] # "scratch"
        /\ mem.buf["unpacked"].ptr[1] \in {"none", "packed", "unpacked"}
    BY <1>2, <1>3 DEF Original
  <1>5. ~d.direct
    BY DEF IInv, Decoding
  <1>6. /\ Job.packed = Cur.packed /\ Job.unpacked = Cur.unpacked /\ Lends(Job.owners)
        /\ Job.pixels = Cur.pixels /\ (Job.unpacked > 0 => Job.packed > 0)
    BY <1>5, JobFacts
  <1>7. Holds(mem, Job.owners, "packed", Cur.packed, Cur.pixels)
    BY <1>6 DEF PixelsRead
  <1>8. CASE Cur.unpacked = 0
    <2>1. o.mem = mem /\ o.ok = TRUE
      BY <1>8 DEF Good
    <2>2. PixelsPlain(mem, Job)
      BY <1>6, <1>8 DEF PixelsPlain, Holds
    <2>3. Touches(mem, mem, {"scratch", "packed", "unpacked"})
      BY Zenon DEF Touches, KeepsApp
    <2>4. QED
      BY <2>1, <2>2, <2>3, Zenon DEF Result
  <1>9. CASE Cur.unpacked # 0
    <2>1. o \in decompress_data(mem, "packed", Cur.packed, "unpacked", Cur.unpacked)
      BY <1>9
    <2>2. Placeable(mem, "packed", Cur.packed, "unpacked", Cur.unpacked)
      <3>1. CASE Cur.packed = Cur.unpacked
        <4>1. Aliases(mem, "unpacked", "packed")
          BY <1>1, <1>6, <1>9, <3>1 DEF PixelsPlaced
        <4>2. QED
          BY <3>1, <4>1 DEF Placeable, Aliases
      <3>2. CASE Cur.packed # Cur.unpacked
        <4>1. Owns(mem, "unpacked") /\ mem.buf["unpacked"].size >= Cur.unpacked
          BY <1>1, <1>6, <1>9, <3>2 DEF PixelsPlaced
        <4>2. OwnRoom(mem, Job.open, "unpacked", Cur.unpacked)
          BY <1>2, <4>1, OwnedRoom DEF OwnRoom
        <4>3. QED
          BY <4>2 DEF Placeable
      <3>3. QED
        BY <3>1, <3>2
    <2>3. Undone(mem, o, Job.owners, "packed", Cur.packed, "unpacked", Cur.unpacked, Cur.pixels)
      BY <1>1, <1>2, <1>4, <1>6, <1>7, <2>1, <2>2, Decompressed
    <2>4. ASSUME o.ok PROVE PixelsPlain(o.mem, Job)
      <3>1. Cur.packed > 0
        BY <1>1, <1>6, <1>9
      <3>2. Holds(o.mem, Job.owners, "unpacked", Cur.unpacked,
                  IF Cur.packed = Cur.unpacked THEN Cur.pixels ELSE Undo(Cur.pixels))
        BY <2>3, <2>4, <3>1 DEF Undone
      <3>3. QED
        BY <1>6, <3>2 DEF PixelsPlain, PlainPixels
    <2>5. QED
      BY <2>3, <2>4 DEF Undone
  <1>10. QED
    BY <1>8, <1>9

\* The counts are where they belong whatever happens to the pixels.
LEMMA TableKept ==
    ASSUME NEW mem, Sound(mem), NEW nm, NEW B, Touches(mem, nm, B), NEW j,
           "table" \notin B, "packedTable" \notin B, "none" \notin B
    PROVE  /\ TablePlaced(mem, j) => TablePlaced(nm, j)
           /\ TablePlain(mem, j) => TablePlain(nm, j)
           /\ TableRead(mem, j) => TableRead(nm, j)
           /\ CountsMade(mem, j) => CountsMade(nm, j)
  <1>1. /\ "packedTable" \in Buffers /\ "table" \in Buffers
        /\ mem.buf["table"].ptr[1] \notin B /\ mem.buf["packedTable"].ptr[1] \notin B
    BY DEF Sound, Tagged, Original, Buffers
  <1>2. nm.buf["table"] = mem.buf["table"] /\ nm.buf["packedTable"] = mem.buf["packedTable"]
    BY <1>1 DEF Touches, KeepsApp
  <1>3. TablePlaced(mem, j) => TablePlaced(nm, j)
    BY <1>1, <1>2, OwnRoomKept DEF TablePlaced, Aliases, Owns
  <1>4. TablePlain(mem, j) => TablePlain(nm, j)
    BY <1>1, <1>2, HoldsKept DEF TablePlain
  <1>5. TableRead(mem, j) => TableRead(nm, j)
    BY <1>1, HoldsKept DEF TableRead
  <1>6. CountsMade(mem, j) => CountsMade(nm, j)
    BY <1>1, <1>2, HoldsKept DEF CountsMade, Overlooked
  <1>7. QED
    BY <1>3, <1>4, <1>5, <1>6

LEMMA PixelsKept ==
    ASSUME NEW mem, Sound(mem), NEW nm, NEW B, Touches(mem, nm, B), NEW j,
           "packed" \notin B, "unpacked" \notin B, "none" \notin B
    PROVE  /\ PixelsPlaced(mem, j) => PixelsPlaced(nm, j)
           /\ PixelsPlain(mem, j) => PixelsPlain(nm, j)
           /\ PixelsRead(mem, j) => PixelsRead(nm, j)
  <1>1. /\ "packed" \in Buffers /\ "unpacked" \in Buffers
        /\ mem.buf["packed"].ptr[1] \notin B /\ mem.buf["unpacked"].ptr[1] \notin B
    BY DEF Sound, Tagged, Original, Buffers
  <1>2. nm.buf["packed"] = mem.buf["packed"] /\ nm.buf["unpacked"] = mem.buf["unpacked"]
    BY <1>1 DEF Touches, KeepsApp
  <1>3. PixelsPlaced(mem, j) => PixelsPlaced(nm, j)
    BY <1>2 DEF PixelsPlaced, Aliases, Owns
  <1>4. PixelsPlain(mem, j) => PixelsPlain(nm, j)
    BY <1>1, HoldsKept DEF PixelsPlain
  <1>5. PixelsRead(mem, j) => PixelsRead(nm, j)
    BY <1>1, HoldsKept DEF PixelsRead
  <1>6. QED
    BY <1>3, <1>4, <1>5

\* What decompressing leaves.
Opened(mem, o) ==
    /\ Result(mem, o, {"scratch", "packedTable", "table", "packed", "unpacked"})
    /\ \A b \in Buffers \ {"scratch"} : o.mem.buf[b] = mem.buf[b]
    /\ o.ok => /\ TablePlaced(o.mem, Job) /\ PixelsPlain(o.mem, Job)
               /\ IF Coded THEN TablePlain(o.mem, Job) ELSE TableRead(o.mem, Job)

LEMMA DecompressStage ==
    ASSUME IInv, d.at = "decompress",
           NEW o \in IF Coded THEN exr_uncompress_chunk ELSE {Good(m)}
    PROVE  Opened(m, o)
  <1>1. /\ Sound(m) /\ TableRead(m, Job) /\ PixelsRead(m, Job)
        /\ TablePlaced(m, Job) /\ PixelsPlaced(m, Job)
    BY DEF IInv, Decoding
  <1>2. CASE ~Coded
    <2>1. o.mem = m /\ o.ok = TRUE
      BY <1>2 DEF Good
    <2>2. PixelsPlain(m, Job)
      <3>1. WellStored(part, d.chunk, Cur)
        BY CurFacts
      <3>2. Cur.packed = Cur.unpacked
        BY <1>2, <3>1 DEF WellStored, Coded
      <3>3. Job.packed = Job.unpacked /\ PlainPixels(Job) = Job.pixels
        BY <3>2 DEF Job, PlainPixels
      <3>4. Job.unpacked > 0 => m.buf["unpacked"].ptr = m.buf["packed"].ptr
        BY <1>1, <3>3 DEF PixelsPlaced, Aliases
      <3>5. QED
        BY <1>1, <3>3, <3>4 DEF PixelsRead, PixelsPlain, Holds
    <2>3. QED
      BY <1>1, <1>2, <2>1, <2>2 DEF Opened, Result, Touches, KeepsApp
  <1>3. CASE Coded
    <2>1. PICK t \in IF m.buf["packedTable"].ptr = Null THEN {Good(m)}
                     ELSE decompress_data(m, "packedTable", Cur.table, "table", Cur.area) :
             IF d.countsOnly \/ ~t.ok THEN o = t
             ELSE o \in IF Cur.unpacked = 0 THEN {Good(t.mem)}
                        ELSE decompress_data(t.mem, "packed", Cur.packed, "unpacked", Cur.unpacked)
      BY <1>3 DEF exr_uncompress_chunk, Then
    <2>2. /\ Result(m, t, {"scratch", "packedTable", "table"})
          /\ \A b \in Buffers \ {"scratch"} : t.mem.buf[b] = m.buf[b]
          /\ t.ok => TablePlaced(t.mem, Job) /\ TablePlain(t.mem, Job)
      BY <1>3, <2>1, DecompressTable
    <2>3. CASE d.countsOnly \/ ~t.ok
      <3>1. o = t
        BY <2>1, <2>3
      <3>2. Result(m, o, {"scratch", "packedTable", "table", "packed", "unpacked"})
        <4>1. Touches(m, m, {})
          BY DEF Touches, KeepsApp
        <4>2. QED
          BY <2>2, <3>1, <4>1, ResultAfter
      <3>3. o.ok => PixelsPlain(o.mem, Job)
        BY <2>3, <3>1 DEF PixelsPlain, Holds, Job
      <3>4. QED
        BY <1>3, <2>2, <3>1, <3>2, <3>3 DEF Opened
    <2>4. CASE ~d.countsOnly /\ t.ok
      <3>1. o \in IF Cur.unpacked = 0 THEN {Good(t.mem)}
                  ELSE decompress_data(t.mem, "packed", Cur.packed, "unpacked", Cur.unpacked)
        BY <2>1, <2>4
      <3>2. Sound(t.mem) /\ Touches(m, t.mem, {"scratch", "packedTable", "table"})
        BY <2>2 DEF Result
      <3>3. PixelsRead(t.mem, Job) /\ PixelsPlaced(t.mem, Job)
        BY <1>1, <3>2, PixelsKept
      <3>4. /\ Result(t.mem, o, {"scratch", "packed", "unpacked"})
            /\ \A b \in Buffers \ {"scratch"} : o.mem.buf[b] = t.mem.buf[b]
            /\ o.ok => PixelsPlain(o.mem, Job)
        BY <1>3, <2>4, <3>1, <3>2, <3>3, DecompressPixels
      <3>5. Result(m, o, {"scratch", "packedTable", "table", "packed", "unpacked"})
        BY <3>2, <3>4, ResultAfter
      <3>6. TablePlaced(o.mem, Job) /\ TablePlain(o.mem, Job)
        BY <2>2, <2>4, <3>2, <3>4, TableKept DEF Result
      <3>7. QED
        BY <1>3, <2>2, <3>4, <3>5, <3>6 DEF Opened
    <2>5. QED
      BY <2>3, <2>4
  <1>4. QED
    BY <1>2, <1>3

LEMMA GetToken ==
    ASSUME NEW mem, Sound(mem), NEW b \in Buffers
    PROVE  Get(mem, b) \in TokenT
  <1>1. mem.heap \in [DOMAIN mem.heap -> BlockT]
    BY HeapsOpen DEF Sound, MemT
  <1>2. CASE Live(mem, b)
    <2>1. mem.heap[mem.buf[b].ptr] \in BlockT
      BY <1>1, <1>2 DEF Live
    <2>2. QED
      BY <1>2, <2>1 DEF Get, BlockT
  <1>3. CASE ~Live(mem, b)
    BY <1>3, JunkToken DEF Get
  <1>4. QED
    BY <1>2, <1>3

\* The counts of a chunk before they are unpacked.
Totals(j) == IF j.stored = 0 THEN Zeros ELSE PlainCounts(j)

LEMMA TotalsPlain ==
    ASSUME IInv, d.at # "none", Deep
    PROVE  Totals(Job) \in TokenT /\ Totals(Job).form = "plain"
  <1>1. /\ WellStored(part, d.chunk, Cur) /\ Job.stored = Cur.table /\ Job.area = Cur.area
        /\ Job.counts = Cur.counts /\ Job.counts \in TokenT /\ Job.coded = Coded
    BY CurFacts, JobFacts
  <1>2. Job.counts = Token("counts", d.chunk, IF Coded /\ Job.stored # Job.area THEN "coded"
                                              ELSE "plain")
    BY <1>1 DEF WellStored, Deep, Coded
  <1>3. Zeros \in TokenT /\ Zeros.form = "plain"
    BY DEF Zeros, Token, TokenT, Forms, NoChunk
  <1>4. Undo(Job.counts) \in TokenT
    BY <1>1, UndoToken
  <1>5. CASE Job.stored = Job.area \/ ~Coded
    BY <1>1, <1>2, <1>3, <1>5 DEF Totals, PlainCounts, Token
  <1>6. CASE ~(Job.stored = Job.area \/ ~Coded)
    <2>1. Job.counts.form = "coded"
      BY <1>2, <1>6 DEF Token
    <2>2. Undo(Job.counts).form = "plain"
      BY <1>1, <2>1 DEF Undo, TokenT
    <2>3. QED
      BY <1>1, <1>3, <1>4, <1>6, <2>2 DEF Totals, PlainCounts
  <1>7. QED
    BY <1>5, <1>6

\* What a part of the samples stage leaves: the same buffers, and room in the table.
InTable(mem, o) == /\ Result(mem, o, {"table", "packedTable"}) /\ o.mem.buf = mem.buf
                   /\ OwnRoom(o.mem, Job.open, "table", Job.size)

\* The table of counts before it is unpacked.
LEMMA TableThere ==
    ASSUME IInv, d.at = "samples", Deep, NEW o \in PlacedTable
    PROVE  /\ InTable(m, o)
           /\ o.ok /\ ~Overlooked(m, Job) => Get(o.mem, "table") = Totals(Job)
  <1> DEFINE B == {"table", "packedTable"}
             n == m.buf["table"].size
  <1>1. /\ Sound(m) /\ TablePlaced(m, Job)
        /\ IF Coded THEN TablePlain(m, Job) ELSE TableRead(m, Job)
    BY DEF IInv, Decoding
  <1>2. /\ Cur.table \in Nat /\ Cur.area \in Nat /\ Cur.counts \in TokenT
        /\ Job.stored = Cur.table /\ Job.area = Cur.area /\ Job.counts = Cur.counts
        /\ Job.coded = Coded
        /\ Job.size \in Nat /\ Job.size >= Job.area /\ Job.area > 0 /\ Job.size > 0
        /\ Lends(Job.owners)
    BY CurFacts, JobFacts
  <1>3. "table" \in Buffers /\ "packedTable" \in Buffers
    BY DEF Buffers
  <1>4. m.buf["table"].ptr[1] \in B \cup {"none"}
        /\ m.buf["packedTable"].ptr[1] \in {"none", "packedTable"}
    BY <1>1, <1>3 DEF Sound, Tagged, Original
  <1>5. n \in Nat /\ m.heap \in [DOMAIN m.heap -> BlockT]
    BY <1>1, <1>3, HeapsOpen DEF Sound, MemT, BufferT
  <1>6. OwnRoom(m, Job.open, "table", Job.size) /\ OwnRoom(m, Job.open, "table", Job.area)
    <2>1. OwnRoom(m, Job.open, "table", Job.size)
      BY <1>1, <1>2 DEF TablePlaced
    <2>2. /\ m.buf["table"].ptr \in DOMAIN m.heap
          /\ m.heap[m.buf["table"].ptr].own = "pipeline" \/ m.buf["table"].ptr \in Job.open
          /\ m.heap[m.buf["table"].ptr].size >= Job.size
      BY <1>2, <2>1 DEF OwnRoom
    <2>3. m.heap[m.buf["table"].ptr].size \in Nat
      BY <1>5, <2>2 DEF BlockT
    <2>4. m.heap[m.buf["table"].ptr].size >= Job.area
      BY <1>2, <2>2, <2>3
    <2>5. QED
      BY <2>1, <2>2, <2>4 DEF OwnRoom
  <1>7. Job.stored # Job.size => Owns(m, "table") /\ OwnRoom(m, Job.open, "table", n) /\ n > 0
    <2>1. Job.stored # Job.size => Owns(m, "table")
      BY <1>1, <1>2 DEF TablePlaced
    <2>2. Owns(m, "table") => OwnRoom(m, Job.open, "table", n) /\ n > 0
      BY <1>1, <1>3, <1>5, OwnedRoom DEF OwnRoom, Owns
    <2>3. QED
      BY <2>1, <2>2
  <1>8. ASSUME o.mem = m PROVE InTable(m, o) <=> o.ok \in BOOLEAN
    BY <1>1, <1>6, <1>8 DEF InTable, Result, Touches, KeepsApp
  <1>9. ASSUME NEW k \in Nat \ {0}, NEW data \in TokenT, OwnRoom(m, Job.open, "table", k),
               o.mem = Put(m, "table", k, data), o.ok = TRUE
        PROVE  InTable(m, o) /\ Get(o.mem, "table") = data
    <2> HIDE DEF B
    <2>1. /\ Sound(o.mem) /\ Touches(m, o.mem, B) /\ o.mem.buf = m.buf
          /\ Holds(o.mem, Job.owners, "table", k, data)
          /\ \A a, i : OwnRoom(m, Job.open, a, i) => OwnRoom(o.mem, Job.open, a, i)
      BY <1>1, <1>2, <1>3, <1>4, <1>9, PutRoom
    <2>2. Get(o.mem, "table") = data
      BY <2>1 DEF Holds, Get, Live
    <2>3. QED
      BY <1>6, <1>9, <2>1, <2>2 DEF InTable, Result, B
  <1>10. Zeros \in TokenT
    BY DEF Zeros, Token, TokenT, Forms, NoChunk
  <1>11. CASE Coded
    <2>1. CASE m.buf["packedTable"].ptr = Null
      <3>1. Job.stored = 0 /\ Job.stored # Job.size
        BY <1>1, <1>2, <1>11, <2>1 DEF TablePlain
      <3>2. o.mem = Put(m, "table", n, Zeros) /\ o.ok = TRUE
        BY <1>7, <1>11, <2>1, <3>1 DEF PlacedTable, Good, Owns
      <3>3. InTable(m, o) /\ Get(o.mem, "table") = Zeros
        <4>1. n \in Nat \ {0} /\ OwnRoom(m, Job.open, "table", n)
          BY <1>5, <1>7, <3>1
        <4>2. QED
          BY <1>9, <1>10, <3>2, <4>1, Zenon
      <3>4. QED
        BY <3>1, <3>3 DEF Totals
    <2>2. CASE m.buf["packedTable"].ptr # Null
      <3>1. o.mem = m /\ o.ok = TRUE
        BY <1>11, <2>2 DEF PlacedTable, Good
      <3>2. ASSUME Job.stored # 0 PROVE Get(m, "table") = Totals(Job)
        <4>1. Holds(m, Job.owners, "table", Job.area, PlainCounts(Job))
          BY <1>1, <1>2, <1>11, <3>2 DEF TablePlain
        <4>2. QED
          BY <1>2, <3>2, <4>1 DEF Holds, Get, Live, Totals
      <3>3. QED
        BY <1>2, <1>8, <1>11, <2>2, <3>1, <3>2 DEF Overlooked
    <2>3. QED
      BY <2>1, <2>2
  <1>12. CASE ~Coded /\ m.buf["table"].ptr # m.buf["packedTable"].ptr
    <2>1. o \in CopiedTable
      BY <1>12 DEF PlacedTable
    <2>2. Job.stored # Job.size
      BY <1>1, <1>2, <1>12 DEF TablePlaced, Aliases
    <2>3. CASE n < Cur.table /\ n < Cur.area
      <3>1. o.mem = m /\ o.ok = FALSE
        BY <2>1, <2>3 DEF CopiedTable, Bad
      <3>2. QED
        BY <1>8, <3>1
    <2>4. CASE ~(n < Cur.table /\ n < Cur.area) /\ Cur.table > 0
      <3>1. o.mem = Put(m, "table", Cur.area, Get(m, "packedTable")) /\ o.ok = TRUE
        BY <2>1, <2>4 DEF CopiedTable, Good
      <3>2. Get(m, "packedTable") = Job.counts
        <4>1. Holds(m, Job.owners, "packedTable", Job.stored, Job.counts)
          BY <1>1, <1>12 DEF TableRead
        <4>2. QED
          BY <1>2, <2>4, <4>1 DEF Holds, Get, Live
      <3>3. InTable(m, o) /\ Get(o.mem, "table") = Job.counts
        <4>1. /\ Job.area \in Nat \ {0} /\ OwnRoom(m, Job.open, "table", Job.area)
              /\ o.mem = Put(m, "table", Job.area, Job.counts) /\ Job.counts \in TokenT
          BY <1>2, <1>6, <3>1, <3>2
        <4>2. QED
          BY <1>9, <3>1, <4>1, Zenon
      <3>4. Totals(Job) = Job.counts
        BY <1>2, <1>12, <2>4 DEF Totals, PlainCounts
      <3>5. QED
        BY <3>3, <3>4
    <2>5. CASE ~(n < Cur.table /\ n < Cur.area) /\ ~(Cur.table > 0)
      <3>1. o.mem = Put(m, "table", n, Zeros) /\ o.ok = TRUE
        BY <2>1, <2>5 DEF CopiedTable, Good
      <3>2. InTable(m, o) /\ Get(o.mem, "table") = Zeros
        <4>1. n \in Nat \ {0} /\ OwnRoom(m, Job.open, "table", n)
          BY <1>5, <1>7, <2>2
        <4>2. QED
          BY <1>9, <1>10, <3>1, <4>1, Zenon
      <3>3. Totals(Job) = Zeros
        BY <1>2, <2>5 DEF Totals
      <3>4. QED
        BY <3>2, <3>3
    <2>6. QED
      BY <2>3, <2>4, <2>5
  <1>13. CASE ~Coded /\ m.buf["table"].ptr = m.buf["packedTable"].ptr
    <2>1. o.mem = m /\ o.ok = TRUE
      BY <1>13 DEF PlacedTable, Good
    <2>2. ~Owns(m, "table")
      <3>1. Owns(m, "table") => m.buf["table"].ptr[1] = "table"
        BY <1>1, <1>3, OwnedRoom
      <3>2. QED
        BY <1>4, <1>13, <3>1
    <2>3. Job.stored = Job.size
      BY <1>7, <2>2
    <2>4. Holds(m, Job.owners, "packedTable", Job.stored, Job.counts)
      BY <1>1, <1>13 DEF TableRead
    <2>5. Get(m, "table") = Job.counts
      BY <1>2, <1>13, <2>3, <2>4 DEF Holds, Get, Live
    <2>6. Totals(Job) = Job.counts
      BY <1>2, <1>13, <2>3 DEF Totals, PlainCounts
    <2>7. QED
      BY <1>8, <2>1, <2>5, <2>6
  <1>14. QED
    BY <1>11, <1>12, <1>13

LEMMA SamplesStage ==
    ASSUME IInv, d.at = "samples",
           NEW o \in IF Deep THEN Then(PlacedTable, unpack_sample_table) ELSE {Good(m)}
    PROVE  /\ Result(m, o, {"table", "packedTable"}) /\ o.mem.buf = m.buf
           /\ o.ok => CountsMade(o.mem, Job)
  <1>1. Sound(m)
    BY DEF IInv
  <1>2. CASE ~Deep
    <2>1. o.mem = m /\ o.ok = TRUE
      BY <1>2 DEF Good
    <2>2. Job.size = 0 /\ ~(Job.size > 0)
      BY <1>2, JobFacts
    <2>3. CountsMade(m, Job)
      BY <2>2 DEF CountsMade, Holds
    <2>4. QED
      BY <1>1, <2>1, <2>3 DEF Result, Touches, KeepsApp
  <1>3. CASE Deep
    <2>1. PICK t \in PlacedTable : IF t.ok THEN o \in unpack_sample_table(t.mem) ELSE o = t
      BY <1>3 DEF Then
    <2>2. /\ InTable(m, t)
          /\ t.ok /\ ~Overlooked(m, Job) => Get(t.mem, "table") = Totals(Job)
      BY <1>3, TableThere
    <2>3. CASE ~t.ok
      BY <2>1, <2>2, <2>3 DEF InTable
    <2>4. CASE t.ok
      <3> DEFINE x == Get(t.mem, "table")
                 counts == Individual(x)
                 B == {"table", "packedTable"}
      <3>1. \/ o.mem = Put(t.mem, "table", TableSize, Junk) /\ o.ok = FALSE
            \/ o.mem = Put(t.mem, "table", TableSize, counts) /\ o.ok = TRUE
        <4>1. o \in unpack_sample_table(t.mem)
          BY <2>1, <2>4, Zenon
        <4>2. \/ o = Bad(Put(t.mem, "table", TableSize, Junk))
              \/ o = Good(Put(t.mem, "table", TableSize, counts))
          BY <4>1, Zenon DEF unpack_sample_table
        <4>3. QED
          BY <4>2 DEF Good, Bad
      <3>2. Sound(t.mem) /\ "table" \in Buffers /\ "packedTable" \in Buffers
        BY <2>2 DEF InTable, Result, Buffers
      <3>3. counts \in TokenT
        <4>1. x \in TokenT
          BY <3>2, GetToken
        <4> HIDE DEF x
        <4>2. QED
          BY <4>1, JunkToken DEF Individual, TokenT, Forms
      <3>4. TableSize \in Nat /\ Job.size = TableSize /\ Job.size > 0 /\ Lends(Job.owners)
            /\ (Job.size = Job.area <=> ~d.individual)
        <4>1. Cur.area \in Nat /\ Job.area = Cur.area /\ Job.size = TableSize
              /\ Lends(Job.owners) /\ Cur.area > 0 /\ d.individual \in BOOLEAN
          BY <1>3, CurFacts, JobFacts DEF IInv, DecodeT, PipelineT
        <4>2. QED
          BY <4>1 DEF TableSize
      <3>5. t.mem.buf["table"].ptr[1] \in B \cup {"none"}
        BY <3>2 DEF Sound, Tagged, Original
      <3>6. ASSUME NEW data \in TokenT, o.mem = Put(t.mem, "table", TableSize, data),
                   o.ok \in BOOLEAN
            PROVE  /\ Result(m, o, B) /\ o.mem.buf = m.buf
                   /\ Holds(o.mem, Job.owners, "table", TableSize, data)
        <4> HIDE DEF B
        <4>1. /\ Sound(o.mem) /\ Touches(t.mem, o.mem, B) /\ o.mem.buf = t.mem.buf
              /\ Holds(o.mem, Job.owners, "table", TableSize, data)
          BY <2>2, <3>2, <3>4, <3>5, <3>6, PutRoom DEF InTable
        <4>2. Result(t.mem, o, B) /\ Touches(m, t.mem, B) /\ t.mem.buf = m.buf
          BY <2>2, <3>6, <4>1 DEF InTable, Result, B
        <4>3. QED
          BY <4>1, <4>2, ResultAfter
      <3>7. CASE o.mem = Put(t.mem, "table", TableSize, Junk) /\ o.ok = FALSE
        BY <3>6, <3>7, JunkToken
      <3>8. CASE o.mem = Put(t.mem, "table", TableSize, counts) /\ o.ok = TRUE
        <4>1. /\ Result(m, o, B) /\ o.mem.buf = m.buf
              /\ Holds(o.mem, Job.owners, "table", TableSize, counts)
          BY <3>3, <3>6, <3>8
        <4>2. ASSUME ~Overlooked(o.mem, Job)
              PROVE  Holds(o.mem, Job.owners, "table", Job.size, CountsOf(Job))
          <5>1. x = Totals(Job)
            BY <2>2, <2>4, <4>1, <4>2 DEF Overlooked
          <5>2. x \in TokenT /\ x.form = "plain"
            BY <1>3, <5>1, TotalsPlain
          <5>3. CountsOf(Job) = [x EXCEPT !.form = IF d.individual THEN "individual" ELSE "plain"]
            BY <3>4, <5>1 DEF CountsOf, Totals
          <5>4. counts = CountsOf(Job)
            <6> HIDE DEF x
            <6>1. QED
              BY <5>2, <5>3 DEF Individual, TokenT
          <5>5. QED
            BY <3>4, <4>1, <5>4
        <4>3. QED
          BY <3>8, <4>1, <4>2 DEF CountsMade
      <3>9. QED
        BY <3>1, <3>7, <3>8
    <2>5. QED
      BY <2>3, <2>4
  <1>4. QED
    BY <1>2, <1>3

-----------------------------------------------------------------------------
(* The steps of the decoder.                                                *)

\* The job stays what it was.
LEMMA SameJob ==
    ASSUME UNCHANGED partVars, d'.chunk = d.chunk, d'.individual = d.individual,
           d'.countsOnly = d.countsOnly, d'.direct = d.direct, d'.foreign = d.foreign
    PROVE  Job' = Job /\ Cur' = Cur /\ Deep' = Deep /\ Coded' = Coded
  BY DEF Job, Deep, Coded, Cur, TableSize, partVars

\* A step of the decoder.
LEMMA DecoderStep ==
    ASSUME IInv, Complete, e.at = "none", UNCHANGED <<partVars, e>>, Sound(m'), DecodeT',
           Decoding', d'.at = "none" => ~d'.foreign /\ \A b \in Buffers : m'.buf[b] = Nobody
    PROVE  IInv'
  <1>1. Complete' /\ PartOK' /\ FileOK' /\ EncodeT'
    BY DEF IInv, Complete, PartOK, FileOK, EncodeT, partVars, Coded
  <1>2. Phases' /\ Encoding'
    BY <1>1 DEF IInv, Phases, Encoding
  <1>3. QED
    BY <1>1, <1>2 DEF IInv

\* A stage of the decoder that fails.
LEMMA StageFails ==
    ASSUME IInv, d.at # "none", UNCHANGED partVars, m'.buf["compressed"] = m.buf["compressed"],
           d.foreign => Lent(m', Cur, Job.open),
           d' = [d EXCEPT !.at = "ready", !.rv = "error", !.fails = @ + 1], UNCHANGED out
    PROVE  DecodeT' /\ Decoding' /\ d'.at # "none"
  <1>1. DecodeT' /\ d'.at = "ready" /\ d'.rv = "error"
    <2>1. d.fails + 1 \in Nat
      BY DEF IInv, DecodeT, PipelineT
    <2>2. QED
      BY <2>1 DEF IInv, DecodeT, PipelineT
  <1>2. /\ d'.chunk = d.chunk /\ d'.individual = d.individual /\ d'.countsOnly = d.countsOnly
        /\ d'.direct = d.direct /\ d'.foreign = d.foreign
    BY DEF IInv, DecodeT, PipelineT
  <1>3. Job' = Job /\ Cur' = Cur /\ Deep' = Deep /\ Coded' = Coded /\ part' = part
    BY <1>2, SameJob DEF partVars
  <1>4. Decoding'
    BY <1>1, <1>2, <1>3 DEF IInv, Decoding
  <1>5. QED
    BY <1>1, <1>4

\* What the application has lent is not touched.
LEMMA LentStays ==
    ASSUME NEW mem, NEW nm, NEW s, KeepsApp(mem, nm), Lent(mem, s, Job.open),
           \A b \in {"packed", "packedTable"} : nm.buf[b] = mem.buf[b]
    PROVE  Lent(nm, s, Job.open)
  <1> DEFINE p == mem.buf["packedTable"].ptr
             q == mem.buf["packed"].ptr
  <1>1. /\ p \in DOMAIN mem.heap /\ q \in DOMAIN mem.heap
        /\ mem.buf["packedTable"].size = 0 /\ mem.buf["packed"].size = 0
        /\ p = Address("packedTable", {}) /\ q = Address("packed", {})
        /\ mem.heap[q] = Block("application", s.packed, s.pixels)
        /\ mem.heap[p].own = "application" /\ mem.heap[p].size = s.table
        /\ p \notin Job.open => mem.heap[p] = Block("application", s.table, s.counts)
    BY DEF Lent
  <1>2. mem.heap[q].own = "application"
    BY <1>1 DEF Block
  <1>3. p # q
    BY <1>1, AddressNew, FS_EmptySet DEF Buffers
  <1>4. nm.buf["packedTable"] = mem.buf["packedTable"] /\ nm.buf["packed"] = mem.buf["packed"]
    OBVIOUS
  <1>5. /\ p \in DOMAIN nm.heap /\ q \in DOMAIN nm.heap
        /\ nm.heap[p].own = "application" /\ nm.heap[p].size = s.table
        /\ p \notin Job.open => nm.heap[p] = mem.heap[p]
    BY <1>1, <1>2 DEF KeepsApp
  <1>6. q \notin Job.open
    BY <1>1, <1>3 DEF Job
  <1>7. nm.heap[q] = mem.heap[q]
    BY <1>1, <1>2, <1>6 DEF KeepsApp
  <1>8. QED
    BY <1>1, <1>4, <1>5, <1>7 DEF Lent

\* A stage that goes on to the next.
Goes(at) == /\ d' = [d EXCEPT !.at = at] /\ DecodeT' /\ d'.at = at
            /\ d'.chunk = d.chunk /\ d'.individual = d.individual /\ d'.countsOnly = d.countsOnly
            /\ d'.direct = d.direct /\ d'.foreign = d.foreign
            /\ Job' = Job /\ Cur' = Cur /\ Deep' = Deep /\ Coded' = Coded /\ part' = part

LEMMA StageGoes ==
    ASSUME IInv, UNCHANGED partVars, out' \in [counts : TokenT, pixels : TokenT],
           NEW at \in {"pointers", "decompress", "samples", "unpack"},
           d' = [d EXCEPT !.at = at]
    PROVE  Goes(at)
  <1>1. DecodeT' /\ d'.at = at
    BY DEF IInv, DecodeT, PipelineT
  <1>2. /\ d'.chunk = d.chunk /\ d'.individual = d.individual /\ d'.countsOnly = d.countsOnly
        /\ d'.direct = d.direct /\ d'.foreign = d.foreign
    BY DEF IInv, DecodeT, PipelineT
  <1>3. Job' = Job /\ Cur' = Cur /\ Deep' = Deep /\ Coded' = Coded /\ part' = part
    BY <1>2, SameJob DEF partVars
  <1>4. QED
    BY <1>1, <1>2, <1>3 DEF Goes

LEMMA ReadStep ==
    ASSUME IInv, Decode, Read
    PROVE  IInv' /\ KeepsApp(m, m')
  <1> DEFINE outcomes == IF d.foreign THEN {Good(m)}
                         ELSE IF d.direct THEN {Bad(m), Good(m)} ELSE default_read_chunk
             B == {"packed", "packedTable", "unpacked"}
  <1>1. PICK o \in outcomes :
           /\ m' = o.mem
           /\ d' = IF o.ok THEN [d EXCEPT !.at = "pointers"]
                   ELSE [d EXCEPT !.at = "ready", !.rv = "error", !.fails = @ + 1]
    BY Zenon DEF Read, Stage
  <1>2. /\ d.at = "read" /\ UNCHANGED partVars /\ Complete /\ e.at = "none" /\ UNCHANGED e
        /\ Sound(m) /\ DecodeT /\ Decoding
    BY DEF Read, Stage, Decode, IInv
  <1>3. /\ Result(m, o, B) /\ (d.foreign => o = Good(m))
        /\ o.ok => TableRead(o.mem, Job) /\ PixelsRead(o.mem, Job)
    <2>1. CASE d.foreign
      <3>1. o = Good(m) /\ o.mem = m /\ o.ok = TRUE
        BY <1>1, <2>1 DEF Good
      <3>2. Lent(m, Cur, {}) /\ Deep
        BY <1>2, <2>1 DEF Decoding
      <3>3. /\ Job.stored = Cur.table /\ Job.packed \in {0, Cur.packed}
            /\ Job.counts = Cur.counts /\ Job.pixels = Cur.pixels
            /\ Cur.table \in Nat /\ Cur.packed \in Nat
        BY <1>2, <3>2, JobFacts, CurFacts
      <3>4. "application" \in Job.owners
        BY <2>1 DEF Job
      <3>5. TableRead(m, Job)
        BY <3>2, <3>3, <3>4 DEF TableRead, Holds, Lent, Block
      <3>6. PixelsRead(m, Job)
        BY <3>2, <3>3, <3>4 DEF PixelsRead, Holds, Lent, Block
      <3>7. Result(m, o, B)
        BY <1>2, <3>1 DEF Result, Touches, KeepsApp
      <3>8. QED
        BY <3>1, <3>5, <3>6, <3>7
    <2>2. CASE d.direct /\ ~d.foreign
      <3>1. o.mem = m /\ o.ok \in BOOLEAN
        <4>1. \/ o.mem = m /\ o.ok = TRUE
              \/ o.mem = m /\ o.ok = FALSE
          BY <1>1, <2>2 DEF Good, Bad
        <4>2. QED
          BY <4>1, Zenon
      <3>2. Job.stored = 0 /\ Job.packed = 0
        BY <1>2, <2>2 DEF Job, Decoding
      <3>3. Result(m, o, B)
        BY <1>2, <3>1 DEF Result, Touches, KeepsApp
      <3>4. TableRead(m, Job) /\ PixelsRead(m, Job)
        BY <3>2 DEF TableRead, PixelsRead, Holds
      <3>5. QED
        BY <2>2, <3>1, <3>3, <3>4
    <2>3. CASE ~d.direct /\ ~d.foreign
      BY <1>1, <1>2, <2>3, ReadStage
    <2>4. QED
      BY <2>1, <2>2, <2>3
  <1>4. m'.buf["compressed"] = m.buf["compressed"] /\ KeepsApp(m, m') /\ Sound(m')
    <2>1. Sound(o.mem) /\ Touches(m, o.mem, B)
      BY <1>3, Zenon DEF Result
    <2>2. KeepsApp(m, o.mem)
      BY <2>1, TouchesKeepsApp
    <2>3. o.mem.buf["compressed"] = m.buf["compressed"]
      BY <2>1 DEF Touches, KeepsApp, Buffers
    <2>4. QED
      BY <1>1, <2>1, <2>2, <2>3
  <1>5. d.foreign => Lent(m', Cur, Job.open)
    BY <1>1, <1>2, <1>3 DEF Good, Decoding
  <1>6. CASE ~o.ok
    <2>1. d' = [d EXCEPT !.at = "ready", !.rv = "error", !.fails = @ + 1]
      BY <1>1, <1>6
    <2>2. out' = out
      <3>1. d'.at = "ready"
        BY <1>2, <2>1 DEF DecodeT, PipelineT
      <3>2. QED
        BY <3>1 DEF Read
    <2>3. DecodeT' /\ Decoding' /\ d'.at # "none"
      BY <1>2, <1>4, <1>5, <2>1, <2>2, StageFails
    <2>4. QED
      BY <1>2, <1>4, <2>3, DecoderStep
  <1>7. CASE o.ok
    <2>1. d' = [d EXCEPT !.at = "pointers"]
      BY <1>1, <1>7
    <2>2. d'.at = "pointers"
      BY <1>2, <2>1 DEF DecodeT, PipelineT
    <2>3. out' = IF d.direct THEN [out EXCEPT !.pixels = Cur.pixels] ELSE out
      BY <2>2 DEF Read
    <2>4. out' \in [counts : TokenT, pixels : TokenT] /\ (d.direct => out'.pixels = Cur.pixels)
      BY <1>2, <2>3, CurFacts DEF DecodeT, PipelineT
    <2>5. Goes("pointers")
      BY <1>2, <2>1, <2>4, StageGoes
    <2>6. Decoding'
      BY <1>1, <1>2, <1>3, <1>4, <1>5, <1>7, <2>4, <2>5 DEF Decoding, Goes
    <2>7. QED
      BY <1>2, <1>4, <2>2, <2>5, <2>6, DecoderStep DEF Goes
  <1>8. QED
    BY <1>6, <1>7

\* The stages after the first start from what the one before has left.
LEMMA PointersStep ==
    ASSUME IInv, Decode, UpdatePointers
    PROVE  IInv' /\ KeepsApp(m, m')
  <1>1. PICK o \in update_pack_unpack_ptrs :
           /\ m' = o.mem
           /\ d' = IF o.ok THEN [d EXCEPT !.at = "decompress"]
                   ELSE [d EXCEPT !.at = "ready", !.rv = "error", !.fails = @ + 1]
    BY Zenon DEF UpdatePointers, Stage
  <1>2. /\ d.at = "pointers" /\ UNCHANGED partVars /\ Complete /\ e.at = "none" /\ UNCHANGED e
        /\ Sound(m) /\ DecodeT /\ Decoding /\ UNCHANGED out
    BY DEF UpdatePointers, Stage, Decode, IInv
  <1>3. /\ Result(m, o, {"table", "unpacked"})
        /\ o.ok => /\ TableRead(o.mem, Job) /\ PixelsRead(o.mem, Job)
                   /\ TablePlaced(o.mem, Job) /\ PixelsPlaced(o.mem, Job)
    BY <1>1, <1>2, PointersStage
  <1>4. /\ m'.buf["compressed"] = m.buf["compressed"] /\ KeepsApp(m, m') /\ Sound(m')
        /\ d.foreign => Lent(m', Cur, Job.open)
    <2>1. Sound(o.mem) /\ Touches(m, o.mem, {"table", "unpacked"})
      BY <1>3, Zenon DEF Result
    <2>2. KeepsApp(m, o.mem)
      BY <2>1, TouchesKeepsApp
    <2>3. \A b \in {"compressed", "packed", "packedTable"} : o.mem.buf[b] = m.buf[b]
      BY <2>1 DEF Touches, KeepsApp, Buffers
    <2>4. d.foreign => Lent(o.mem, Cur, Job.open)
      BY <1>2, <2>2, <2>3, LentStays DEF Decoding
    <2>5. QED
      BY <1>1, <2>1, <2>2, <2>3, <2>4
  <1>5. CASE ~o.ok
    <2>1. d' = [d EXCEPT !.at = "ready", !.rv = "error", !.fails = @ + 1]
      BY <1>1, <1>5
    <2>2. DecodeT' /\ Decoding' /\ d'.at # "none"
      BY <1>2, <1>4, <2>1, StageFails
    <2>3. QED
      BY <1>2, <1>4, <2>2, DecoderStep
  <1>6. CASE o.ok
    <2>1. d' = [d EXCEPT !.at = "decompress"]
      BY <1>1, <1>6
    <2>2. Goes("decompress")
      BY <1>2, <2>1, StageGoes DEF DecodeT, PipelineT
    <2>3. Decoding'
      BY <1>1, <1>2, <1>3, <1>4, <1>6, <2>2 DEF Decoding, Goes
    <2>4. QED
      BY <1>2, <1>4, <2>2, <2>3, DecoderStep DEF Goes
  <1>7. QED
    BY <1>5, <1>6

LEMMA DecompressStep ==
    ASSUME IInv, Decode, Decompress
    PROVE  IInv' /\ KeepsApp(m, m')
  <1>1. PICK o \in IF Coded THEN exr_uncompress_chunk ELSE {Good(m)} :
           /\ m' = o.mem
           /\ d' = IF o.ok THEN [d EXCEPT !.at = "samples"]
                   ELSE [d EXCEPT !.at = "ready", !.rv = "error", !.fails = @ + 1]
    BY Zenon DEF Decompress, Stage
  <1>2. /\ d.at = "decompress" /\ UNCHANGED partVars /\ Complete /\ e.at = "none" /\ UNCHANGED e
        /\ Sound(m) /\ DecodeT /\ Decoding /\ UNCHANGED out
    BY DEF Decompress, Stage, Decode, IInv
  <1>3. Opened(m, o)
    BY <1>1, <1>2, DecompressStage
  <1>4. /\ m'.buf["compressed"] = m.buf["compressed"] /\ KeepsApp(m, m') /\ Sound(m')
        /\ d.foreign => Lent(m', Cur, Job.open)
    <2>1. /\ Sound(o.mem)
          /\ Touches(m, o.mem, {"scratch", "packedTable", "table", "packed", "unpacked"})
      BY <1>3, Zenon DEF Opened, Result
    <2>2. KeepsApp(m, o.mem)
      BY <2>1, TouchesKeepsApp
    <2>3. \A b \in {"compressed", "packed", "packedTable"} : o.mem.buf[b] = m.buf[b]
      BY <1>3 DEF Opened, Buffers
    <2>4. d.foreign => Lent(o.mem, Cur, Job.open)
      BY <1>2, <2>2, <2>3, LentStays DEF Decoding
    <2>5. QED
      BY <1>1, <2>1, <2>2, <2>3, <2>4
  <1>5. CASE ~o.ok
    <2>1. d' = [d EXCEPT !.at = "ready", !.rv = "error", !.fails = @ + 1]
      BY <1>1, <1>5
    <2>2. DecodeT' /\ Decoding' /\ d'.at # "none"
      BY <1>2, <1>4, <2>1, StageFails
    <2>3. QED
      BY <1>2, <1>4, <2>2, DecoderStep
  <1>6. CASE o.ok
    <2>1. d' = [d EXCEPT !.at = "samples"]
      BY <1>1, <1>6
    <2>2. Goes("samples")
      BY <1>2, <2>1, StageGoes DEF DecodeT, PipelineT
    <2>3. Decoding'
      BY <1>1, <1>2, <1>3, <1>4, <1>6, <2>2 DEF Decoding, Goes, Opened
    <2>4. QED
      BY <1>2, <1>4, <2>2, <2>3, DecoderStep DEF Goes
  <1>7. QED
    BY <1>5, <1>6

LEMMA SamplesStep ==
    ASSUME IInv, Decode, Samples
    PROVE  IInv' /\ KeepsApp(m, m')
  <1>1. PICK o \in IF Deep THEN Then(PlacedTable, unpack_sample_table) ELSE {Good(m)} :
           /\ m' = o.mem
           /\ d' = IF o.ok THEN [d EXCEPT !.at = "unpack"]
                   ELSE [d EXCEPT !.at = "ready", !.rv = "error", !.fails = @ + 1]
    BY Zenon DEF Samples, Stage
  <1>2. /\ d.at = "samples" /\ UNCHANGED partVars /\ Complete /\ e.at = "none" /\ UNCHANGED e
        /\ Sound(m) /\ DecodeT /\ Decoding /\ UNCHANGED out
    BY DEF Samples, Stage, Decode, IInv
  <1>3. /\ Result(m, o, {"table", "packedTable"}) /\ o.mem.buf = m.buf
        /\ o.ok => CountsMade(o.mem, Job)
    BY <1>1, <1>2, SamplesStage
  <1>4. /\ m'.buf["compressed"] = m.buf["compressed"] /\ KeepsApp(m, m') /\ Sound(m')
        /\ d.foreign => Lent(m', Cur, Job.open)
        /\ PixelsPlain(m', Job)
    <2>1. Sound(o.mem) /\ Touches(m, o.mem, {"table", "packedTable"})
      BY <1>3, Zenon DEF Result
    <2>2. KeepsApp(m, o.mem)
      BY <2>1, TouchesKeepsApp
    <2>3. d.foreign => Lent(o.mem, Cur, Job.open)
      BY <1>2, <1>3, <2>2, LentStays DEF Decoding
    <2>4. PixelsPlain(o.mem, Job)
      BY <1>2, <2>1, PixelsKept DEF Decoding
    <2>5. QED
      BY <1>1, <1>3, <2>1, <2>2, <2>3, <2>4
  <1>5. CASE ~o.ok
    <2>1. d' = [d EXCEPT !.at = "ready", !.rv = "error", !.fails = @ + 1]
      BY <1>1, <1>5
    <2>2. DecodeT' /\ Decoding' /\ d'.at # "none"
      BY <1>2, <1>4, <2>1, StageFails
    <2>3. QED
      BY <1>2, <1>4, <2>2, DecoderStep
  <1>6. CASE o.ok
    <2>1. d' = [d EXCEPT !.at = "unpack"]
      BY <1>1, <1>6
    <2>2. Goes("unpack")
      BY <1>2, <2>1, StageGoes DEF DecodeT, PipelineT
    <2>3. Decoding'
      BY <1>1, <1>2, <1>3, <1>4, <1>6, <2>2 DEF Decoding, Goes
    <2>4. QED
      BY <1>2, <1>4, <2>2, <2>3, DecoderStep DEF Goes
  <1>7. QED
    BY <1>5, <1>6

\* The user gets the counts and the pixels of the chunk.
LEMMA DeliveredIs ==
    ASSUME IInv, d.at # "none", CountsMade(m, Job), PixelsPlain(m, Job), ~d.direct
    PROVE  /\ Delivered \in [counts : TokenT, pixels : TokenT]
           /\ Deep /\ ~Overlooked(m, Job) => Delivered.counts = CountsOf(Job)
           /\ Job.unpacked > 0 => Delivered.pixels = PlainPixels(Job)
  <1>1. Sound(m) /\ "table" \in Buffers /\ "unpacked" \in Buffers
    BY DEF IInv, Buffers
  <1>2. Get(m, "table") \in TokenT /\ Get(m, "unpacked") \in TokenT
    BY <1>1, GetToken
  <1>3. /\ Delivered.counts = IF Deep THEN Get(m, "table") ELSE Junk
        /\ Delivered.pixels = IF d.countsOnly \/ Cur.unpacked = 0 THEN Junk
                              ELSE Get(m, "unpacked")
    BY DEF Delivered
  <1>4. Delivered \in [counts : TokenT, pixels : TokenT]
    BY <1>2, JunkToken DEF Delivered
  <1>5. ASSUME Deep, ~Overlooked(m, Job) PROVE Get(m, "table") = CountsOf(Job)
    <2>1. Job.size > 0
      <3>1. Job.size \in Nat /\ Job.area \in Nat /\ Job.area > 0 /\ Job.size >= Job.area
        BY <1>5, JobFacts
      <3>2. QED
        BY <3>1
    <2>2. Holds(m, Job.owners, "table", Job.size, CountsOf(Job))
      BY <1>5 DEF CountsMade
    <2>3. QED
      BY <2>1, <2>2 DEF Holds, Get, Live
  <1>6. ASSUME Job.unpacked > 0
        PROVE  ~d.countsOnly /\ Cur.unpacked # 0 /\ Get(m, "unpacked") = PlainPixels(Job)
    <2>1. ~d.countsOnly /\ Job.unpacked = Cur.unpacked /\ Cur.unpacked # 0
      BY <1>6, JobFacts
    <2>2. QED
      BY <1>6, <2>1 DEF PixelsPlain, Holds, Get, Live
  <1>7. QED
    BY <1>3, <1>4, <1>5, <1>6

LEMMA UnpackSucceeds ==
    ASSUME IInv, Decode, d.at = "unpack", UNCHANGED <<partVars, m>>,
           d' = [d EXCEPT !.at = "ready", !.rv = "ok"],
           out' = IF d.direct THEN out ELSE Delivered
    PROVE  IInv' /\ KeepsApp(m, m')
  <1>1. /\ d.at = "unpack" /\ UNCHANGED <<partVars, m>> /\ Complete /\ e.at = "none"
        /\ UNCHANGED e /\ Sound(m) /\ DecodeT /\ Decoding
    BY DEF Decode, IInv
  <1>2. /\ d'.at = "ready" /\ d'.rv = "ok"
        /\ d'.chunk = d.chunk /\ d'.individual = d.individual /\ d'.countsOnly = d.countsOnly
        /\ d'.direct = d.direct /\ d'.foreign = d.foreign
    BY <1>1 DEF DecodeT, PipelineT
  <1>3. Job' = Job /\ Cur' = Cur /\ Deep' = Deep /\ Coded' = Coded /\ part' = part
    BY <1>1, <1>2, SameJob DEF partVars
  <1>4. CountsMade(m, Job) /\ PixelsPlain(m, Job)
    BY <1>1 DEF Decoding
  <1>5. /\ out' \in [counts : TokenT, pixels : TokenT]
        /\ Deep /\ ~Overlooked(m, Job) => out'.counts = CountsOf(Job)
        /\ Job.unpacked > 0 => out'.pixels = PlainPixels(Job)
        /\ d.direct => out'.pixels = Cur.pixels
    <2>1. CASE d.direct
      <3>1. ~Deep /\ Job.unpacked = 0 /\ out.pixels = Cur.pixels
        BY <1>1, <2>1 DEF Decoding, Job
      <3>2. QED
        BY <1>1, <2>1, <3>1 DEF DecodeT, PipelineT
    <2>2. CASE ~d.direct
      BY <1>1, <1>4, <2>2, DeliveredIs
    <2>3. QED
      BY <2>1, <2>2
  <1>6. DecodeT'
    BY <1>1, <1>5 DEF DecodeT, PipelineT
  <1>7. Decoding'
    BY <1>1, <1>2, <1>3, <1>4, <1>5 DEF Decoding
  <1>8. KeepsApp(m, m')
    BY <1>1 DEF KeepsApp
  <1>9. QED
    BY <1>1, <1>2, <1>6, <1>7, <1>8, DecoderStep

LEMMA UnpackStep ==
    ASSUME IInv, Decode, Unpack
    PROVE  IInv' /\ KeepsApp(m, m')
  <1>1. /\ d.at = "unpack" /\ UNCHANGED <<partVars, m>> /\ Complete /\ e.at = "none"
        /\ UNCHANGED e /\ Sound(m) /\ Decoding
    BY DEF Unpack, Decode, IInv
  <1>2. CASE d' = [d EXCEPT !.at = "ready", !.rv = "ok"]
             /\ out' = IF d.direct THEN out ELSE Delivered
    BY <1>1, <1>2, UnpackSucceeds
  <1>3. CASE d' = [d EXCEPT !.at = "ready", !.rv = "error", !.fails = @ + 1] /\ UNCHANGED out
    <2>1. d.foreign => Lent(m', Cur, Job.open)
      BY <1>1 DEF Decoding
    <2>2. DecodeT' /\ Decoding' /\ d'.at # "none"
      BY <1>1, <1>3, <2>1, StageFails
    <2>3. KeepsApp(m, m')
      BY <1>1 DEF KeepsApp
    <2>4. QED
      BY <1>1, <2>2, <2>3, DecoderStep
  <1>4. QED
    BY <1>2, <1>3, Zenon DEF Unpack

LEMMA RunUnpackStep ==
    ASSUME IInv, Decode, run_unpack
    PROVE  IInv' /\ KeepsApp(m, m')
  <1>1. /\ d.at = "ready" /\ d.rv = "ok" /\ UNCHANGED <<partVars, m, d>> /\ Complete
        /\ e.at = "none" /\ UNCHANGED e /\ Sound(m) /\ DecodeT /\ Decoding /\ ~d.direct
        /\ out' = Delivered
    BY DEF run_unpack, Decode, IInv
  <1>2. Job' = Job /\ Cur' = Cur /\ Deep' = Deep /\ Coded' = Coded /\ part' = part
    BY <1>1, SameJob DEF partVars
  <1>3. CountsMade(m, Job) /\ PixelsPlain(m, Job)
    BY <1>1 DEF Decoding
  <1>4. /\ out' \in [counts : TokenT, pixels : TokenT]
        /\ Deep /\ ~Overlooked(m, Job) => out'.counts = CountsOf(Job)
        /\ Job.unpacked > 0 => out'.pixels = PlainPixels(Job)
    BY <1>1, <1>3, DeliveredIs
  <1>5. DecodeT'
    BY <1>1, <1>4 DEF DecodeT, PipelineT
  <1>6. Decoding'
    BY <1>1, <1>2, <1>3, <1>4 DEF Decoding
  <1>7. KeepsApp(m, m')
    BY <1>1 DEF KeepsApp
  <1>8. QED
    BY <1>1, <1>5, <1>6, <1>7, DecoderStep

LEMMA NothingT == Nothing \in [counts : TokenT, pixels : TokenT]
  BY JunkToken DEF Nothing

LEMMA InitializeStep ==
    ASSUME IInv, Decode, NEW c \in Chunks, NEW individual \in BOOLEAN, NEW countsOnly \in BOOLEAN,
           NEW direct \in BOOLEAN, exr_decoding_initialize(c, individual, countsOnly, direct)
    PROVE  IInv' /\ KeepsApp(m, m')
  <1>1. /\ d.at = "none" /\ UNCHANGED <<partVars, m, out>> /\ Complete /\ e.at = "none"
        /\ UNCHANGED e /\ Sound(m) /\ DecodeT /\ Phases
        /\ individual \/ countsOnly => Deep
        /\ direct => ~Deep /\ ~Coded
        /\ d' = [Unused EXCEPT !.at = "ready", !.chunk = c, !.individual = individual,
                               !.countsOnly = countsOnly, !.direct = direct,
                               !.shared = d.shared]
    BY DEF exr_decoding_initialize, Decode, IInv
  <1>2. /\ d'.at = "ready" /\ d'.chunk = c /\ d'.individual = individual
        /\ d'.countsOnly = countsOnly /\ d'.direct = direct /\ d'.foreign = FALSE
        /\ d'.rv = "none" /\ DecodeT'
    BY <1>1, ZenonT(60) DEF Unused, DecodeT, PipelineT
  <1>3. Deep' = Deep /\ Coded' = Coded
    BY <1>1 DEF Deep, Coded, partVars
  <1>4. m.buf["compressed"] = Nobody
    BY <1>1 DEF Phases, Buffers
  <1>5. Decoding'
    BY <1>1, <1>2, <1>3, <1>4 DEF Decoding
  <1>6. KeepsApp(m, m')
    BY <1>1 DEF KeepsApp
  <1>7. QED
    BY <1>1, <1>2, <1>5, <1>6, DecoderStep

LEMMA UpdateStep ==
    ASSUME IInv, Decode, NEW c \in Chunks, NEW countsOnly \in BOOLEAN,
           exr_decoding_update(c, countsOnly)
    PROVE  IInv' /\ KeepsApp(m, m')
  <1>1. /\ d.at = "ready" /\ UNCHANGED <<partVars, m>> /\ Complete /\ e.at = "none"
        /\ UNCHANGED e /\ Sound(m) /\ DecodeT /\ Decoding /\ ~d.foreign
        /\ countsOnly => Deep
        /\ d' = [d EXCEPT !.chunk = c, !.countsOnly = countsOnly, !.rv = "none"]
        /\ out' = Nothing
    BY DEF exr_decoding_update, Decode, IInv
  <1>2. /\ d'.at = "ready" /\ d'.chunk = c /\ d'.individual = d.individual
        /\ d'.countsOnly = countsOnly /\ d'.direct = d.direct /\ d'.foreign = FALSE
        /\ d'.rv = "none" /\ DecodeT'
    BY <1>1, NothingT DEF DecodeT, PipelineT
  <1>3. Deep' = Deep /\ Coded' = Coded
    BY <1>1 DEF Deep, Coded, partVars
  <1>4. Decoding'
    BY <1>1, <1>2, <1>3 DEF Decoding
  <1>5. KeepsApp(m, m')
    BY <1>1 DEF KeepsApp
  <1>6. QED
    BY <1>1, <1>2, <1>4, <1>5, DecoderStep

LEMMA RunStep ==
    ASSUME IInv, Decode, exr_decoding_run
    PROVE  IInv' /\ KeepsApp(m, m')
  <1>1. /\ d.at = "ready" /\ UNCHANGED <<partVars, m>> /\ Complete /\ e.at = "none"
        /\ UNCHANGED e /\ Sound(m) /\ DecodeT /\ Decoding
        /\ d.foreign => d.rv = "none"
        /\ d' = [d EXCEPT !.at = "read"] /\ out' = Nothing
    BY DEF exr_decoding_run, Decode, IInv
  <1>2. /\ d'.at = "read" /\ d'.chunk = d.chunk /\ d'.individual = d.individual
        /\ d'.countsOnly = d.countsOnly /\ d'.direct = d.direct /\ d'.foreign = d.foreign
        /\ DecodeT'
    BY <1>1, NothingT DEF DecodeT, PipelineT
  <1>3. Job' = Job /\ Cur' = Cur /\ Deep' = Deep /\ Coded' = Coded /\ part' = part
    BY <1>1, <1>2, SameJob DEF partVars
  <1>4. Decoding'
    BY <1>1, <1>2, <1>3 DEF Decoding
  <1>5. KeepsApp(m, m')
    BY <1>1 DEF KeepsApp
  <1>6. QED
    BY <1>1, <1>2, <1>4, <1>5, DecoderStep

\* Freeing one more buffer.
Freed(mem, nm, b) ==
    /\ nm.buf[b] = Nobody
    /\ \A a \in Buffers : mem.buf[a] = Nobody => nm.buf[a] = Nobody

LEMMA FreeNext ==
    ASSUME NEW mem, Sound(mem), NEW b \in Buffers, NEW nm, nm = FreeBuffer(mem, b), NEW m0,
           KeepsApp(m0, mem)
    PROVE  Sound(nm) /\ KeepsApp(m0, nm) /\ Freed(mem, nm, b)
  <1>1. Sound(nm) /\ Touches(mem, nm, {b}) /\ nm.buf[b] = Nobody
    BY FreeSound
  <1>2. KeepsApp(m0, nm)
    BY <1>1, TouchesKeepsApp, KeepsAppTwice
  <1>3. \A a \in Buffers : mem.buf[a] = Nobody => nm.buf[a] = Nobody
    BY <1>1 DEF Touches, KeepsApp
  <1>4. QED
    BY <1>1, <1>2, <1>3 DEF Freed

LEMMA DestroyStep ==
    ASSUME IInv, Decode, exr_decoding_destroy
    PROVE  IInv' /\ KeepsApp(m, m')
  <1>1. PICK m1 : m1 = IF Aliases(m, "unpacked", "packed") THEN Forget(m, "unpacked") ELSE m
    OBVIOUS
  <1>2. PICK m2 : m2 = IF Aliases(m1, "table", "packedTable") THEN Forget(m1, "table") ELSE m1
    OBVIOUS
  <1>3. PICK f1 : f1 = FreeBuffer(m2, "packed")
    OBVIOUS
  <1>4. PICK f2 : f2 = FreeBuffer(f1, "unpacked")
    OBVIOUS
  <1>5. PICK f3 : f3 = FreeBuffer(f2, "scratch")
    OBVIOUS
  <1>6. PICK f4 : f4 = FreeBuffer(f3, "table")
    OBVIOUS
  <1>7. m' = FreeBuffer(f4, "packedTable")
    BY <1>1, <1>2, <1>3, <1>4, <1>5, <1>6 DEF exr_decoding_destroy
  <1>8. /\ d.at = "ready" /\ UNCHANGED partVars /\ Complete /\ e.at = "none"
        /\ UNCHANGED e /\ Sound(m) /\ Decoding /\ DecodeT
        /\ d' = [Unused EXCEPT !.shared = d.shared] /\ out' = Nothing
    BY DEF exr_decoding_destroy, Decode, IInv
  <1>9. /\ "packed" \in Buffers /\ "unpacked" \in Buffers /\ "scratch" \in Buffers
        /\ "table" \in Buffers /\ "packedTable" \in Buffers /\ "compressed" \in Buffers
    BY DEF Buffers
  <1>10. Sound(m1) /\ Touches(m, m1, {"unpacked"})
    BY <1>1, <1>8, <1>9, ForgetAlias
  <1>11. Sound(m2) /\ Touches(m1, m2, {"table"})
    BY <1>2, <1>9, <1>10, ForgetAlias
  <1>12. m2.buf["compressed"] = Nobody
    BY <1>8, <1>10, <1>11 DEF Touches, KeepsApp, Decoding, Buffers
  <1>13. KeepsApp(m, m2)
    BY <1>10, <1>11, TouchesKeepsApp, KeepsAppTwice
  <1>14. Sound(f1) /\ KeepsApp(m, f1) /\ Freed(m2, f1, "packed")
    BY <1>3, <1>9, <1>11, <1>13, FreeNext
  <1>15. Sound(f2) /\ KeepsApp(m, f2) /\ Freed(f1, f2, "unpacked")
    BY <1>4, <1>9, <1>14, FreeNext
  <1>16. Sound(f3) /\ KeepsApp(m, f3) /\ Freed(f2, f3, "scratch")
    BY <1>5, <1>9, <1>15, FreeNext
  <1>17. Sound(f4) /\ KeepsApp(m, f4) /\ Freed(f3, f4, "table")
    BY <1>6, <1>9, <1>16, FreeNext
  <1>18. Sound(m') /\ KeepsApp(m, m') /\ Freed(f4, m', "packedTable")
    BY <1>7, <1>9, <1>17, FreeNext
  <1>19. \A b \in Buffers : m'.buf[b] = Nobody
    BY <1>9, <1>12, <1>14, <1>15, <1>16, <1>17, <1>18 DEF Freed, Buffers
  <1>20. d'.at = "none" /\ ~d'.foreign /\ DecodeT'
    BY <1>8, NothingT DEF DecodeT, PipelineT, Unused, NoChunk
  <1>21. Decoding'
    BY <1>20 DEF Decoding
  <1>22. QED
    BY <1>8, <1>18, <1>19, <1>20, <1>21, DecoderStep

LEMMA AdoptStep ==
    ASSUME IInv, Decode, NEW b \in {"packed", "unpacked"}, Adopt(b), Owns(m, b)
    PROVE  IInv' /\ KeepsApp(m, m')
  <1> DEFINE p == m.buf[b].ptr
             block == [m.heap[p] EXCEPT !.own = "application"]
             heap == [m.heap EXCEPT ![p] = block]
             buf == [m.buf[b] EXCEPT !.ptr = Null]
  <1>1. /\ d.at = "ready" /\ d.rv = "ok" /\ UNCHANGED <<partVars, out>> /\ Complete
        /\ e.at = "none" /\ UNCHANGED e /\ Sound(m) /\ DecodeT /\ Decoding
        /\ Owns(m, b) /\ b \in Buffers
        /\ \A q \in DOMAIN m.heap : m.heap[q].own = "pipeline"
        /\ m' = [Forget(m, b) EXCEPT !.heap[p].own = "application"]
        /\ d' = [d EXCEPT !.rv = "none", !.shared = @ \/ ~Owns(m, b)]
    BY DEF Adopt, Decode, IInv, Buffers
  <1>2. /\ m \in MemT /\ m.buf \in [Buffers -> BufferT] /\ ~m.fault /\ m.heap \in Heaps
        /\ DOMAIN m.heap \subseteq Addr /\ IsFiniteSet(DOMAIN m.heap)
        /\ m.heap \in [DOMAIN m.heap -> BlockT]
    BY <1>1, HeapsOpen DEF Sound, MemT
  <1>3. p \in DOMAIN m.heap /\ p[1] = b
    BY <1>1, OwnedRoom
  <1>4. m' = [m EXCEPT !.heap = heap, !.buf[b] = buf]
    BY <1>1, <1>2 DEF Forget, MemT
  <1>5. buf \in BufferT /\ buf.ptr = Null /\ block \in BlockT /\ block.own = "application"
    <2>1. m.buf[b] \in BufferT /\ m.heap[p] \in BlockT
      BY <1>1, <1>2, <1>3
    <2>2. buf \in BufferT /\ buf.ptr = Null
      BY <2>1 DEF BufferT
    <2>3. block \in BlockT /\ block.own = "application"
      BY <2>1 DEF BlockT
    <2>4. QED
      BY <2>2, <2>3
  <1> HIDE DEF buf, block
  <1>6. heap \in [DOMAIN m.heap -> BlockT] /\ DOMAIN heap = DOMAIN m.heap /\ heap[p] = block
        /\ \A q \in DOMAIN m.heap : q # p => heap[q] = m.heap[q]
    BY <1>2, <1>3, <1>5
  <1>7. heap \in Heaps
    <2> HIDE DEF heap
    <2>1. QED
      BY <1>2, <1>6, HeapsOpen, Zenon
  <1> HIDE DEF heap
  <1>8. /\ m' \in MemT /\ m'.heap = heap /\ m'.fault = m.fault
        /\ m'.buf = [m.buf EXCEPT ![b] = buf]
    BY <1>2, <1>4, <1>5, <1>7 DEF MemT
  <1>9. /\ m'.buf[b] = buf /\ \A a \in Buffers : a # b => m'.buf[a] = m.buf[a]
        /\ ~Owns(m', b) /\ \A a \in Buffers : a # b => (Owns(m', a) <=> Owns(m, a))
    <2>1. m'.buf[b] = buf /\ \A a \in Buffers : a # b => m'.buf[a] = m.buf[a]
      BY <1>1, <1>2, <1>8
    <2>2. QED
      BY <1>5, <2>1 DEF Owns
  <1>10. OwnedSound(m')
    <2> SUFFICES ASSUME NEW a \in Buffers, Owns(m', a)
                 PROVE  LET q == m'.buf[a].ptr IN
                        /\ q \in DOMAIN m'.heap /\ q[1] = a
                        /\ m'.heap[q].own = "pipeline" /\ m'.heap[q].size = m'.buf[a].size
      BY DEF OwnedSound
    <2>1. a # b /\ Owns(m, a) /\ m'.buf[a] = m.buf[a]
      BY <1>9
    <2>2. LET q == m.buf[a].ptr IN
          /\ q \in DOMAIN m.heap /\ q[1] = a
          /\ m.heap[q].own = "pipeline" /\ m.heap[q].size = m.buf[a].size
      BY <1>1, <2>1 DEF Sound, OwnedSound
    <2>3. QED
      BY <1>3, <1>6, <1>8, <2>1, <2>2
  <1>11. NoLeak(m')
    <2> SUFFICES ASSUME NEW q \in DOMAIN m'.heap, m'.heap[q].own = "pipeline"
                 PROVE  q[1] \in Buffers /\ Owns(m', q[1]) /\ m'.buf[q[1]].ptr = q
      BY DEF NoLeak
    <2>1. q \in DOMAIN m.heap /\ q # p /\ m.heap[q].own = "pipeline"
      BY <1>1, <1>5, <1>6, <1>8
    <2>2. q[1] \in Buffers /\ Owns(m, q[1]) /\ m.buf[q[1]].ptr = q
      BY <1>1, <2>1 DEF Sound, NoLeak
    <2>3. q[1] # b
      BY <2>1, <2>2
    <2>4. QED
      BY <1>9, <2>2, <2>3
  <1>12. Tagged(m')
    <2>1. Tagged(m)
      BY <1>1 DEF Sound
    <2>2. m'.buf[b].ptr[1] = "none"
      BY <1>5, <1>9 DEF Null
    <2>3. QED
      BY <1>9, <2>1, <2>2 DEF Tagged
  <1>13. Sound(m')
    BY <1>2, <1>8, <1>10, <1>11, <1>12 DEF Sound
  <1>14. ~d.foreign
    <2>1. d.foreign => Lent(m, Cur, Job.open)
      BY <1>1 DEF Decoding
    <2>2. Lent(m, Cur, Job.open) => \E q \in DOMAIN m.heap : m.heap[q].own = "application"
      <3>1. Lent(m, Cur, Job.open) => /\ m.buf["packed"].ptr \in DOMAIN m.heap
                            /\ m.heap[m.buf["packed"].ptr].own = "application"
        BY DEF Lent, Block
      <3>2. QED
        BY <3>1
    <2>3. QED
      BY <1>1, <2>1, <2>2
  <1>15. /\ d'.at = "ready" /\ d'.rv = "none" /\ d'.chunk = d.chunk
         /\ d'.individual = d.individual /\ d'.countsOnly = d.countsOnly
         /\ d'.direct = d.direct /\ d'.foreign = d.foreign /\ DecodeT'
    BY <1>1 DEF DecodeT, PipelineT
  <1>16. Deep' = Deep /\ Coded' = Coded
    BY <1>1 DEF Deep, Coded, partVars
  <1>17. m'.buf["compressed"] = m.buf["compressed"]
    BY <1>9 DEF Buffers
  <1>18. Decoding'
    BY <1>1, <1>14, <1>15, <1>16, <1>17 DEF Decoding
  <1>19. KeepsApp(m, m')
    BY <1>1 DEF KeepsApp
  <1>20. QED
    BY <1>1, <1>13, <1>15, <1>18, <1>19, DecoderStep

\* A block of the application goes.
Gone(mem, nm, p) == /\ nm.buf = mem.buf /\ DOMAIN nm.heap = DOMAIN mem.heap \ {p}
                    /\ \A q \in DOMAIN nm.heap : nm.heap[q] = mem.heap[q]

LEMMA BlockGone ==
    ASSUME NEW mem, Sound(mem), NEW p \in DOMAIN mem.heap, mem.heap[p].own = "application",
           NEW nm, nm = [mem EXCEPT !.heap = Restrict(@, DOMAIN @ \ {p})]
    PROVE  Sound(nm) /\ Gone(mem, nm, p)
  <1> DEFINE heap == [q \in DOMAIN mem.heap \ {p} |-> mem.heap[q]]
  <1>1. /\ mem \in MemT /\ ~mem.fault /\ DOMAIN mem.heap \subseteq Addr
        /\ IsFiniteSet(DOMAIN mem.heap) /\ mem.heap \in [DOMAIN mem.heap -> BlockT]
    BY HeapsOpen DEF Sound, MemT
  <1>2. /\ DOMAIN heap = DOMAIN mem.heap \ {p} /\ heap \in [DOMAIN heap -> BlockT]
        /\ \A q \in DOMAIN heap : heap[q] = mem.heap[q]
    BY <1>1
  <1>3. nm = [mem EXCEPT !.heap = heap]
    BY DEF Restrict
  <1> HIDE DEF heap
  <1>4. heap \in Heaps
    <2>1. DOMAIN heap \subseteq Addr /\ IsFiniteSet(DOMAIN heap)
      BY <1>1, <1>2, FS_Subset
    <2>2. QED
      BY <1>2, <2>1, HeapsOpen
  <1>5. nm \in MemT /\ nm.heap = heap /\ nm.buf = mem.buf /\ nm.fault = mem.fault
    BY <1>1, <1>3, <1>4 DEF MemT
  <1>6. \A a : Owns(nm, a) <=> Owns(mem, a)
    BY <1>5 DEF Owns
  <1>7. OwnedSound(nm)
    BY <1>2, <1>5, <1>6 DEF Sound, OwnedSound
  <1>8. NoLeak(nm)
    <2> SUFFICES ASSUME NEW q \in DOMAIN nm.heap, nm.heap[q].own = "pipeline"
                 PROVE  q[1] \in Buffers /\ Owns(nm, q[1]) /\ nm.buf[q[1]].ptr = q
      BY DEF NoLeak
    <2>1. q \in DOMAIN mem.heap /\ mem.heap[q].own = "pipeline"
      BY <1>2, <1>5
    <2>2. q[1] \in Buffers /\ Owns(mem, q[1]) /\ mem.buf[q[1]].ptr = q
      BY <2>1 DEF Sound, NoLeak
    <2>3. QED
      BY <1>5, <1>6, <2>2
  <1>9. Tagged(nm)
    BY <1>5 DEF Sound, Tagged
  <1>10. QED
    BY <1>1, <1>2, <1>5, <1>7, <1>8, <1>9 DEF Sound, Gone

LEMMA ApplicationFreesStep ==
    ASSUME IInv, Decode, ApplicationFrees
    PROVE  IInv'
  <1>1. PICK p \in DOMAIN m.heap :
           /\ m.heap[p].own = "application"
           /\ m' = [m EXCEPT !.heap = Restrict(@, DOMAIN @ \ {p})]
    BY DEF ApplicationFrees
  <1>2. /\ d.at \in {"none", "ready"} /\ (d.foreign => d.at = "none")
        /\ UNCHANGED <<partVars, d, out>> /\ Complete /\ e.at = "none" /\ UNCHANGED e
        /\ Sound(m) /\ DecodeT /\ Decoding /\ Phases
    BY DEF ApplicationFrees, Decode, IInv
  <1>3. /\ Sound(m') /\ m'.buf = m.buf /\ DOMAIN m'.heap = DOMAIN m.heap \ {p}
        /\ \A q \in DOMAIN m'.heap : m'.heap[q] = m.heap[q]
    <2>1. Sound(m') /\ Gone(m, m', p)
      BY <1>1, <1>2, BlockGone
    <2>2. QED
      BY <2>1 DEF Gone
  <1>4. ASSUME NEW b, NEW n, NEW data, Holds(m, {"pipeline"}, b, n, data)
        PROVE  Holds(m', {"pipeline"}, b, n, data)
    BY <1>1, <1>3, <1>4 DEF Holds
  <1>5. Job' = Job /\ Cur' = Cur /\ Deep' = Deep /\ Coded' = Coded
    BY <1>2, SameJob
  <1>6. Overlooked(m', Job) <=> Overlooked(m, Job)
    BY <1>3 DEF Overlooked
  <1>7. ASSUME d.at = "ready"
        PROVE  /\ CountsMade(m, Job) => CountsMade(m', Job)
               /\ PixelsPlain(m, Job) => PixelsPlain(m', Job)
    <2>1. Job.owners = {"pipeline"}
      BY <1>2, <1>7 DEF Job
    <2>2. QED
      BY <1>4, <1>6, <2>1 DEF CountsMade, PixelsPlain
  <1>8. Decoding'
    <2>1. CASE d.at = "none"
      BY <1>2, <2>1 DEF Decoding
    <2>2. CASE d.at = "ready"
      BY <1>2, <1>3, <1>5, <1>6, <1>7, <2>2 DEF Decoding
    <2>3. QED
      BY <1>2, <2>1, <2>2
  <1>9. DecodeT'
    BY <1>2 DEF DecodeT, PipelineT
  <1>10. QED
    BY <1>2, <1>3, <1>8, <1>9, DecoderStep DEF Phases

LEMMA MemDecodeStep ==
    ASSUME IInv, Decode, NEW c \in Chunks, NEW countsOnly \in BOOLEAN,
           run_mem_decode(c, countsOnly)
    PROVE  IInv' /\ KeepsApp(m, m')
  <1> DEFINE p == Address("packedTable", {})
             q == Address("packed", {})
             table  == Block("application", file[c].table, file[c].counts)
             pixels == Block("application", file[c].packed, file[c].pixels)
             heap == [x \in {p, q} |-> IF x = p THEN table ELSE pixels]
  <1>1. /\ d.at = "none" /\ m.heap = <<>> /\ Deep /\ ~part.tiled
        /\ UNCHANGED <<partVars, out>> /\ Complete /\ e.at = "none" /\ UNCHANGED e
        /\ Sound(m) /\ DecodeT /\ Phases /\ PartOK /\ FileOK
        /\ d' = [Unused EXCEPT !.at = "ready", !.chunk = c, !.individual = TRUE,
                               !.countsOnly = countsOnly, !.foreign = TRUE,
                               !.shared = d.shared]
        /\ m' = [m EXCEPT !.heap = WithBlock(WithBlock(@, q, pixels), p, table),
                          !.buf["packedTable"].ptr = p, !.buf["packed"].ptr = q]
    BY DEF run_mem_decode, Decode, IInv
  <1>2. file[c] \in ChunkT
    BY <1>1 DEF FileOK
  <1>3. table \in BlockT /\ pixels \in BlockT /\ table.own = "application"
        /\ pixels.own = "application"
    BY <1>2 DEF Block, BlockT, ChunkT
  <1>4. p \in Addr /\ q \in Addr /\ p[1] = "packedTable" /\ q[1] = "packed"
    BY FS_EmptySet, AddressNew DEF Buffers
  <1>5. p # q
    BY <1>4
  <1>6. WithBlock(WithBlock(m.heap, q, pixels), p, table) = heap
    <2>1. DOMAIN m.heap = {}
      BY <1>1
    <2> HIDE DEF p, q, table, pixels
    <2>2. WithBlock(m.heap, q, pixels) = [x \in {q} |-> pixels]
      BY <2>1 DEF WithBlock
    <2>3. QED
      BY <2>2 DEF WithBlock
  <1> HIDE DEF p, q, table, pixels
  <1>7. /\ DOMAIN heap = {p, q} /\ heap[p] = table /\ heap[q] = pixels
        /\ heap \in [{p, q} -> BlockT]
    BY <1>3, <1>5
  <1> HIDE DEF heap
  <1>8. heap \in Heaps
    <2>1. IsFiniteSet({p, q})
      <3>1. {p, q} = {p} \cup {q}
        OBVIOUS
      <3>2. IsFiniteSet({p}) /\ IsFiniteSet({q})
        BY FS_Singleton
      <3>3. QED
        BY <3>1, <3>2, FS_Union
    <2>2. QED
      BY <1>4, <1>7, <2>1, HeapsOpen
  <1>9. /\ m \in MemT /\ m.buf \in [Buffers -> BufferT] /\ ~m.fault
        /\ \A b \in Buffers : m.buf[b] = Nobody
        /\ "packed" \in Buffers /\ "packedTable" \in Buffers
    BY <1>1 DEF Sound, MemT, Phases, Buffers
  <1> DEFINE buf == [m.buf EXCEPT !["packedTable"] = [ptr |-> p, size |-> 0],
                                  !["packed"] = [ptr |-> q, size |-> 0]]
  <1>10. m' = [m EXCEPT !.heap = heap, !.buf = buf]
    <2>1. m' = [m EXCEPT !.heap = heap, !.buf["packedTable"].ptr = p, !.buf["packed"].ptr = q]
      BY <1>1, <1>6
    <2>2. /\ [m.buf["packedTable"] EXCEPT !.ptr = p] = [ptr |-> p, size |-> 0]
          /\ [m.buf["packed"] EXCEPT !.ptr = q] = [ptr |-> q, size |-> 0]
      BY <1>9 DEF Nobody
    <2>3. QED
      BY <1>9, <2>1, <2>2 DEF MemT
  <1>11. /\ buf \in [Buffers -> BufferT]
         /\ buf["packedTable"] = [ptr |-> p, size |-> 0] /\ buf["packed"] = [ptr |-> q, size |-> 0]
         /\ \A b \in Buffers \ {"packedTable", "packed"} : buf[b] = Nobody
    BY <1>4, <1>9 DEF BufferT
  <1> HIDE DEF buf
  <1>12. m' \in MemT /\ m'.heap = heap /\ m'.buf = buf /\ m'.fault = m.fault
    BY <1>8, <1>9, <1>10, <1>11 DEF MemT
  <1>13. \A b \in Buffers : ~Owns(m', b)
    BY <1>11, <1>12 DEF Owns, Nobody
  <1>14. \A x \in DOMAIN m'.heap : m'.heap[x].own = "application"
    BY <1>3, <1>7, <1>12
  <1>15. Tagged(m')
    BY <1>4, <1>11, <1>12 DEF Tagged, Nobody, Null
  <1>16. OwnedSound(m') /\ NoLeak(m')
    BY <1>13, <1>14 DEF OwnedSound, NoLeak
  <1>17. Sound(m')
    BY <1>9, <1>12, <1>15, <1>16 DEF Sound
  <1>18. /\ d'.at = "ready" /\ d'.rv = "none" /\ d'.chunk = c /\ d'.individual = TRUE
         /\ d'.countsOnly = countsOnly /\ d'.direct = FALSE /\ d'.foreign = TRUE /\ DecodeT'
    BY <1>1 DEF DecodeT, PipelineT, Unused
  <1>19. Deep' = Deep /\ Coded' = Coded /\ part' = part /\ Cur' = file[c]
    BY <1>1, <1>18 DEF Deep, Coded, partVars, Cur
  <1>20. \A open : Lent(m', file[c], open)
    BY <1>7, <1>11, <1>12 DEF Lent, Block, table, pixels, p, q
  <1>21. m'.buf["compressed"] = Nobody
    BY <1>11, <1>12 DEF Buffers
  <1>22. Decoding'
    BY <1>1, <1>18, <1>19, <1>20, <1>21 DEF Decoding
  <1>23. KeepsApp(m, m')
    BY <1>1 DEF KeepsApp
  <1>24. QED
    BY <1>1, <1>17, <1>18, <1>22, <1>23, DecoderStep

\* When the application has adopted a block that another buffer counts as its own,
\* nothing is said any more but of the file, which is complete.
Loose == d.shared /\ d \in PipelineT /\ PartOK /\ FileOK /\ Complete /\ e.at = "none"

LEMMA LooseFrom ==
    ASSUME IInv, Decode, NEW b \in {"packed", "unpacked"}, Adopt(b), ~Owns(m, b)
    PROVE  Loose' /\ KeepsApp(m, m')
  <1>1. /\ UNCHANGED partVars /\ Complete /\ e.at = "none" /\ UNCHANGED e
        /\ d \in PipelineT /\ PartOK /\ FileOK
        /\ \A q \in DOMAIN m.heap : m.heap[q].own = "pipeline"
        /\ d' = [d EXCEPT !.rv = "none", !.shared = @ \/ ~Owns(m, b)]
    BY DEF Adopt, Decode, IInv, DecodeT
  <1>2. d'.shared = TRUE /\ d' \in PipelineT
    BY <1>1 DEF PipelineT
  <1>3. PartOK' /\ FileOK' /\ Complete'
    BY <1>1 DEF PartOK, FileOK, Complete, partVars
  <1>4. KeepsApp(m, m')
    BY <1>1 DEF KeepsApp
  <1>5. QED
    BY <1>1, <1>2, <1>3, <1>4 DEF Loose

\* Whatever a pipeline then does leaves the file alone, and goes on being so.
LEMMA LooseKeeps ==
    ASSUME Loose, [Next]_allVars
    PROVE  Loose'
  <1>1. UNCHANGED <<partVars, e, d>> => Loose'
    BY DEF Loose, PartOK, FileOK, Complete, partVars
  <1>2. ASSUME UNCHANGED <<partVars, e>>, d' \in PipelineT, d'.shared = d.shared
        PROVE  Loose'
    BY <1>2 DEF Loose, PartOK, FileOK, Complete, partVars
  <1>3. d \in PipelineT /\ d.shared = TRUE
    BY DEF Loose, PipelineT
  <1>4. ASSUME NEW at \in {"pointers", "decompress", "samples", "unpack"}, NEW outcomes,
               NEW from, Stage(from, outcomes, at)
        PROVE  d' \in PipelineT /\ d'.shared = d.shared /\ UNCHANGED partVars
    <2>1. \/ d' = [d EXCEPT !.at = at]
          \/ d' = [d EXCEPT !.at = "ready", !.rv = "error", !.fails = @ + 1]
      BY <1>4 DEF Stage
    <2>2. d.fails + 1 \in Nat
      BY <1>3 DEF PipelineT
    <2>3. QED
      BY <1>3, <1>4, <2>1, <2>2 DEF PipelineT, Stage
  <1>5. ASSUME Decode, DecodeNext
        PROVE  d' \in PipelineT /\ d'.shared = d.shared /\ UNCHANGED partVars
    <2>1. ASSUME NEW c \in Chunks, NEW individual \in BOOLEAN, NEW countsOnly \in BOOLEAN,
                 NEW direct \in BOOLEAN,
                 exr_decoding_initialize(c, individual, countsOnly, direct)
          PROVE  d' \in PipelineT /\ d'.shared = d.shared /\ UNCHANGED partVars
      <3>1. d' = [Unused EXCEPT !.at = "ready", !.chunk = c, !.individual = individual,
                                !.countsOnly = countsOnly, !.direct = direct,
                                !.shared = d.shared]
            /\ UNCHANGED partVars
        BY <2>1 DEF exr_decoding_initialize
      <3>2. d' \in PipelineT /\ d'.shared = d.shared
        BY <1>3, <3>1, ZenonT(60) DEF PipelineT, Unused
      <3>3. QED
        BY <3>1, <3>2
    <2>2. ASSUME NEW c \in Chunks, NEW countsOnly \in BOOLEAN, exr_decoding_update(c, countsOnly)
          PROVE  d' \in PipelineT /\ d'.shared = d.shared /\ UNCHANGED partVars
      BY <1>3, <2>2 DEF exr_decoding_update, PipelineT
    <2>3. ASSUME NEW c \in Chunks, NEW countsOnly \in BOOLEAN, run_mem_decode(c, countsOnly)
          PROVE  d' \in PipelineT /\ d'.shared = d.shared /\ UNCHANGED partVars
      BY <1>3, <2>3 DEF run_mem_decode, PipelineT, Unused
    <2>4. CASE exr_decoding_run
      BY <1>3, <2>4 DEF exr_decoding_run, PipelineT
    <2>5. CASE Read \/ UpdatePointers \/ Decompress \/ Samples
      BY <1>4, <2>5, Zenon DEF Read, UpdatePointers, Decompress, Samples
    <2>6. CASE Unpack
      <3>1. \/ d' = [d EXCEPT !.at = "ready", !.rv = "ok"]
            \/ d' = [d EXCEPT !.at = "ready", !.rv = "error", !.fails = @ + 1]
        BY <2>6 DEF Unpack
      <3>2. d.fails + 1 \in Nat
        BY <1>3 DEF PipelineT
      <3>3. QED
        BY <1>3, <2>6, <3>1, <3>2 DEF PipelineT, Unpack
    <2>7. CASE run_unpack
      BY <1>3, <2>7 DEF run_unpack
    <2>8. ASSUME NEW b \in {"packed", "unpacked"}, Adopt(b)
          PROVE  d' \in PipelineT /\ d'.shared = d.shared /\ UNCHANGED partVars
      <3>1. d' = [d EXCEPT !.rv = "none", !.shared = TRUE]
        BY <1>3, <2>8 DEF Adopt
      <3>2. QED
        BY <1>3, <2>8, <3>1 DEF PipelineT, Adopt
    <2>9. CASE ApplicationFrees
      BY <1>3, <2>9 DEF ApplicationFrees
    <2>10. CASE exr_decoding_destroy
      BY <1>3, <2>10 DEF exr_decoding_destroy, PipelineT, Unused
    <2>11. QED
      BY <1>5, <2>1, <2>2, <2>3, <2>4, <2>5, <2>6, <2>7, <2>8, <2>9, <2>10 DEF DecodeNext
  <1>6. CASE UNCHANGED allVars
    BY <1>1, <1>6 DEF allVars, partVars
  <1>7. CASE Encode
    BY <1>7 DEF Encode, Loose
  <1>8. CASE Decode
    BY <1>2, <1>5, <1>8 DEF Decode
  <1>9. QED
    BY <1>6, <1>7, <1>8 DEF Next

\* Every step of the decoder.
LEMMA DecodeKeeps ==
    ASSUME IInv, Decode
    PROVE  (IInv \/ Loose)' /\ (~ApplicationFrees => KeepsApp(m, m'))
  <1>1. DecodeNext
    BY DEF Decode
  <1>2. CASE \E c \in Chunks, countsOnly \in BOOLEAN, individual, direct \in BOOLEAN :
                exr_decoding_initialize(c, individual, countsOnly, direct)
    BY <1>2, InitializeStep
  <1>3. CASE \E c \in Chunks, countsOnly \in BOOLEAN : exr_decoding_update(c, countsOnly)
    BY <1>3, UpdateStep
  <1>4. CASE \E c \in Chunks, countsOnly \in BOOLEAN : run_mem_decode(c, countsOnly)
    BY <1>4, MemDecodeStep
  <1>5. CASE exr_decoding_run
    BY <1>5, RunStep
  <1>6. CASE Read
    BY <1>6, ReadStep
  <1>7. CASE UpdatePointers
    BY <1>7, PointersStep
  <1>8. CASE Decompress
    BY <1>8, DecompressStep
  <1>9. CASE Samples
    BY <1>9, SamplesStep
  <1>10. CASE Unpack
    BY <1>10, UnpackStep
  <1>11. CASE run_unpack
    BY <1>11, RunUnpackStep
  <1>12. CASE \E b \in {"packed", "unpacked"} : Adopt(b)
    BY <1>12, AdoptStep, LooseFrom
  <1>13. CASE ApplicationFrees
    BY <1>13, ApplicationFreesStep
  <1>14. CASE exr_decoding_destroy
    BY <1>14, DestroyStep
  <1>15. QED
    BY <1>1, <1>2, <1>3, <1>4, <1>5, <1>6, <1>7, <1>8, <1>9, <1>10, <1>11, <1>12, <1>13, <1>14
       DEF DecodeNext

-----------------------------------------------------------------------------
(* The steps of the encoder.                                                *)

LEMMA EncoderStep ==
    ASSUME IInv, Encode, UNCHANGED part, Sound(m'), EncodeT', Encoding', FileOK',
           e'.at = "none" => \A b \in Buffers : m'.buf[b] = Nobody
    PROVE  IInv'
  <1>1. d.at = "none" /\ UNCHANGED <<d, out>>
    BY DEF IInv, Encode, Phases, decodeVars
  <1>2. PartOK' /\ DecodeT' /\ Decoding' /\ Phases'
    BY <1>1 DEF IInv, PartOK, DecodeT, PipelineT, Decoding, Phases
  <1>3. QED
    BY <1>2 DEF IInv

\* A file that no step of the encoder has changed.
LEMMA SameFile ==
    ASSUME IInv, UNCHANGED partVars
    PROVE  FileOK' /\ part' = part /\ file' = file
  BY DEF IInv, FileOK, partVars

LEMMA EncodeFails ==
    ASSUME IInv, UNCHANGED part, e.at \notin {"none", "ready"},
           \A b \in {"unpacked", "table", "packedTable"} : m'.buf[b] = Nobody,
           e' = [e EXCEPT !.at = "ready", !.fails = @ + 1]
    PROVE  EncodeT' /\ Encoding' /\ e'.at # "none"
  <1>1. e.fails + 1 \in Nat
    BY DEF IInv, EncodeT
  <1>2. EncodeT' /\ e'.at = "ready" /\ e'.chunk = e.chunk /\ e'.user = e.user
    BY <1>1 DEF IInv, EncodeT
  <1>3. Encoding'
    BY <1>2 DEF IInv, Encoding
  <1>4. QED
    BY <1>2, <1>3

LEMMA EncodeAlloc ==
    ASSUME NEW mem, Sound(mem), NEW b \in Buffers, NEW n \in Nat,
           NEW o \in AllocEncodeBuffer(mem, b, n)
    PROVE  Result(mem, o, {b}) /\ (o.ok => n > 0 /\ Enough(o.mem, b, n))
  <1>1. CASE n = 0
    <2>1. o.mem = mem /\ o.ok = FALSE
      BY <1>1 DEF AllocEncodeBuffer, Bad
    <2>2. QED
      BY <2>1, Zenon DEF Result, Touches, KeepsApp
  <1>2. CASE n # 0
    <2>1. o \in AllocBuffer(mem, b, n) /\ n > 0
      BY <1>2 DEF AllocEncodeBuffer
    <2>2. QED
      BY <2>1, AllocSound, ZenonT(40)
  <1>3. QED
    BY <1>1, <1>2

\* Writing n units to a buffer that owns as many.
LEMMA PutOwned ==
    ASSUME NEW mem, Sound(mem), NEW b \in Buffers, NEW n \in Nat, NEW data \in TokenT,
           Enough(mem, b, n), NEW nm, nm = Put(mem, b, n, data)
    PROVE  /\ Sound(nm) /\ Touches(mem, nm, {b}) /\ nm.buf = mem.buf
           /\ Holds(nm, {"pipeline"}, b, n, data)
  <1>1. n > 0 => /\ Live(mem, b) /\ mem.heap[mem.buf[b].ptr].size >= n
                 /\ mem.heap[mem.buf[b].ptr].own = "pipeline" /\ mem.buf[b].ptr[1] \in {b}
    BY OwnedRoom DEF Enough
  <1>2. QED
    BY <1>1, PutTouches

\* The pixels of a chunk, as the application packs them.
LEMMA PlainToken ==
    ASSUME NEW c \in Chunks
    PROVE  Token("pixels", c, "plain") \in TokenT
  BY ChunksAssumption DEF Token, TokenT, Forms

LEMMA PackStep ==
    ASSUME IInv, Encode, Pack
    PROVE  IInv' /\ KeepsApp(m, m')
  <1> DEFINE data == Token("pixels", e.chunk, "plain")
  <1>1. PICK o \in IF Raw = 0 THEN {Good(m)}
                   ELSE Then(AllocEncodeBuffer(m, "packed", Raw), default_pack) :
           /\ m' = o.mem
           /\ e' = IF o.ok THEN [e EXCEPT !.at = "compress", !.packedBytes = Raw]
                   ELSE [e EXCEPT !.at = "ready", !.fails = @ + 1]
    BY Zenon DEF Pack, EncodeStage
  <1>2. /\ e.at = "pack" /\ UNCHANGED partVars /\ Sound(m) /\ EncodeT /\ Encoding
        /\ e.chunk \in Chunks /\ PartOK /\ ~part.deep
    BY DEF Pack, EncodeStage, IInv, Encoding
  <1>3. Raw \in Nat /\ data \in TokenT /\ "packed" \in Buffers
    BY <1>2, PlainToken DEF Raw, PartOK, Buffers
  <1> HIDE DEF data
  <1>4. Result(m, o, {"packed"}) /\ (o.ok => Holds(o.mem, {"pipeline"}, "packed", Raw, data))
    <2>1. CASE Raw = 0
      <3>1. o.mem = m /\ o.ok = TRUE
        BY <1>1, <2>1 DEF Good
      <3>2. Result(m, o, {"packed"})
        BY <1>2, <3>1 DEF Result, Touches, KeepsApp
      <3>3. Holds(m, {"pipeline"}, "packed", Raw, data)
        BY <2>1 DEF Holds
      <3>4. QED
        BY <3>1, <3>2, <3>3
    <2>2. CASE Raw # 0
      <3>1. PICK a \in AllocEncodeBuffer(m, "packed", Raw) :
               IF a.ok THEN o \in {Bad(a.mem), Good(Put(a.mem, "packed", Raw, data))} ELSE o = a
        BY <1>1, <2>2 DEF Then, default_pack, data
      <3>2. Result(m, a, {"packed"}) /\ (a.ok => Enough(a.mem, "packed", Raw))
        BY <1>2, <1>3, EncodeAlloc
      <3>3. CASE ~a.ok
        BY <3>1, <3>2, <3>3
      <3>4. CASE a.ok
        <4>1. Sound(a.mem) /\ Touches(m, a.mem, {"packed"}) /\ Enough(a.mem, "packed", Raw)
          BY <3>2, <3>4 DEF Result
        <4>2. \/ o.mem = a.mem /\ o.ok = FALSE
              \/ o.mem = Put(a.mem, "packed", Raw, data) /\ o.ok = TRUE
          BY <3>1, <3>4 DEF Good, Bad
        <4>3. CASE o.mem = a.mem /\ o.ok = FALSE
          BY <4>1, <4>3 DEF Result
        <4>4. CASE o.mem = Put(a.mem, "packed", Raw, data) /\ o.ok = TRUE
          <5>1. /\ Sound(o.mem) /\ Touches(a.mem, o.mem, {"packed"})
                /\ Holds(o.mem, {"pipeline"}, "packed", Raw, data)
            BY <1>3, <4>1, <4>4, PutOwned
          <5>2. Result(a.mem, o, {"packed"})
            BY <4>4, <5>1 DEF Result
          <5>3. QED
            BY <4>1, <5>1, <5>2, ResultAfter
        <4>5. QED
          BY <4>2, <4>3, <4>4
      <3>5. QED
        BY <3>3, <3>4
    <2>3. QED
      BY <2>1, <2>2
  <1>5. /\ Sound(m') /\ KeepsApp(m, m')
        /\ \A b \in {"unpacked", "table", "packedTable"} : m'.buf[b] = Nobody
    <2>1. Sound(o.mem) /\ Touches(m, o.mem, {"packed"})
      BY <1>4, Zenon DEF Result
    <2>2. \A b \in {"unpacked", "table", "packedTable"} : o.mem.buf[b] = m.buf[b]
      BY <2>1 DEF Touches, KeepsApp, Buffers
    <2>3. QED
      BY <1>1, <1>2, <2>1, <2>2, TouchesKeepsApp DEF Encoding
  <1>6. FileOK' /\ part' = part /\ file' = file
    BY <1>2, SameFile
  <1>7. CASE ~o.ok
    <2>1. EncodeT' /\ Encoding' /\ e'.at # "none"
      BY <1>1, <1>2, <1>5, <1>6, <1>7, EncodeFails
    <2>2. QED
      BY <1>5, <1>6, <2>1, EncoderStep
  <1>8. CASE o.ok
    <2>1. e' = [e EXCEPT !.at = "compress", !.packedBytes = Raw]
      BY <1>1, <1>8
    <2>2. /\ EncodeT' /\ e'.at = "compress" /\ e'.packedBytes = Raw /\ e'.chunk = e.chunk
          /\ e'.user = e.user
      BY <1>2, <1>3, <2>1 DEF EncodeT
    <2>3. Raw' = Raw
      BY <1>6, <2>2 DEF Raw
    <2>4. Encoding'
      BY <1>1, <1>2, <1>4, <1>5, <1>6, <1>8, <2>2, <2>3 DEF Encoding, data
    <2>5. QED
      BY <1>5, <1>6, <2>2, <2>4, EncoderStep
  <1>9. QED
    BY <1>7, <1>8

\* n units of the compressed buffer are what a codec leaves of size units of data.
CompressedTo(mem, data, size, n) ==
    \E x \in Compressed(data, size, n) : Holds(mem, {"pipeline"}, "compressed", n, x)

LEMMA CompressedToken ==
    ASSUME NEW data \in TokenT, NEW size, NEW n, NEW x \in Compressed(data, size, n)
    PROVE  x \in TokenT
  <1>1. [data EXCEPT !.form = "coded"] \in TokenT
    BY DEF TokenT, Forms
  <1>2. QED
    BY <1>1, JunkToken DEF Compressed

LEMMA CompressChunk ==
    ASSUME NEW mem, Sound(mem), NEW owners, NEW size \in Nat \ {0}, NEW n \in 1 .. size,
           NEW data \in TokenT, Holds(mem, owners, "packed", size, data),
           NEW o \in exr_compress_chunk(mem, size, n)
    PROVE  /\ Result(mem, o, {"compressed", "scratch"})
           /\ o.ok => CompressedTo(o.mem, data, size, n)
  <1> DEFINE B == {"compressed", "scratch"}
  <1>1. PICK a \in AllocEncodeBuffer(mem, "compressed", size + 1) :
           IF ~a.ok THEN o = a
           ELSE \E s \in AllocEncodeBuffer(a.mem, "scratch", size) :
                   IF ~s.ok THEN o = s ELSE o \in internal_exr_apply(s.mem, size, n)
    BY DEF exr_compress_chunk, Then
  <1>2. "compressed" \in Buffers /\ "scratch" \in Buffers /\ "packed" \in Buffers
        /\ size \in Nat /\ size + 1 \in Nat /\ n \in Nat /\ n > 0 /\ n <= size
    BY DEF Buffers
  <1>3. Result(mem, a, {"compressed"}) /\ (a.ok => Enough(a.mem, "compressed", size + 1))
    BY <1>2, EncodeAlloc
  <1>4. Touches(mem, mem, {})
    BY DEF Touches, KeepsApp
  <1>5. CASE ~a.ok
    <2>1. o = a
      BY <1>1, <1>5
    <2>2. Result(mem, a, B)
      BY <1>3, <1>4, ResultAfter
    <2> HIDE DEF B
    <2>3. QED
      BY <1>5, <2>1, <2>2, Zenon DEF B
  <1>6. CASE a.ok
    <2>1. PICK s \in AllocEncodeBuffer(a.mem, "scratch", size) :
             IF ~s.ok THEN o = s ELSE o \in internal_exr_apply(s.mem, size, n)
      BY <1>1, <1>6
    <2>2. Sound(a.mem) /\ Touches(mem, a.mem, {"compressed"})
          /\ Enough(a.mem, "compressed", size + 1)
      BY <1>3, <1>6 DEF Result
    <2>3. Result(a.mem, s, {"scratch"})
      BY <1>2, <2>2, EncodeAlloc
    <2>4. Result(mem, s, B)
      BY <2>2, <2>3, ResultAfter
    <2>5. CASE ~s.ok
      <3>1. o = s
        BY <2>1, <2>5
      <3> HIDE DEF B
      <3>2. QED
        BY <2>4, <2>5, <3>1, Zenon DEF B
    <2>6. CASE s.ok
      <3>1. o \in internal_exr_apply(s.mem, size, n)
        BY <2>1, <2>6
      <3>2. Sound(s.mem) /\ Touches(mem, s.mem, B)
        BY <2>4 DEF Result
      <3>3. Enough(s.mem, "compressed", n)
        <4>1. s.mem.buf["compressed"] = a.mem.buf["compressed"]
          BY <2>3 DEF Result, Touches, KeepsApp, Buffers
        <4>2. Owns(a.mem, "compressed") /\ a.mem.buf["compressed"].size >= size + 1
          BY <1>2, <2>2 DEF Enough
        <4>3. a.mem.buf["compressed"].size \in Nat
          BY <1>2, <2>2 DEF Sound, MemT, BufferT
        <4>4. a.mem.buf["compressed"].size >= n
          BY <1>2, <4>2, <4>3
        <4>5. QED
          BY <4>1, <4>2, <4>4 DEF Enough, Owns
      <3>4. Get(s.mem, "packed") = data
        <4>1. mem.buf["packed"].ptr[1] \notin B /\ "packed" \notin B
          BY <1>2 DEF Sound, Tagged, Original
        <4> HIDE DEF B
        <4>2. Holds(s.mem, owners, "packed", size, data)
          BY <1>2, <3>2, <4>1, HoldsKept
        <4>3. size > 0
          BY <1>2
        <4>4. QED
          BY <4>2, <4>3, HoldsGet
      <3>5. \/ o = Bad(s.mem)
            \/ \E x \in Compressed(data, size, n) : o = Good(Put(s.mem, "compressed", n, x))
        BY <3>1, <3>4 DEF internal_exr_apply
      <3>6. CASE o = Bad(s.mem)
        <4>1. o.mem = s.mem /\ o.ok = FALSE
          BY <3>6 DEF Bad
        <4> HIDE DEF B
        <4>2. QED
          BY <3>2, <4>1, Zenon DEF Result, B
      <3>7. CASE \E x \in Compressed(data, size, n) : o = Good(Put(s.mem, "compressed", n, x))
        <4>1. PICK x \in Compressed(data, size, n) : o = Good(Put(s.mem, "compressed", n, x))
          BY <3>7
        <4>2. x \in TokenT
          BY CompressedToken
        <4>3. o.mem = Put(s.mem, "compressed", n, x) /\ o.ok = TRUE
          BY <4>1 DEF Good
        <4>4. /\ Sound(o.mem) /\ Touches(s.mem, o.mem, {"compressed"})
              /\ Holds(o.mem, {"pipeline"}, "compressed", n, x)
          BY <1>2, <3>2, <3>3, <4>2, <4>3, PutOwned
        <4>5. Result(s.mem, o, {"compressed"})
          BY <4>3, <4>4 DEF Result
        <4>6. Result(mem, o, B)
          BY <3>2, <4>5, ResultAfter
        <4>7. CompressedTo(o.mem, data, size, n)
          BY <4>4 DEF CompressedTo
        <4> HIDE DEF B
        <4>8. QED
          BY <4>6, <4>7, Zenon DEF B
      <3>8. QED
        BY <3>5, <3>6, <3>7
    <2>7. QED
      BY <2>5, <2>6
  <1>7. QED
    BY <1>5, <1>6

\* What is written of a chunk: in the form that the reader takes it for.
Right(n, data) ==
    ~(part.codec \in {"b44", "ht"} /\ n = Raw) =>
        data = Token("pixels", e.chunk, IF n = Raw THEN "plain" ELSE "coded")

LEMMA CompressedRight ==
    ASSUME Coded, PartOK, NEW n \in 1 .. Raw, Raw \in Nat,
           NEW x \in Compressed(Token("pixels", e.chunk, "plain"), Raw, n)
    PROVE  Right(n, x)
  <1>1. CASE n < Raw
    <2>1. n # Raw
      BY <1>1
    <2>2. x = [Token("pixels", e.chunk, "plain") EXCEPT !.form = "coded"]
      BY <1>1, <2>1 DEF Compressed
    <2>3. QED
      BY <2>1, <2>2 DEF Right, Token
  <1>2. CASE n = Raw
    <2>1. CASE part.codec = "zip"
      <3>1. x = Token("pixels", e.chunk, "plain")
        BY <1>2, <2>1 DEF Compressed
      <3>2. QED
        BY <1>2, <3>1 DEF Right
    <2>2. CASE part.codec # "zip"
      BY <1>2, <2>2 DEF Right, PartOK, Codecs, Coded
    <2>3. QED
      BY <2>1, <2>2
  <1>3. QED
    BY <1>1, <1>2

\* Without compression the packed buffer is written.
LEMMA UncompressedSound ==
    ASSUME IInv, e.at = "compress", NEW nm, nm = Uncompressed
    PROVE  /\ Sound(nm) /\ KeepsApp(m, nm)
           /\ \A b \in {"unpacked", "table", "packedTable"} : nm.buf[b] = Nobody
           /\ Raw > 0 => Get(nm, "compressed") = Token("pixels", e.chunk, "plain")
  <1>1. PICK f1 : f1 = FreeBuffer(m, "compressed")
    OBVIOUS
  <1>2. PICK f2 : f2 = FreeBuffer(f1, "packedTable")
    OBVIOUS
  <1>3. nm = PointTo(f2, "compressed", "packed")
    BY <1>1, <1>2 DEF Uncompressed
  <1>4. /\ Sound(m) /\ \A b \in {"unpacked", "table", "packedTable"} : m.buf[b] = Nobody
        /\ Holds(m, {"pipeline"}, "packed", Raw, Token("pixels", e.chunk, "plain"))
    BY DEF IInv, Encoding
  <1>5. "compressed" \in Buffers /\ "packedTable" \in Buffers /\ "packed" \in Buffers
    BY DEF Buffers
  <1>6. Sound(f1) /\ Touches(m, f1, {"compressed"}) /\ f1.buf["compressed"] = Nobody
    BY <1>1, <1>4, <1>5, FreeSound
  <1>7. Sound(f2) /\ Touches(f1, f2, {"packedTable"}) /\ f2.buf["packedTable"] = Nobody
    BY <1>2, <1>5, <1>6, FreeSound
  <1>8. f2.buf["compressed"] = Nobody /\ ~Owns(f2, "compressed")
    BY <1>5, <1>6, <1>7 DEF Touches, KeepsApp, Owns, Nobody
  <1>9. "packed" = Original("compressed") /\ "packed" = Original("packed")
    BY DEF Original
  <1>10. /\ Sound(nm) /\ Touches(f2, nm, {"compressed"}) /\ nm.heap = f2.heap
         /\ nm.buf["compressed"] = [ptr |-> f2.buf["packed"].ptr, size |-> 0]
    BY <1>3, <1>5, <1>7, <1>8, <1>9, PointToSound, SMTT(20)
  <1>11. KeepsApp(m, nm)
    BY <1>6, <1>7, <1>10, TouchesKeepsApp, KeepsAppTwice
  <1>12. \A b \in {"unpacked", "table", "packedTable"} : nm.buf[b] = Nobody
    BY <1>4, <1>6, <1>7, <1>10 DEF Touches, KeepsApp, Buffers
  <1>13. ASSUME Raw > 0 PROVE Get(nm, "compressed") = Token("pixels", e.chunk, "plain")
    <2>1. m.buf["packed"].ptr[1] \in {"none", "packed"}
      BY <1>4, <1>5 DEF Sound, Tagged, Original
    <2>2. Touches(m, f2, {"compressed", "packedTable"})
      <3>1. Touches(m, f2, {"compressed"} \cup {"packedTable"})
        BY <1>6, <1>7, TouchesTwice
      <3>2. {"compressed"} \cup {"packedTable"} = {"compressed", "packedTable"}
        OBVIOUS
      <3>3. QED
        BY <3>1, <3>2
    <2>3. Holds(f2, {"pipeline"}, "packed", Raw, Token("pixels", e.chunk, "plain"))
      BY <1>4, <1>5, <2>1, <2>2, HoldsKept
    <2>4. QED
      BY <1>10, <1>13, <2>3 DEF Holds, Get, Live
  <1>14. QED
    BY <1>10, <1>11, <1>12, <1>13

\* A chunk is ready to be written.
LEMMA CompressGoes ==
    ASSUME IInv, Encode, e.at = "compress", UNCHANGED partVars, Sound(m'),
           \A b \in {"unpacked", "table", "packedTable"} : m'.buf[b] = Nobody,
           NEW n \in Nat, n <= Raw, Raw > 0 => n > 0 /\ Right(n, Get(m', "compressed")),
           ~Coded => n = Raw,
           e' = [e EXCEPT !.at = "yield", !.compressedBytes = n]
    PROVE  IInv'
  <1>1. EncodeT /\ Encoding /\ FileOK' /\ part' = part /\ file' = file
    BY SameFile DEF IInv
  <1>2. /\ EncodeT' /\ e'.at = "yield" /\ e'.compressedBytes = n /\ e'.chunk = e.chunk
        /\ e'.user = e.user
    BY <1>1 DEF EncodeT
  <1>3. Raw' = Raw /\ Coded' = Coded
    BY <1>1, <1>2 DEF Raw, Coded
  <1>4. Raw > 0 /\ ~(part.codec \in {"b44", "ht"} /\ n = Raw) =>
           Get(m', "compressed") = Token("pixels", e.chunk, IF n = Raw THEN "plain" ELSE "coded")
    BY DEF Right
  <1>5. Encoding'
    BY <1>1, <1>2, <1>3, <1>4 DEF Encoding
  <1>6. QED
    BY <1>1, <1>2, <1>5, EncoderStep

LEMMA CompressStep ==
    ASSUME IInv, Encode, Compress
    PROVE  IInv' /\ KeepsApp(m, m')
  <1> DEFINE data == Token("pixels", e.chunk, "plain")
  <1>1. /\ e.at = "compress" /\ UNCHANGED partVars /\ Sound(m) /\ EncodeT /\ Encoding
        /\ e.chunk \in Chunks /\ PartOK /\ ~part.deep /\ e.packedBytes = Raw
        /\ Holds(m, {"pipeline"}, "packed", Raw, data)
    BY DEF Compress, EncodeStage, IInv, Encoding
  <1>2. Raw \in Nat /\ data \in TokenT
    BY <1>1, PlainToken DEF Raw, PartOK
  <1>3. /\ part' = part /\ Sound(m)
        /\ \A b \in {"unpacked", "table", "packedTable"} : m.buf[b] = Nobody
    BY <1>1 DEF partVars, Encoding
  <1>4. CASE Coded /\ e.packedBytes > 0
    <2>0. PICK n \in 1 .. Raw :
             EncodeStage("compress", exr_compress_chunk(m, Raw, n),
                         [e EXCEPT !.at = "yield", !.compressedBytes = n])
      BY <1>1, <1>4 DEF Compress
    <2>1. PICK o \in exr_compress_chunk(m, Raw, n) :
             /\ m' = o.mem
             /\ e' = IF o.ok THEN [e EXCEPT !.at = "yield", !.compressedBytes = n]
                     ELSE [e EXCEPT !.at = "ready", !.fails = @ + 1]
      BY <2>0, Zenon DEF EncodeStage
    <2>2. /\ Result(m, o, {"compressed", "scratch"})
          /\ o.ok => CompressedTo(o.mem, data, Raw, n)
      <3>1. Raw \in Nat \ {0}
        BY <1>1, <1>2, <1>4
      <3> HIDE DEF data
      <3>2. QED
        BY <1>1, <1>2, <3>1, CompressChunk
    <2>3. /\ Sound(m') /\ KeepsApp(m, m')
          /\ \A b \in {"unpacked", "table", "packedTable"} : m'.buf[b] = Nobody
      <3>1. Sound(o.mem) /\ Touches(m, o.mem, {"compressed", "scratch"})
        BY <2>2, Zenon DEF Result
      <3>2. \A b \in {"unpacked", "table", "packedTable"} : o.mem.buf[b] = m.buf[b]
        BY <3>1 DEF Touches, KeepsApp, Buffers
      <3>3. QED
        BY <1>3, <2>1, <3>1, <3>2, TouchesKeepsApp
    <2>4. CASE ~o.ok
      <3>1. e' = [e EXCEPT !.at = "ready", !.fails = @ + 1]
        BY <2>1, <2>4
      <3>2. EncodeT' /\ Encoding' /\ e'.at # "none"
        BY <1>1, <1>3, <2>3, <3>1, EncodeFails
      <3>3. FileOK'
        BY <1>1, SameFile
      <3>4. QED
        BY <1>3, <2>3, <3>2, <3>3, EncoderStep
    <2>5. CASE o.ok
      <3>1. e' = [e EXCEPT !.at = "yield", !.compressedBytes = n]
        BY <2>1, <2>5
      <3>2. PICK x \in Compressed(data, Raw, n) : Holds(o.mem, {"pipeline"}, "compressed", n, x)
        BY <2>2, <2>5 DEF CompressedTo
      <3>3. Right(n, x)
        BY <1>1, <1>2, <1>4, CompressedRight
      <3>4. n \in Nat /\ n > 0 /\ n <= Raw
        BY <1>2
      <3>5. Get(m', "compressed") = x
        BY <2>1, <3>2, <3>4 DEF Holds, Get, Live
      <3>6. QED
        BY <1>1, <1>4, <2>3, <3>1, <3>3, <3>4, <3>5, CompressGoes
    <2>6. QED
      BY <2>4, <2>5
  <1>5. CASE ~(Coded /\ e.packedBytes > 0)
    <2>1. m' = Uncompressed /\ e' = [e EXCEPT !.at = "yield", !.compressedBytes = Raw]
      <3>1. EncodeStage("compress", {Good(Uncompressed)},
                        [e EXCEPT !.at = "yield", !.compressedBytes = e.packedBytes])
        BY <1>5 DEF Compress
      <3>2. PICK o \in {Good(Uncompressed)} :
               /\ m' = o.mem
               /\ e' = IF o.ok THEN [e EXCEPT !.at = "yield", !.compressedBytes = e.packedBytes]
                       ELSE [e EXCEPT !.at = "ready", !.fails = @ + 1]
        BY <3>1, Zenon DEF EncodeStage
      <3>3. o.mem = Uncompressed /\ o.ok = TRUE
        BY DEF Good
      <3>4. QED
        BY <1>1, <3>2, <3>3
    <2>2. /\ Sound(m') /\ KeepsApp(m, m')
          /\ \A b \in {"unpacked", "table", "packedTable"} : m'.buf[b] = Nobody
          /\ Raw > 0 => Get(m', "compressed") = data
      BY <1>1, <2>1, UncompressedSound
    <2>3. Raw > 0 => Raw > 0 /\ Right(Raw, Get(m', "compressed"))
      BY <2>2 DEF Right
    <2>4. IInv'
      <3>1. PICK n \in Nat : n = Raw
        BY <1>2
      <3>2. /\ n <= Raw /\ (Raw > 0 => n > 0 /\ Right(n, Get(m', "compressed")))
            /\ (~Coded => n = Raw) /\ e' = [e EXCEPT !.at = "yield", !.compressedBytes = n]
        BY <2>1, <2>3, <3>1
      <3>3. QED
        BY <1>1, <2>2, <3>2, CompressGoes
    <2>5. QED
      BY <2>2, <2>4
  <1>6. QED
    BY <1>4, <1>5

LEMMA YieldStep ==
    ASSUME IInv, Encode, default_yield
    PROVE  IInv' /\ KeepsApp(m, m')
  <1>1. /\ e.at = "yield" /\ UNCHANGED partVars /\ Sound(m) /\ EncodeT /\ Encoding /\ m' = m
        /\ \/ e' = [e EXCEPT !.at = "write"]
           \/ e' = [e EXCEPT !.at = "ready", !.fails = @ + 1]
    BY DEF default_yield, EncodeStage, IInv, Good, Bad
  <1>2. FileOK' /\ part' = part /\ file' = file /\ KeepsApp(m, m')
    BY <1>1, SameFile DEF KeepsApp
  <1>3. CASE e' = [e EXCEPT !.at = "ready", !.fails = @ + 1]
    <2>1. \A b \in {"unpacked", "table", "packedTable"} : m'.buf[b] = Nobody
      BY <1>1 DEF Encoding
    <2>2. EncodeT' /\ Encoding' /\ e'.at # "none"
      BY <1>1, <1>2, <1>3, <2>1, EncodeFails
    <2>3. QED
      BY <1>1, <1>2, <2>2, EncoderStep
  <1>4. CASE e' = [e EXCEPT !.at = "write"]
    <2>1. /\ EncodeT' /\ e'.at = "write" /\ e'.compressedBytes = e.compressedBytes
          /\ e'.chunk = e.chunk /\ e'.user = e.user
      BY <1>1, <1>4 DEF EncodeT
    <2>2. Raw' = Raw /\ Coded' = Coded
      BY <1>2, <2>1 DEF Raw, Coded
    <2>3. Encoding'
      BY <1>1, <1>2, <2>1, <2>2 DEF Encoding
    <2>4. QED
      BY <1>1, <1>2, <2>1, <2>3, EncoderStep
  <1>5. QED
    BY <1>1, <1>3, <1>4

\* A chunk of a flat part is stored.
LEMMA ChunkWritten ==
    ASSUME FileOK, PartOK, ~part.deep, UNCHANGED part, NEW c \in Chunks, NEW n \in Nat,
           NEW data \in TokenT, NEW user \in {"application", "compressor"},
           part.raw[c] > 0 => n > 0, part.codec = "none" => n = part.raw[c],
           part.raw[c] > 0 /\ ~(user = "application" /\ part.codec \in {"b44", "ht"}
                                /\ n = part.raw[c]) =>
              data = Token("pixels", c, IF n = part.raw[c] THEN "plain" ELSE "coded"),
           file' = [file EXCEPT ![c] = FlatChunk(c, n, data, user)]
    PROVE  FileOK'
  <1> DEFINE s == FlatChunk(c, n, data, user)
  <1>1. /\ s.area = 1 /\ s.table = 0 /\ s.packed = n /\ s.unpacked = part.raw[c]
        /\ s.pixels = data /\ s.by = user /\ s.counts = Junk /\ s \in ChunkT
    <2>1. part.raw[c] \in Nat
      BY DEF PartOK
    <2>2. QED
      BY <2>1, JunkToken DEF FlatChunk, Missing, ChunkT
  <1> HIDE DEF s
  <1>2. WellStored(part, c, s)
    <2>1. Odd(part, s) <=> user = "application" /\ part.codec \in {"b44", "ht"}
                           /\ n = part.raw[c]
      BY <1>1 DEF Odd
    <2>2. QED
      BY <1>1, <2>1 DEF WellStored
  <1>3. /\ file' \in [Chunks -> ChunkT] /\ file'[c] = s
        /\ \A x \in Chunks : x # c => file'[x] = file[x]
    BY <1>1 DEF FileOK, s
  <1>4. QED
    BY <1>2, <1>3 DEF FileOK

LEMMA WriteStep ==
    ASSUME IInv, Encode, default_write_chunk
    PROVE  IInv' /\ KeepsApp(m, m')
  <1> DEFINE data == IF e.compressedBytes = 0 THEN Junk ELSE Get(m, "compressed")
  <1>1. /\ e.at = "write" /\ UNCHANGED part /\ Sound(m) /\ EncodeT /\ Encoding /\ m' = m
        /\ FileOK /\ PartOK
        /\ \/ e' = [e EXCEPT !.at = "ready"]
           \/ e' = [e EXCEPT !.at = "ready", !.fails = @ + 1]
        /\ file' = IF e'.fails > e.fails THEN file
                   ELSE [file EXCEPT ![e.chunk] =
                           FlatChunk(e.chunk, e.compressedBytes, data, "application")]
    BY DEF default_write_chunk, EncodeStage, IInv, Good, Bad
  <1>2. e.fails \in Nat /\ e.compressedBytes \in Nat
    BY <1>1 DEF EncodeT
  <1>3. \A b \in {"unpacked", "table", "packedTable"} : m'.buf[b] = Nobody
    BY <1>1 DEF Encoding
  <1>4. KeepsApp(m, m')
    BY <1>1 DEF KeepsApp
  <1>5. CASE e' = [e EXCEPT !.at = "ready", !.fails = @ + 1]
    <2>1. EncodeT' /\ Encoding' /\ e'.at # "none"
      BY <1>1, <1>3, <1>5, EncodeFails
    <2>2. e'.fails > e.fails
      BY <1>1, <1>2, <1>5 DEF EncodeT
    <2>3. FileOK'
      BY <1>1, <2>2, SameFile DEF partVars
    <2>4. QED
      BY <1>1, <1>4, <2>1, <2>3, EncoderStep
  <1>6. CASE e' = [e EXCEPT !.at = "ready"]
    <2>1. /\ EncodeT' /\ e'.at = "ready" /\ e'.chunk = e.chunk /\ e'.user = e.user
          /\ e'.fails = e.fails
      BY <1>1, <1>6 DEF EncodeT
    <2>2. Encoding'
      BY <1>1, <1>3, <2>1 DEF Encoding
    <2>3. file' = [file EXCEPT ![e.chunk] =
                      FlatChunk(e.chunk, e.compressedBytes, data, "application")]
      BY <1>1, <1>2, <2>1
    <2>4. /\ e.chunk \in Chunks /\ ~part.deep /\ (Raw > 0 => e.compressedBytes > 0)
          /\ ~Coded => e.compressedBytes = Raw
          /\ Raw > 0 /\ ~(part.codec \in {"b44", "ht"} /\ e.compressedBytes = Raw) =>
                Get(m, "compressed") =
                   Token("pixels", e.chunk, IF e.compressedBytes = Raw THEN "plain" ELSE "coded")
      BY <1>1 DEF Encoding
    <2>5. data \in TokenT
      BY <1>1, JunkToken, GetToken DEF Buffers
    <2>6. Raw > 0 /\ ~(part.codec \in {"b44", "ht"} /\ e.compressedBytes = Raw) =>
             data = Token("pixels", e.chunk, IF e.compressedBytes = Raw THEN "plain" ELSE "coded")
      BY <1>2, <2>4
    <2> HIDE DEF data
    <2>7. FileOK'
      BY <1>1, <1>2, <2>3, <2>4, <2>5, <2>6, ChunkWritten DEF Raw, Coded
    <2>8. QED
      BY <1>1, <1>4, <2>1, <2>2, <2>7, EncoderStep
  <1>7. QED
    BY <1>1, <1>5, <1>6

LEMMA EncodeInitializeStep ==
    ASSUME IInv, Encode, NEW c \in Chunks, exr_encoding_initialize(c)
    PROVE  IInv' /\ KeepsApp(m, m')
  <1>1. /\ e.at = "none" /\ UNCHANGED <<partVars, m>> /\ Sound(m) /\ ~part.deep
        /\ e' = [Idle EXCEPT !.at = "ready", !.chunk = c, !.user = "application"]
    BY DEF exr_encoding_initialize, Encode, IInv
  <1>2. /\ EncodeT' /\ e'.at = "ready" /\ e'.chunk = c /\ e'.user = "application"
    BY <1>1 DEF Idle, EncodeT
  <1>3. FileOK' /\ part' = part /\ KeepsApp(m, m')
    BY <1>1, SameFile DEF KeepsApp
  <1>4. \A b \in Buffers : m.buf[b] = Nobody
    BY <1>1 DEF IInv, Encode, Phases
  <1>5. Encoding'
    BY <1>1, <1>2, <1>3, <1>4 DEF Encoding, Buffers
  <1>6. QED
    BY <1>1, <1>2, <1>3, <1>5, EncoderStep

\* The buffer that was compressed to, if it was an alias, is forgotten.
LEMMA UpdatedSound ==
    ASSUME NEW mem, Sound(mem), NEW nm, nm = Updated(mem)
    PROVE  Sound(nm) /\ Touches(mem, nm, {"compressed"}) /\ nm.heap = mem.heap
  <1>1. "compressed" \in Buffers /\ "packed" \in Buffers
    BY DEF Buffers
  <1>2. CASE mem.buf["packed"].ptr = mem.buf["compressed"].ptr
    <2>1. Owns(mem, "compressed") => mem.buf["compressed"].ptr[1] = "compressed"
      BY <1>1, OwnedRoom
    <2>2. mem.buf["packed"].ptr[1] \in {"none", "packed"}
      BY <1>1 DEF Sound, Tagged, Original
    <2>3. ~Owns(mem, "compressed")
      BY <1>2, <2>1, <2>2
    <2>4. nm = Forget(mem, "compressed")
      BY <1>2 DEF Updated
    <2>5. PICK b \in Buffers : b = "compressed"
      BY <1>1
    <2>6. ~Owns(mem, b) /\ nm = Forget(mem, b)
      BY <2>3, <2>4, <2>5
    <2>7. Sound(nm) /\ Touches(mem, nm, {b}) /\ nm.heap = mem.heap
      BY <2>6, ForgetSound, ZenonT(40)
    <2>8. QED
      BY <2>5, <2>7
  <1>3. CASE mem.buf["packed"].ptr # mem.buf["compressed"].ptr
    <2>1. nm = mem
      BY <1>3 DEF Updated
    <2>2. QED
      BY <2>1 DEF Touches, KeepsApp
  <1>4. QED
    BY <1>2, <1>3

LEMMA EncodeUpdateStep ==
    ASSUME IInv, Encode, NEW c \in Chunks, exr_encoding_update(c)
    PROVE  IInv' /\ KeepsApp(m, m')
  <1>1. /\ e.at = "ready" /\ e.user = "application" /\ UNCHANGED partVars /\ Sound(m)
        /\ EncodeT /\ Encoding /\ m' = Updated(m)
        /\ e' = [e EXCEPT !.chunk = c, !.packedBytes = 0, !.compressedBytes = 0]
    BY DEF exr_encoding_update, IInv
  <1>2. EncodeT' /\ e'.at = "ready" /\ e'.chunk = c /\ e'.user = "application"
    BY <1>1 DEF EncodeT
  <1>3. FileOK' /\ part' = part
    BY <1>1, SameFile
  <1>4. Sound(m') /\ Touches(m, m', {"compressed"})
    BY <1>1, UpdatedSound
  <1>5. \A b \in {"unpacked", "table", "packedTable"} : m'.buf[b] = Nobody
    BY <1>1, <1>4 DEF Touches, KeepsApp, Encoding, Buffers
  <1>6. Encoding'
    BY <1>1, <1>2, <1>3, <1>5 DEF Encoding
  <1>7. QED
    BY <1>2, <1>3, <1>4, <1>6, EncoderStep, TouchesKeepsApp

LEMMA EncodeRunStep ==
    ASSUME IInv, Encode, exr_encoding_run
    PROVE  IInv' /\ KeepsApp(m, m')
  <1>1. /\ e.at = "ready" /\ e.user = "application" /\ UNCHANGED <<partVars, m>> /\ Sound(m)
        /\ EncodeT /\ Encoding /\ e' = [e EXCEPT !.at = "pack", !.packedBytes = 0]
    BY DEF exr_encoding_run, IInv
  <1>2. EncodeT' /\ e'.at = "pack" /\ e'.chunk = e.chunk /\ e'.user = "application"
    BY <1>1 DEF EncodeT
  <1>3. FileOK' /\ part' = part /\ KeepsApp(m, m')
    BY <1>1, SameFile DEF KeepsApp
  <1>4. Encoding'
    BY <1>1, <1>2, <1>3 DEF Encoding
  <1>5. QED
    BY <1>1, <1>2, <1>3, <1>4, EncoderStep

LEMMA EncodeDestroyStep ==
    ASSUME IInv, Encode, exr_encoding_destroy
    PROVE  IInv' /\ KeepsApp(m, m')
  <1>1. PICK f1 : f1 = FreeBuffer(m, "packed")
    OBVIOUS
  <1>2. PICK f2 : f2 = FreeBuffer(f1, "compressed")
    OBVIOUS
  <1>3. PICK f3 : f3 = FreeBuffer(f2, "scratch")
    OBVIOUS
  <1>4. m' = FreeBuffer(f3, "packedTable")
    BY <1>1, <1>2, <1>3 DEF exr_encoding_destroy
  <1>5. /\ e.at = "ready" /\ UNCHANGED partVars /\ Sound(m) /\ Encoding /\ e' = Idle
    BY DEF exr_encoding_destroy, IInv
  <1>6. /\ "packed" \in Buffers /\ "compressed" \in Buffers /\ "scratch" \in Buffers
        /\ "packedTable" \in Buffers /\ "unpacked" \in Buffers /\ "table" \in Buffers
    BY DEF Buffers
  <1>7. KeepsApp(m, m)
    BY DEF KeepsApp
  <1>8. Sound(f1) /\ KeepsApp(m, f1) /\ Freed(m, f1, "packed")
    BY <1>1, <1>5, <1>6, <1>7, FreeNext
  <1>9. Sound(f2) /\ KeepsApp(m, f2) /\ Freed(f1, f2, "compressed")
    BY <1>2, <1>6, <1>8, FreeNext
  <1>10. Sound(f3) /\ KeepsApp(m, f3) /\ Freed(f2, f3, "scratch")
    BY <1>3, <1>6, <1>9, FreeNext
  <1>11. Sound(m') /\ KeepsApp(m, m') /\ Freed(f3, m', "packedTable")
    BY <1>4, <1>6, <1>10, FreeNext
  <1>12. \A b \in Buffers : m'.buf[b] = Nobody
    BY <1>5, <1>6, <1>8, <1>9, <1>10, <1>11 DEF Freed, Buffers, Encoding
  <1>13. FileOK' /\ part' = part
    BY <1>5, SameFile
  <1>14. EncodeT' /\ e'.at = "none"
    BY <1>5 DEF EncodeT, Idle
  <1>15. Encoding'
    BY <1>14 DEF Encoding
  <1>16. QED
    BY <1>11, <1>12, <1>13, <1>14, <1>15, EncoderStep

\* Memory of the caller at an address that is free, as the packed buffer.
LentTo(mem, nm, p, size, data) ==
    /\ p = Address("packed", DOMAIN mem.heap)
    /\ nm = [mem EXCEPT !.heap = WithBlock(@, p, Block("application", size, data)),
                        !.buf["packed"].ptr = p]

LentAt(mem, nm, p) == /\ p \notin DOMAIN mem.heap /\ p \in DOMAIN nm.heap
                      /\ nm.heap[p].own = "application" /\ nm.buf["packed"].size = 0

LEMMA LentSound ==
    ASSUME NEW mem, Sound(mem), ~Owns(mem, "packed"), mem.buf["packed"].size = 0,
           NEW size \in Nat, NEW data \in TokenT,
           NEW p, NEW nm, LentTo(mem, nm, p, size, data)
    PROVE  /\ Sound(nm) /\ Touches(mem, nm, {"packed"})
           /\ Holds(nm, {"application"}, "packed", size, data) /\ LentAt(mem, nm, p)
  <1> DEFINE new == Block("application", size, data)
             heap == [q \in DOMAIN mem.heap \cup {p} |-> IF q = p THEN new ELSE mem.heap[q]]
             buf == [mem.buf["packed"] EXCEPT !.ptr = p]
  <1>1. /\ mem \in MemT /\ ~mem.fault /\ DOMAIN mem.heap \subseteq Addr
        /\ IsFiniteSet(DOMAIN mem.heap) /\ mem.heap \in [DOMAIN mem.heap -> BlockT]
        /\ mem.buf \in [Buffers -> BufferT] /\ "packed" \in Buffers
    BY HeapsOpen DEF Sound, MemT, Buffers
  <1>2. p \in Addr /\ p \notin DOMAIN mem.heap /\ p[1] = "packed"
    BY <1>1, AddressNew DEF LentTo
  <1>3. new \in BlockT /\ new.own = "application" /\ new.size = size /\ new.data = data
    BY DEF Block, BlockT
  <1> HIDE DEF new
  <1>4. /\ DOMAIN heap = DOMAIN mem.heap \cup {p} /\ heap[p] = new
        /\ heap \in [DOMAIN heap -> BlockT]
        /\ \A q \in DOMAIN mem.heap : heap[q] = mem.heap[q]
    BY <1>1, <1>2, <1>3
  <1>5. nm = [mem EXCEPT !.heap = heap, !.buf["packed"] = buf]
    BY <1>1 DEF WithBlock, MemT, new, LentTo
  <1> HIDE DEF heap
  <1>6. heap \in Heaps
    <2>1. DOMAIN heap \subseteq Addr /\ IsFiniteSet(DOMAIN heap)
      BY <1>1, <1>2, <1>4, FS_AddElement
    <2>2. QED
      BY <1>4, <2>1, HeapsOpen
  <1>7. buf \in BufferT /\ buf.ptr = p /\ buf.size = 0
    BY <1>1, <1>2 DEF BufferT
  <1> HIDE DEF buf
  <1>8. /\ nm \in MemT /\ nm.heap = heap /\ nm.fault = mem.fault
        /\ nm.buf = [mem.buf EXCEPT !["packed"] = buf]
    <2>1. /\ nm.heap = heap /\ nm.fault = mem.fault
          /\ nm.buf = [mem.buf EXCEPT !["packed"] = buf]
      BY <1>1, <1>5 DEF MemT
    <2>2. [mem.buf EXCEPT !["packed"] = buf] \in [Buffers -> BufferT]
      BY <1>1, <1>7
    <2>3. nm \in MemT
      BY <1>1, <1>5, <1>6, <2>1, <2>2 DEF MemT
    <2>4. QED
      BY <2>1, <2>3
  <1>9. /\ nm.buf["packed"] = buf /\ \A a \in Buffers : a # "packed" => nm.buf[a] = mem.buf[a]
    BY <1>1, <1>8
  <1>10. \A a \in Buffers : Owns(nm, a) <=> Owns(mem, a)
    BY <1>7, <1>9 DEF Owns
  <1>11. OwnedSound(nm)
    <2> SUFFICES ASSUME NEW a \in Buffers, Owns(nm, a)
                 PROVE  LET q == nm.buf[a].ptr IN
                        /\ q \in DOMAIN nm.heap /\ q[1] = a
                        /\ nm.heap[q].own = "pipeline" /\ nm.heap[q].size = nm.buf[a].size
      BY DEF OwnedSound
    <2>1. a # "packed" /\ Owns(mem, a)
      BY <1>10
    <2>2. LET q == mem.buf[a].ptr IN
          /\ q \in DOMAIN mem.heap /\ q[1] = a
          /\ mem.heap[q].own = "pipeline" /\ mem.heap[q].size = mem.buf[a].size
      BY <2>1 DEF Sound, OwnedSound
    <2>3. QED
      BY <1>4, <1>8, <1>9, <2>1, <2>2
  <1>12. NoLeak(nm)
    <2> SUFFICES ASSUME NEW q \in DOMAIN nm.heap, nm.heap[q].own = "pipeline"
                 PROVE  q[1] \in Buffers /\ Owns(nm, q[1]) /\ nm.buf[q[1]].ptr = q
      BY DEF NoLeak
    <2>1. q \in DOMAIN mem.heap /\ mem.heap[q].own = "pipeline"
      BY <1>3, <1>4, <1>8
    <2>2. q[1] \in Buffers /\ Owns(mem, q[1]) /\ mem.buf[q[1]].ptr = q
      BY <2>1 DEF Sound, NoLeak
    <2>3. QED
      BY <1>9, <1>10, <2>2
  <1>13. Tagged(nm)
    BY <1>2, <1>7, <1>9 DEF Sound, Tagged
  <1>14. Sound(nm)
    BY <1>1, <1>8, <1>11, <1>12, <1>13 DEF Sound
  <1>15. Touches(mem, nm, {"packed"})
    BY <1>4, <1>8, <1>9 DEF Touches, KeepsApp
  <1>16. Holds(nm, {"application"}, "packed", size, data)
    BY <1>3, <1>4, <1>7, <1>8, <1>9 DEF Holds
  <1>17. QED
    BY <1>2, <1>3, <1>4, <1>7, <1>8, <1>9, <1>14, <1>15, <1>16 DEF LentAt

LEMMA CompressorStep ==
    ASSUME IInv, Encode, NEW c \in Chunks, NEW n \in 0 .. part.raw[c], runEncodeStep(c, n)
    PROVE  IInv' /\ KeepsApp(m, m')
  <1> DEFINE size == part.raw[c]
             data == Token("pixels", c, "plain")
             B == {"compressed", "scratch"}
  <1>1. PICK m0 : m0 = IF e.at = "none" THEN m ELSE Updated(m)
    OBVIOUS
  <1>2. PICK p : p = Address("packed", DOMAIN m0.heap)
    OBVIOUS
  <1>3. PICK lent : lent = [m0 EXCEPT !.heap = WithBlock(@, p, Block("application", size, data)),
                                      !.buf["packed"].ptr = p]
    OBVIOUS
  <1>4. /\ Coded /\ UNCHANGED part /\ Sound(m) /\ EncodeT /\ Encoding /\ PartOK /\ FileOK
        /\ Phases /\ ~part.deep /\ d.at = "none"
        /\ e.at = "none" \/ (e.at = "ready" /\ e.user = "compressor")
        /\ n <= size /\ (n = 0 <=> size = 0)
    BY DEF runEncodeStep, IInv, Encode, Phases
  <1>5. IF size = 0
        THEN file' = [file EXCEPT ![c] = FlatChunk(c, 0, Junk, "compressor")] /\ UNCHANGED <<m, e>>
        ELSE \E o \in exr_compress_chunk(lent, size, n) :
               /\ m' = [IF o.ok THEN Forget(o.mem, "packed") ELSE o.mem
                        EXCEPT !.heap = Restrict(@, DOMAIN @ \ {p})]
               /\ e' = [Idle EXCEPT !.at = "ready", !.chunk = c, !.user = "compressor",
                                    !.fails = IF o.ok THEN e.fails ELSE e.fails + 1]
               /\ file' = IF ~o.ok THEN file
                          ELSE [file EXCEPT ![c] =
                                  FlatChunk(c, n, IF n < size THEN Get(o.mem, "compressed")
                                                  ELSE data, "compressor")]
    BY <1>1, <1>2, <1>3 DEF runEncodeStep
  <1>6. size \in Nat /\ data \in TokenT /\ n \in Nat /\ e.fails \in Nat
    BY <1>4, PlainToken DEF PartOK, EncodeT
  <1>7. \A b \in {"unpacked", "table", "packedTable"} : m.buf[b] = Nobody
    BY <1>4 DEF Phases, Encoding, Buffers
  <1>8. m.buf["packed"].size = 0
    BY <1>4 DEF Phases, Encoding, Buffers, Nobody
  <1> HIDE DEF data
  <1>9. CASE size = 0
    <2>1. n = 0 /\ file' = [file EXCEPT ![c] = FlatChunk(c, n, Junk, "compressor")]
          /\ UNCHANGED <<m, e>>
      BY <1>4, <1>5, <1>9
    <2>2. FileOK'
      <3>1. PICK user \in {"application", "compressor"} : user = "compressor"
        OBVIOUS
      <3>2. /\ ~(part.raw[c] > 0) /\ n = part.raw[c] /\ n \in Nat
            /\ file' = [file EXCEPT ![c] = FlatChunk(c, n, Junk, user)]
        BY <1>6, <1>9, <2>1, <3>1
      <3>3. QED
        BY <1>4, <3>2, JunkToken, ChunkWritten, Zenon
    <2>3. EncodeT'
      BY <1>4, <2>1 DEF EncodeT
    <2>4. Encoding'
      <3>1. e.at = "none" \/ (e.at = "ready" /\ e.user = "compressor")
        BY <1>4
      <3>2. QED
        BY <1>4, <2>1, <3>1 DEF Encoding
    <2>5. e'.at = "none" => \A b \in Buffers : m'.buf[b] = Nobody
      BY <1>4, <2>1 DEF Phases
    <2>6. KeepsApp(m, m')
      BY <2>1 DEF KeepsApp
    <2>7. QED
      BY <1>4, <2>1, <2>2, <2>3, <2>4, <2>5, <2>6, EncoderStep
  <1>10. CASE size # 0
    <2>1. PICK o \in exr_compress_chunk(lent, size, n) :
               /\ m' = [IF o.ok THEN Forget(o.mem, "packed") ELSE o.mem
                        EXCEPT !.heap = Restrict(@, DOMAIN @ \ {p})]
               /\ e' = [Idle EXCEPT !.at = "ready", !.chunk = c, !.user = "compressor",
                                    !.fails = IF o.ok THEN e.fails ELSE e.fails + 1]
               /\ file' = IF ~o.ok THEN file
                          ELSE [file EXCEPT ![c] =
                                  FlatChunk(c, n, IF n < size THEN Get(o.mem, "compressed")
                                                  ELSE data, "compressor")]
      BY <1>5, <1>10
    <2>2. size \in Nat \ {0} /\ n \in 1 .. size /\ n > 0
      BY <1>4, <1>6, <1>10
    <2>3. Sound(m0) /\ Touches(m, m0, {"compressed"}) /\ m0.heap = m.heap
      <3>1. CASE e.at = "none"
        BY <1>1, <1>4, <3>1 DEF Touches, KeepsApp
      <3>2. CASE e.at # "none"
        <4>1. m0 = Updated(m)
          BY <1>1, <3>2
        <4>2. QED
          BY <1>4, <4>1, UpdatedSound
      <3>3. QED
        BY <3>1, <3>2
    <2>4. m0.buf["packed"].size = 0 /\ ~Owns(m0, "packed")
      BY <1>8, <2>3 DEF Touches, KeepsApp, Buffers, Owns
    <2>5. /\ Sound(lent) /\ Touches(m0, lent, {"packed"})
          /\ Holds(lent, {"application"}, "packed", size, data)
          /\ p \notin DOMAIN m0.heap /\ p \in DOMAIN lent.heap
          /\ lent.heap[p].own = "application" /\ lent.buf["packed"].size = 0
      <3>1. LentTo(m0, lent, p, size, data)
        BY <1>2, <1>3 DEF LentTo, data
      <3> HIDE DEF size
      <3>2. /\ Sound(lent) /\ Touches(m0, lent, {"packed"})
            /\ Holds(lent, {"application"}, "packed", size, data) /\ LentAt(m0, lent, p)
        BY <1>6, <2>3, <2>4, <3>1, LentSound, Zenon
      <3>3. QED
        BY <3>2 DEF LentAt
    <2>6. /\ Result(lent, o, B)
          /\ o.ok => CompressedTo(o.mem, data, size, n)
      BY <1>6, <2>2, <2>5, CompressChunk
    <2>7. Sound(o.mem) /\ Touches(lent, o.mem, B) /\ o.ok \in BOOLEAN
      BY <2>6, Zenon DEF Result
    <2>8. /\ o.mem.buf["packed"] = lent.buf["packed"]
          /\ \A b \in {"unpacked", "table", "packedTable"} : o.mem.buf[b] = Nobody
      BY <1>7, <2>3, <2>5, <2>7 DEF Touches, KeepsApp, Buffers
    <2>9. PICK f : f = IF o.ok THEN Forget(o.mem, "packed") ELSE o.mem
      OBVIOUS
    <2>10. /\ Sound(f) /\ Touches(o.mem, f, {"packed"}) /\ f.heap = o.mem.heap
           /\ f.buf["packed"].size = 0
      <3>1. CASE o.ok
        <4>1. PICK b \in Buffers : b = "packed"
          BY DEF Buffers
        <4>2. f = Forget(o.mem, b) /\ ~Owns(o.mem, b) /\ o.mem.buf[b].size = 0
          BY <2>5, <2>8, <2>9, <3>1, <4>1 DEF Owns
        <4>3. /\ Sound(f) /\ Touches(o.mem, f, {b}) /\ f.heap = o.mem.heap
              /\ f.buf[b] = [ptr |-> Null, size |-> o.mem.buf[b].size]
          BY <2>7, <4>2, ForgetSound, ZenonT(40)
        <4>4. QED
          BY <4>1, <4>2, <4>3
      <3>2. CASE ~o.ok
        BY <2>5, <2>7, <2>8, <2>9, <3>2 DEF Touches, KeepsApp
      <3>3. QED
        BY <3>1, <3>2
    <2>11. p \in DOMAIN f.heap /\ f.heap[p].own = "application"
      BY <2>5, <2>7, <2>10 DEF Touches, KeepsApp
    <2>12. m' = [f EXCEPT !.heap = Restrict(@, DOMAIN @ \ {p})]
      BY <2>1, <2>9
    <2>13. Sound(m') /\ Gone(f, m', p)
      BY <2>10, <2>11, <2>12, BlockGone
    <2>14. KeepsApp(m, m')
      <3>1. KeepsApp(m, f)
        BY <2>3, <2>5, <2>7, <2>10, TouchesKeepsApp, KeepsAppTwice
      <3>2. p \notin DOMAIN m.heap
        BY <2>3, <2>5
      <3>3. QED
        BY <2>13, <3>1, <3>2 DEF KeepsApp, Gone
    <2>15. /\ m'.buf["packed"].size = 0
           /\ \A b \in {"unpacked", "table", "packedTable"} : m'.buf[b] = Nobody
      BY <2>8, <2>10, <2>13 DEF Gone, Touches, KeepsApp, Buffers
    <2>16. /\ EncodeT' /\ e'.at = "ready" /\ e'.chunk = c /\ e'.user = "compressor"
      <3>1. PICK k \in Nat : k = IF o.ok THEN e.fails ELSE e.fails + 1
        BY <1>6
      <3>2. e' = [Idle EXCEPT !.at = "ready", !.chunk = c, !.user = "compressor", !.fails = k]
        BY <2>1, <3>1
      <3>3. QED
        BY <3>2 DEF EncodeT, Idle
    <2>17. Encoding'
      BY <1>4, <2>15, <2>16 DEF Encoding
    <2>18. FileOK'
      <3>1. CASE ~o.ok
        BY <1>4, <2>1, <3>1, SameFile DEF partVars
      <3>2. CASE o.ok
        <4> DEFINE x == IF n < size THEN Get(o.mem, "compressed") ELSE data
        <4>1. file' = [file EXCEPT ![c] = FlatChunk(c, n, x, "compressor")]
          BY <2>1, <3>2
        <4>2. x \in TokenT
          BY <1>6, <2>7, GetToken DEF Buffers
        <4>3. x = Token("pixels", c, IF n = size THEN "plain" ELSE "coded")
          <5>1. CASE n < size
            <6>1. PICK y \in Compressed(data, size, n) :
                     Holds(o.mem, {"pipeline"}, "compressed", n, y)
              BY <2>6, <3>2 DEF CompressedTo
            <6>2. x = y /\ n # size
              BY <2>2, <5>1, <6>1, HoldsGet
            <6>3. y = [data EXCEPT !.form = "coded"]
              BY <6>1, <6>2 DEF Compressed
            <6>4. QED
              BY <6>2, <6>3 DEF data, Token
          <5>2. CASE ~(n < size)
            <6>1. n = size /\ x = data
              BY <1>4, <1>6, <5>2
            <6>2. QED
              BY <6>1 DEF data
          <5>3. QED
            BY <5>1, <5>2
        <4> HIDE DEF x
        <4>4. QED
          BY <1>4, <1>6, <2>2, <4>1, <4>2, <4>3, ChunkWritten DEF Coded
      <3>3. QED
        BY <3>1, <3>2
    <2>19. QED
      BY <1>4, <2>13, <2>14, <2>16, <2>17, <2>18, EncoderStep
  <1>11. QED
    BY <1>9, <1>10

\* Every step of the encoder.
LEMMA EncodeKeeps ==
    ASSUME IInv, Encode
    PROVE  IInv' /\ KeepsApp(m, m')
  <1>1. EncodeNext
    BY DEF Encode
  <1>2. CASE \E c \in Chunks : exr_encoding_initialize(c)
    BY <1>2, EncodeInitializeStep
  <1>3. CASE \E c \in Chunks : exr_encoding_update(c)
    BY <1>3, EncodeUpdateStep
  <1>4. CASE \E c \in Chunks : \E n \in 0 .. part.raw[c] : runEncodeStep(c, n)
    BY <1>4, CompressorStep
  <1>5. CASE exr_encoding_run
    BY <1>5, EncodeRunStep
  <1>6. CASE Pack
    BY <1>6, PackStep
  <1>7. CASE Compress
    BY <1>7, CompressStep
  <1>8. CASE default_yield
    BY <1>8, YieldStep
  <1>9. CASE default_write_chunk
    BY <1>9, WriteStep
  <1>10. CASE exr_encoding_destroy
    BY <1>10, EncodeDestroyStep
  <1>11. QED
    BY <1>1, <1>2, <1>3, <1>4, <1>5, <1>6, <1>7, <1>8, <1>9, <1>10 DEF EncodeNext

-----------------------------------------------------------------------------
(* The invariant.                                                           *)

\* Nothing is allocated and nobody works at the start.
LEMMA EmptySound == Sound(EmptyMemory) /\ \A b \in Buffers : EmptyMemory.buf[b] = Nobody
  <1> DEFINE mem == EmptyMemory
  <1>1. /\ mem.heap = <<>> /\ mem.buf = [b \in Buffers |-> Nobody] /\ mem.fault = FALSE
        /\ mem = [heap |-> mem.heap, buf |-> mem.buf, fault |-> mem.fault]
    BY DEF EmptyMemory
  <1>2. Nobody \in BufferT /\ Nobody.size = 0 /\ Nobody.ptr[1] = "none"
    BY DEF Nobody, BufferT, Null
  <1>3. DOMAIN mem.heap = {}
    BY <1>1
  <1>4. mem.heap \in Heaps
    <2>1. IsFiniteSet({}) /\ mem.heap \in [DOMAIN mem.heap -> BlockT]
      BY <1>1, <1>3, FS_EmptySet
    <2>2. QED
      BY <1>3, <2>1, HeapsOpen
  <1>5. mem.buf \in [Buffers -> BufferT] /\ \A b \in Buffers : mem.buf[b] = Nobody
    BY <1>1, <1>2
  <1>6. \A b \in Buffers : ~Owns(mem, b)
    BY <1>2, <1>5 DEF Owns
  <1> HIDE DEF mem
  <1>7. mem \in MemT /\ ~mem.fault
    BY <1>1, <1>4, <1>5 DEF MemT
  <1>8. OwnedSound(mem) /\ NoLeak(mem) /\ Tagged(mem)
    BY <1>2, <1>3, <1>5, <1>6 DEF OwnedSound, NoLeak, Tagged
  <1>9. QED
    BY <1>5, <1>7, <1>8 DEF Sound, mem

LEMMA MissingT == Missing \in ChunkT
  BY JunkToken DEF Missing, ChunkT

\* A chunk of a deep part that comes from elsewhere.
LEMMA StoredWell ==
    ASSUME NEW pt, pt.deep = TRUE, pt.tiled \in BOOLEAN, NEW coded \in BOOLEAN,
           pt.codec = IF coded THEN "zip" ELSE "none",
           NEW c \in Chunks, NEW k, WellFormed(coded, pt.tiled, k), NEW s,
           s = Stored(c, coded, k[1], k[2], k[3], k[4])
    PROVE  s \in ChunkT /\ WellStored(pt, c, s)
  <1>1. /\ k[1] \in Nat /\ k[2] \in Nat /\ k[3] \in Nat /\ k[4] \in Nat
        /\ k[1] > 0 /\ (k[4] > 0 => k[3] > 0) /\ (~coded => k[3] = k[4])
    BY DEF WellFormed
  <1>2. /\ s.area = k[1] /\ s.table = k[2] /\ s.packed = k[3] /\ s.unpacked = k[4]
        /\ s.counts = Token("counts", c, IF coded /\ k[2] # k[1] THEN "coded" ELSE "plain")
        /\ s.pixels = Token("pixels", c, IF k[3] # k[4] THEN "coded" ELSE "plain")
        /\ s.by = "none"
    BY DEF Stored
  <1>3. s \in ChunkT
    <2>1. s.counts \in TokenT /\ s.pixels \in TokenT
      BY <1>2, ChunksAssumption DEF Token, TokenT, Forms
    <2>2. QED
      BY <1>1, <1>2, <2>1 DEF Stored, ChunkT
  <1>4. (pt.codec # "none" <=> coded) /\ ~Odd(pt, s)
    BY <1>2 DEF Odd
  <1>5. WellStored(pt, c, s)
    BY <1>1, <1>2, <1>4 DEF WellStored
  <1>6. QED
    BY <1>3, <1>5

LEMMA InitHolds ==
    ASSUME Init
    PROVE  IInv
  <1>1. m = EmptyMemory /\ e = Idle /\ d = Unused /\ out = Nothing
    BY DEF Init, EncodeInit, DecodeInit
  <1>2. Sound(m) /\ \A b \in Buffers : m.buf[b] = Nobody
    BY <1>1, EmptySound
  <1>3. EncodeT /\ e.at = "none"
    BY <1>1 DEF EncodeT, Idle
  <1>4. DecodeT /\ d.at = "none" /\ ~d.foreign
    BY <1>1, NothingT DEF DecodeT, PipelineT, Unused
  <1>5. Phases /\ Encoding /\ Decoding
    BY <1>2, <1>3, <1>4 DEF Phases, Encoding, Decoding
  <1>6. PartOK /\ FileOK
    <2>1. CASE /\ part \in [deep : {FALSE}, tiled : {FALSE}, codec : Codecs, raw : FlatParts]
               /\ file = [c \in Chunks |-> Missing]
      <3>1. PartOK
        BY <2>1, FlatPartsAssumption DEF PartOK
      <3>2. FileOK
        BY <2>1, MissingT DEF FileOK
      <3>3. QED
        BY <3>1, <3>2
    <2>2. CASE \E coded, tiled \in BOOLEAN : \E k \in DeepParts(coded, tiled) :
             /\ part = [deep |-> TRUE, tiled |-> tiled,
                        codec |-> IF coded THEN "zip" ELSE "none", raw |-> <<>>]
             /\ file = [c \in Chunks |-> Stored(c, coded, k[c][1], k[c][2], k[c][3], k[c][4])]
      <3>1. PICK coded \in BOOLEAN, tiled \in BOOLEAN : \E k \in DeepParts(coded, tiled) :
               /\ part = [deep |-> TRUE, tiled |-> tiled,
                          codec |-> IF coded THEN "zip" ELSE "none", raw |-> <<>>]
               /\ file = [c \in Chunks |-> Stored(c, coded, k[c][1], k[c][2], k[c][3], k[c][4])]
        BY <2>2
      <3>2. PICK k \in DeepParts(coded, tiled) :
               /\ part = [deep |-> TRUE, tiled |-> tiled,
                          codec |-> IF coded THEN "zip" ELSE "none", raw |-> <<>>]
               /\ file = [c \in Chunks |-> Stored(c, coded, k[c][1], k[c][2], k[c][3], k[c][4])]
        BY <3>1
      <3>3. /\ part.deep = TRUE /\ part.tiled = tiled
            /\ part.codec = IF coded THEN "zip" ELSE "none"
        BY <3>2
      <3>4. PartOK
        BY <3>3 DEF PartOK, Codecs
      <3>5. ASSUME NEW c \in Chunks
            PROVE  file[c] \in ChunkT /\ WellStored(part, c, file[c])
        <4>1. PICK x : x = k[c]
          OBVIOUS
        <4>2. WellFormed(coded, part.tiled, x)
          BY <3>2, <3>3, <4>1, DeepPartsAssumption
        <4>3. file[c] = Stored(c, coded, x[1], x[2], x[3], x[4])
          BY <3>2, <4>1
        <4>4. QED
          BY <3>3, <4>2, <4>3, StoredWell
      <3>6. FileOK
        BY <3>2, <3>5 DEF FileOK
      <3>7. QED
        BY <3>4, <3>6
    <2>3. QED
      BY <2>1, <2>2 DEF Init
  <1>7. QED
    BY <1>2, <1>3, <1>4, <1>5, <1>6 DEF IInv

\* Nothing that the invariant is about changes.
LEMMA StutterKeeps ==
    ASSUME IInv, UNCHANGED allVars
    PROVE  IInv'
  <1>1. m' = m /\ part' = part /\ file' = file /\ e' = e /\ d' = d /\ out' = out
    BY DEF allVars
  <1>2. Sound(m)' /\ PartOK' /\ FileOK' /\ EncodeT' /\ DecodeT' /\ Phases'
    BY <1>1 DEF IInv, PartOK, FileOK, EncodeT, DecodeT, PipelineT, Phases, Complete
  <1>3. Encoding'
    BY <1>1 DEF IInv, Encoding, Raw, Coded
  <1>4. Decoding'
    <2>1. Job' = Job /\ Cur' = Cur /\ Deep' = Deep /\ Coded' = Coded
      BY <1>1, SameJob DEF partVars
    <2>2. QED
      BY <1>1, <2>1 DEF IInv, Decoding
  <1>5. QED
    BY <1>2, <1>3, <1>4 DEF IInv

\* Every step keeps the invariant, and what the application has too, unless the
\* application itself frees it.
LEMMA StepKeeps ==
    ASSUME IInv, [Next]_allVars
    PROVE  (IInv \/ Loose)' /\ (KeepsApp(m, m') \/ ApplicationFrees)
  <1>1. CASE Encode
    BY <1>1, EncodeKeeps
  <1>2. CASE Decode
    BY <1>2, DecodeKeeps
  <1>3. CASE UNCHANGED allVars
    <2>1. KeepsApp(m, m')
      BY <1>3 DEF allVars, KeepsApp
    <2>2. QED
      BY <1>3, <2>1, StutterKeeps
  <1>4. QED
    BY <1>1, <1>2, <1>3 DEF Next

LEMMA PipelinesInvariant == Spec => [](IInv \/ Loose)
  <1>1. Init => IInv \/ Loose
    BY InitHolds
  <1>2. (IInv \/ Loose) /\ [Next]_allVars => (IInv \/ Loose)'
    <2>1. ASSUME IInv, [Next]_allVars PROVE (IInv \/ Loose)'
      BY <2>1, StepKeeps
    <2>2. ASSUME Loose, [Next]_allVars PROVE (IInv \/ Loose)'
      BY <2>2, LooseKeeps
    <2>3. QED
      BY <2>1, <2>2
  <1>3. QED
    BY <1>1, <1>2, PTL DEF Spec

-----------------------------------------------------------------------------
(* What follows for the pipelines.                                          *)

\* For any chunks, of any sizes, written and read by pipelines that are used again and
\* again, whichever runs fail and at whichever allocation: no step of a pipeline frees
\* or overwrites what is not its own, every block it has allocated belongs to exactly
\* one of its buffers with the size that buffer gives, and none is left when it is
\* destroyed (coding.c, the aliases of decoding.c and encoding.c), as long as no
\* application has adopted a block that two buffers share (d.shared).
THEOREM BuffersSound == Spec => []MemorySound
  <1>1. ASSUME IInv PROVE MemorySound
    <2>1. /\ ~m.fault /\ OwnedSound(m) /\ NoLeak(m)
      BY <1>1 DEF IInv, Sound
    <2>2. ASSUME NEW p \in DOMAIN m.heap, m.heap[p].own = "pipeline"
          PROVE  \E b \in Buffers : OwnersOf(p) = {b} /\ m.buf[b].size = m.heap[p].size
      <3>1. p[1] \in Buffers /\ Owns(m, p[1]) /\ m.buf[p[1]].ptr = p
        BY <2>1, <2>2 DEF NoLeak
      <3>2. \A b \in OwnersOf(p) : b = p[1]
        BY <2>1 DEF OwnersOf, OwnedSound
      <3>3. OwnersOf(p) = {p[1]}
        BY <3>1, <3>2 DEF OwnersOf
      <3>4. m.buf[p[1]].size = m.heap[p].size
        BY <2>1, <3>1 DEF OwnedSound
      <3>5. QED
        BY <3>1, <3>3, <3>4
    <2>3. \A b \in Buffers : Owns(m, b) => Live(m, b)
      BY <2>1 DEF OwnedSound, Live
    <2>4. ASSUME d.at = "none", e.at = "none", NEW p \in DOMAIN m.heap
          PROVE  m.heap[p].own = "application"
      <3>1. \A b \in Buffers : m.buf[b] = Nobody
        BY <1>1, <2>4 DEF IInv, Phases
      <3>2. m.heap[p].own # "pipeline"
        BY <2>1, <3>1 DEF NoLeak, Owns, Nobody
      <3>3. m.heap[p].own \in {"pipeline", "application"}
        <4>1. m.heap \in [DOMAIN m.heap -> BlockT]
          BY <1>1, HeapsOpen DEF IInv, Sound, MemT
        <4>2. QED
          BY <4>1 DEF BlockT
      <3>4. QED
        BY <3>2, <3>3
    <2>5. QED
      BY <2>1, <2>2, <2>3, <2>4 DEF MemorySound
  <1>2. Loose => MemorySound
    BY DEF Loose, MemorySound
  <1>3. QED
    BY <1>1, <1>2, PipelinesInvariant, PTL

\* What an encode pipeline stores for a chunk are the pixels of that chunk, compressed
\* exactly when the reader will take them for compressed; left open are the chunks that
\* a codec has left in its own form at their full size (exr_encoding_run,
\* runEncodeStep).
THEOREM ChunksStored == Spec => []ChunkStored
  <1>1. ASSUME FileOK PROVE ChunkStored
    <2> SUFFICES ASSUME ~part.deep, NEW c \in Chunks, file[c].unpacked > 0, ~NotShrunk(c)
                 PROVE  file[c].pixels = Token("pixels", c,
                           IF file[c].packed = file[c].unpacked THEN "plain" ELSE "coded")
      BY DEF ChunkStored
    <2>1. file[c] # Missing
      BY DEF Missing
    <2>2. WellStored(part, c, file[c])
      BY <1>1, <2>1 DEF FileOK
    <2>3. ~Odd(part, file[c])
      BY DEF Odd, NotShrunk
    <2>4. QED
      BY <2>2, <2>3 DEF WellStored
  <1>2. IInv \/ Loose => FileOK
    BY DEF IInv, Loose
  <1>3. QED
    BY <1>1, <1>2, PipelinesInvariant, PTL

\* What is asked for is what a run makes of the chunk.
LEMMA RightCounts ==
    ASSUME IInv, d.at # "none", Deep
    PROVE  CountsOf(Job) =
              [IF Cur.table = 0 THEN Zeros ELSE Token("counts", d.chunk, "plain")
               EXCEPT !.form = IF d.individual THEN "individual" ELSE "plain"]
  <1>1. /\ Job.stored = Cur.table /\ Job.area = Cur.area /\ Job.size = TableSize
        /\ Job.coded = Coded /\ Job.counts = Cur.counts
    BY DEF Job
  <1>2. WellStored(part, d.chunk, Cur) /\ Cur.area \in Nat
    BY CurFacts
  <1>3. Job.size = Job.area <=> ~d.individual
    BY <1>1, <1>2 DEF TableSize
  <1>4. Cur.counts = Token("counts", d.chunk, IF Coded /\ Cur.table # Cur.area
                                              THEN "coded" ELSE "plain")
    BY <1>2 DEF WellStored, Deep, Coded
  <1>5. PlainCounts(Job) = Token("counts", d.chunk, "plain")
    <2>1. CASE Coded /\ Cur.table # Cur.area
      BY <1>1, <1>4, <2>1 DEF PlainCounts, Undo, Token
    <2>2. CASE ~(Coded /\ Cur.table # Cur.area)
      BY <1>1, <1>4, <2>2 DEF PlainCounts
    <2>3. QED
      BY <2>1, <2>2
  <1>6. QED
    BY <1>1, <1>3, <1>5 DEF CountsOf

LEMMA RightPixels ==
    ASSUME IInv, d.at # "none", ~d.countsOnly, Cur.unpacked > 0, ~NotShrunk(d.chunk)
    PROVE  /\ d.direct => Cur.pixels = Token("pixels", d.chunk, "plain")
           /\ ~d.direct => /\ Job.unpacked > 0
                           /\ PlainPixels(Job) = Token("pixels", d.chunk, "plain")
  <1>1. WellStored(part, d.chunk, Cur)
    BY CurFacts
  <1>2. ~Odd(part, Cur)
    BY DEF Odd, NotShrunk, Cur
  <1>3. Cur.pixels = Token("pixels", d.chunk, IF Cur.packed = Cur.unpacked
                                              THEN "plain" ELSE "coded")
    BY <1>1, <1>2 DEF WellStored
  <1>4. ASSUME d.direct PROVE Cur.packed = Cur.unpacked
    <2>1. ~Coded
      BY <1>4 DEF IInv, Decoding
    <2>2. QED
      BY <1>1, <2>1 DEF WellStored, Coded
  <1>5. ASSUME ~d.direct
        PROVE  Job.unpacked > 0 /\ PlainPixels(Job) = Token("pixels", d.chunk, "plain")
    <2>1. Job.unpacked = Cur.unpacked /\ Job.packed = Cur.packed /\ Job.pixels = Cur.pixels
      BY <1>5 DEF Job
    <2>2. CASE Cur.packed = Cur.unpacked
      BY <1>3, <2>1, <2>2 DEF PlainPixels
    <2>3. CASE Cur.packed # Cur.unpacked
      BY <1>3, <2>1, <2>3 DEF PlainPixels, Undo, Token
    <2>4. QED
      BY <2>1, <2>2, <2>3
  <1>6. QED
    BY <1>3, <1>4, <1>5

\* Whatever a decode pipeline was used for before, and whatever failed in it: a run
\* that succeeds gives its user the counts and the pixels of the chunk it was asked for,
\* uncompressed and in the form asked for (exr_decoding_run, run_unpack).  Left open are
\* the table that a pipeline used before may not notice to be absent, and a pipeline
\* that shares a block with its application (d.shared).
THEOREM ChunksDelivered == Spec => []ChunkDelivered
  <1>1. ASSUME IInv PROVE ChunkDelivered
    <2> SUFFICES ASSUME d.at = "ready", d.rv = "ok", ~TableOverlooked
                 PROVE  /\ Deep => out.counts =
                             [IF Cur.table = 0 THEN Zeros ELSE Token("counts", d.chunk, "plain")
                              EXCEPT !.form = IF d.individual THEN "individual" ELSE "plain"]
                        /\ ~d.countsOnly /\ Cur.unpacked > 0 /\ ~NotShrunk(d.chunk) =>
                              out.pixels = Token("pixels", d.chunk, "plain")
      BY DEF ChunkDelivered
    <2>1. /\ Deep /\ ~Overlooked(m, Job) => out.counts = CountsOf(Job)
          /\ Job.unpacked > 0 => out.pixels = PlainPixels(Job)
          /\ d.direct => out.pixels = Cur.pixels
      BY <1>1 DEF IInv, Decoding
    <2>2. Deep => ~Overlooked(m, Job)
      BY DEF Overlooked, TableOverlooked, Job
    <2>3. QED
      BY <1>1, <2>1, <2>2, RightCounts, RightPixels
  <1>2. Loose => ChunkDelivered
    BY DEF Loose, ChunkDelivered
  <1>3. QED
    BY <1>1, <1>2, PipelinesInvariant, PTL

\* What the application has lent to a pipeline or adopted from it is never changed or
\* freed by a step of a pipeline (openexr_decode.h:119-140, run_mem_decode).  Left open
\* are a lent table that is unpacked in place (Exposed), and what follows when the
\* application has adopted a block under the name of a buffer that does not count it as
\* its own (d.shared).
THEOREM ApplicationsKept == Spec => ApplicationKept
  <1> DEFINE Closed == {p \in DOMAIN m.heap : ~Exposed(p)}
  <1>1. ASSUME IInv, NEW p \in Closed PROVE p \notin Job.open
    <2>1. ~Exposed(p)
      OBVIOUS
    <2>2. CASE ~d.foreign
      BY <2>2 DEF Job
    <2>3. CASE d.foreign
      <3>1. Lent(m, Cur, Job.open)
        BY <1>1, <2>3 DEF IInv, Decoding, Phases
      <3>2. m.buf["packedTable"].ptr = Address("packedTable", {})
        BY <3>1 DEF Lent
      <3>3. Job.open = IF Cur.table = TableSize THEN {Address("packedTable", {})} ELSE {}
        BY <2>3 DEF Job
      <3>4. QED
        BY <2>1, <2>3, <3>2, <3>3 DEF Exposed
    <2>4. QED
      BY <2>2, <2>3
  <1>2. ASSUME IInv, [Next]_allVars PROVE Keeps(Closed)
    <2>1. KeepsApp(m, m') \/ ApplicationFrees
      BY <1>2, StepKeeps
    <2>2. \A p \in Closed : p \in DOMAIN m.heap /\ p \notin Job.open
      BY <1>1, <1>2
    <2> HIDE DEF Closed
    <2>3. QED
      BY <2>1, <2>2 DEF KeepsApp, Keeps
  <1>3. ASSUME IInv \/ Loose, [Next]_allVars PROVE [d.shared \/ Keeps(Closed)]_allVars
    BY <1>2, <1>3 DEF Loose
  <1>4. QED
    BY <1>3, PipelinesInvariant, PTL DEF Spec, ApplicationKept
=============================================================================
