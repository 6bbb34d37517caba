------------------------------ MODULE SstTable ------------------------------
(***************************************************************************)
(* A memtable that is flushed to an SSTable file and read back from it:    *)
(* first the format, then the builder, the reader with its block cache     *)
(* (block_cache.rs) and damage to the file.                                *)
(*                                                                         *)
(* The SSTable file format of crates/kaya-lsm/src/sstable.rs: entries in   *)
(* data blocks (plain, or with shared key prefixes and restart points),    *)
(* the index block, the bloom filter and the three footer layouts.         *)
(*                                                                         *)
(* Keys are sequences of small numbers, compared like byte strings.  A     *)
(* section of the file is a record of what it encodes with its length in   *)
(* bytes, since the lengths decide where blocks end and where they start;  *)
(* `sound' is FALSE when its bytes are no longer those its CRC32C was      *)
(* computed over.  The footer is a sequence of 16-bit words, because the   *)
(* reader finds out its layout by looking at one of them.                  *)
(***************************************************************************)
EXTENDS Integers, Sequences, FiniteSets, FiniteSetsExt

CONSTANT RestartInterval   \* PREFIX_RESTART_INTERVAL, 8 in the code

Deleted == "deleted"

(* KayaError::corruption, whatever its message, or what was decoded. *)
Corrupt == [ok |-> FALSE, entries |-> <<>>]
Decoded(es) == [ok |-> TRUE, entries |-> es]

Total(s) ==
    LET upTo[i \in 0..Len(s)] == IF i = 0 THEN 0 ELSE upTo[i - 1] + s[i]
    IN upTo[Len(s)]

BytesLt(a, b) ==
    \/ \E i \in DOMAIN a \cap DOMAIN b :
           a[i] < b[i] /\ \A j \in 1..(i - 1) : a[j] = b[j]
    \/ Len(a) < Len(b) /\ \A j \in DOMAIN a : a[j] = b[j]

StartsWith(key, prefix) ==
    Len(prefix) <= Len(key) /\ \A j \in DOMAIN prefix : key[j] = prefix[j]

(* internal_key.rs: user_key ascending, then commit_ts descending. *)
InternalLt(a, b) ==
    BytesLt(a.key, b.key) \/ (a.key = b.key /\ a.seq > b.seq)

(***************************************************************************)
(* Data blocks.                                                            *)
(***************************************************************************)
CommonPrefixLen(a, b) ==
    Max({n \in 0..Min({Len(a), Len(b)}) : \A j \in 1..n : a[j] = b[j]})

ValueLen(e) == IF e.val = Deleted THEN 0 ELSE 1

(* The entry is written against `prev', the key before it in the same      *)
(* restart interval; a legacy entry and the first of an interval share 0.  *)
EncodeEntry(e, shared) ==
    [shared |-> shared, rest |-> SubSeq(e.key, shared + 1, Len(e.key)),
     val |-> e.val, seq |-> e.seq]

SharedWithPrev(es, i) ==
    IF ((i - 1) % RestartInterval) = 0 THEN 0
    ELSE CommonPrefixLen(es[i - 1].key, es[i].key)

PrefixEntryLen(c) == 21 + Len(c.rest) + ValueLen(c)
LegacyEntryLen(e) == 17 + Len(e.key) + ValueLen(e)

(* Where coded entry i starts, counted from the first entry. *)
EntryOffset(cs, i) == Total([j \in 1..(i - 1) |-> PrefixEntryLen(cs[j])])

EncodeDataBlock(es, prefix) ==
    LET coded == [i \in DOMAIN es |->
                    EncodeEntry(es[i], IF prefix THEN SharedWithPrev(es, i) ELSE 0)]
        starts == IF prefix
                  THEN [r \in 1..((Len(es) + RestartInterval - 1) \div RestartInterval)
                          |-> EntryOffset(coded, (r - 1) * RestartInterval + 1)]
                  ELSE <<>>
    IN [coded |-> coded, restarts |-> starts, sound |-> TRUE,
        len |-> IF prefix THEN 12 + EntryOffset(coded, Len(es) + 1) + 4 * Len(starts)
                ELSE 12 + Total([i \in DOMAIN es |-> LegacyEntryLen(es[i])])]

EstimateBlockSize(es, prefix) ==
    IF prefix
    THEN Total([i \in DOMAIN es |->
                   21 + Len(es[i].key) - SharedWithPrev(es, i) + ValueLen(es[i])])
         + 8 + (Len(es) \div RestartInterval + 1) * 4 + 4
    ELSE Total([i \in DOMAIN es |-> LegacyEntryLen(es[i])]) + 12

(* One turn of the decoding loop: at a restart offset the base key is      *)
(* cleared, and an entry that shares more than the base key has is refused.*)
DecodeEntryPrefix(block, acc, c) ==
    LET at   == \E r \in DOMAIN block.restarts : block.restarts[r] = acc.off
        base == IF at THEN <<>> ELSE acc.base
        key  == SubSeq(base, 1, c.shared) \o c.rest
    IN IF acc.bad \/ c.shared > Len(base) THEN [acc EXCEPT !.bad = TRUE]
       ELSE [bad |-> FALSE, base |-> key, off |-> acc.off + PrefixEntryLen(c),
             out |-> Append(acc.out, [key |-> key, val |-> c.val, seq |-> c.seq])]

DecodeEntryLegacy(c) == [key |-> c.rest, val |-> c.val, seq |-> c.seq]

DecodeDataBlock(block) ==
    IF ~block.sound THEN Corrupt
    ELSE IF block.restarts = <<>>
    THEN Decoded([i \in DOMAIN block.coded |-> DecodeEntryLegacy(block.coded[i])])
    ELSE LET turn[i \in 0..Len(block.coded)] ==
                 IF i = 0 THEN [bad |-> FALSE, base |-> <<>>, off |-> 0, out |-> <<>>]
                 ELSE DecodeEntryPrefix(block, turn[i - 1], block.coded[i])
             end == turn[Len(block.coded)]
         IN IF end.bad \/ \E r \in 2..Len(block.restarts) :
                              block.restarts[r] <= block.restarts[r - 1]
            THEN Corrupt ELSE Decoded(end.out)

(* A compressed table puts a store-kind byte before every block and keeps  *)
(* the compressed form only when it is shorter.  How far a compressor gets *)
(* is its own business: here it drops a byte for every entry after the     *)
(* first, so that both forms occur.                                        *)
CompressedLen(block) == block.len - 2 * (Len(block.coded) - 1)

WrapDataBlock(block, codec) ==
    IF codec = "none" THEN [kind |-> "bare", block |-> block, len |-> block.len]
    ELSE IF CompressedLen(block) + 1 < block.len
    THEN [kind |-> codec, block |-> block, len |-> CompressedLen(block) + 1]
    ELSE [kind |-> "raw", block |-> block, len |-> block.len + 1]

(* A bare block is taken as it is; otherwise the first byte says how the   *)
(* rest is read, whatever the codec of the table.                          *)
UnwrapDataBlock(stored, codec) ==
    IF (codec = "none") # (stored.kind = "bare") THEN Corrupt
    ELSE DecodeDataBlock(stored.block)

(***************************************************************************)
(* The bloom filter: k bits per key by double hashing.  crc32c is any      *)
(* function of the bytes; this one gives some keys the same bits, so that  *)
(* an absent key can pass the filter.                                      *)
(***************************************************************************)
Crc(bytes) == Total(bytes) + 16 * Len(bytes) + 5

BloomHashPair(key) ==
    LET h1 == Crc(key)
        h2 == Crc(Append(key, (h1 % 256)))
    IN <<h1, h2 + 1 - (h2 % 2)>>

(* ceil(bits_per_key * ln 2), at least one. *)
BloomHashCount(bits) == Max({1, (bits * 693147) \div 1000000 + 1})

BloomNumBits(keys, bits) == ((Max({64, keys * bits}) + 7) \div 8) * 8

BloomBitIndex(h, i, n) == (h[1] + i * h[2]) % n

BloomBitsOf(key, k, n) == {BloomBitIndex(BloomHashPair(key), i, n) : i \in 0..(k - 1)}

BuildBloomFilter(keys, bits) ==
    LET k == BloomHashCount(bits)
        n == BloomNumBits(Len(keys), bits)
    IN [bits |-> UNION {BloomBitsOf(keys[i], k, n) : i \in DOMAIN keys},
        num_bits |-> n, hash_count |-> k]

MightContain(bloom, key) ==
    BloomBitsOf(key, bloom.hash_count, bloom.num_bits) \subseteq bloom.bits

(***************************************************************************)
(* The footer.  A field of n bytes is n / 2 words, low word first; values  *)
(* stay below 2^31.  The checksum is a sum with odd weights, so that it    *)
(* notices a change of any one word.                                       *)
(***************************************************************************)
Word == 65536
Magic == <<21332, 19283>>   \* "KSST"

Words(v, n) == [i \in 1..n |-> IF i = 1 THEN v % Word
                               ELSE IF i = 2 THEN v \div Word ELSE 0]
Number(w) == w[1] + Word * w[2]

FooterCrc(words) ==
    Words(Total([i \in DOMAIN words |-> (2 * i + 1) * words[i]]) % Word, 2)

CodecNumber == [none |-> 0, lz4 |-> 1, zstd |-> 2]

(* SstFooter::physical_len, in words: 48, 64 and 72 bytes. *)
PhysicalLen(version) == IF version <= 1 THEN 24 ELSE IF version = 2 THEN 32 ELSE 36

EncodeFooter(f) ==
    LET len  == PhysicalLen(f.version)
        body == Words(f.index_off, 4) \o Words(f.index_len, 2)
                \o Words(f.min_seq, 4) \o Words(f.max_seq, 4) \o Words(f.count, 4)
                \o <<f.version, 2 * len>>
                \o (IF len >= 32 THEN Words(f.bloom_off, 4) \o Words(f.bloom_len, 2)
                                       \o Words(f.hash_count, 2)
                    ELSE <<>>)
                \o (IF len = 36 THEN Words(CodecNumber[f.codec], 2) \o <<0, 0>> ELSE <<>>)
    IN body \o FooterCrc(body) \o Magic

(* The footer_len field of a footer of `len' words, read from the file's   *)
(* end whatever the footer there really is.                                *)
LenProbe(w, len) == Len(w) - len + 20 \in DOMAIN w /\ w[Len(w) - len + 20] = 2 * len

FooterLen(w) == IF LenProbe(w, 36) THEN 36
                ELSE IF LenProbe(w, 32) THEN 32
                ELSE IF LenProbe(w, 24) THEN 24 ELSE 0

DecodeFooter(w) ==
    LET len == FooterLen(w)
        fb  == SubSeq(w, Len(w) - len + 1, Len(w))
        at(i, n) == Number(SubSeq(fb, i + 1, i + n))
        sound == /\ Len(w) >= 24
                 /\ SubSeq(w, Len(w) - 1, Len(w)) = Magic
                 /\ len > 0 /\ Len(w) >= len
                 /\ SubSeq(fb, len - 3, len - 2) = FooterCrc(SubSeq(fb, 1, len - 4))
                 /\ fb[19] \in 1..4
                 /\ len = 36 => at(28, 2) \in {0, 1, 2}
    IN IF ~sound THEN [ok |-> FALSE]
       ELSE [ok |-> TRUE,
             index_off |-> at(0, 4), index_len |-> at(4, 2),
             min_seq |-> at(6, 4), max_seq |-> at(10, 4), count |-> at(14, 4),
             version |-> fb[19],
             bloom_off |-> IF len >= 32 THEN at(20, 4) ELSE 0,
             bloom_len |-> IF len >= 32 THEN at(24, 2) ELSE 0,
             hash_count |-> IF len >= 32 THEN at(26, 2) ELSE 0,
             codec |-> IF len = 36
                       THEN CHOOSE c \in DOMAIN CodecNumber : CodecNumber[c] = at(28, 2)
                       ELSE "none"]

-----------------------------------------------------------------------------
(***************************************************************************)
(* The life of one SSTable: versions are written to a memtable             *)
(* (crates/kaya-lsm/src/lib.rs), flushed through SstableBuilder into a     *)
(* file, perhaps damaged on the disk, opened by SstableReader and read     *)
(* through the LRU block cache (sstable.rs, block_cache.rs).               *)
(*                                                                         *)
(* `opts.bulk' further entries are counted in the footer and in nothing    *)
(* else: they stand for keys outside the ones read here.                   *)
(*                                                                         *)
(* The engine flushes with mvcc = TRUE (every version, format 4); the      *)
(* other formats keep the latest version of a key.  A read changes nothing *)
(* but the cache, so reads are actions for what they do to the cache, and  *)
(* the properties ask every read of every state.                           *)
(***************************************************************************)

CONSTANTS SstKeys,       \* user keys written and looked up
          SstPrefixes,   \* prefixes scanned
          SstOptions,    \* the build options and cache capacities tried
          SstVersions,   \* how many versions are written at most
          SstHarms       \* what may happen to the file before it is opened

VARIABLES mem,           \* Memtable::entries, a set of versions
          memBytes,      \* Memtable::approximate_bytes
          opts,          \* SstableBuildOptions, and the reader's cache capacity
          builder,       \* SstableBuilder, with the entries still to be added
          file,          \* the bytes on disk, section by section
          reader,        \* SstableReader: footer, index and bloom filter
          cache          \* BlockCache: recency order and decoded blocks

sstVars == <<mem, memBytes, opts, builder, file, reader, cache>>

NoBuilder == [todo |-> <<>>, current |-> <<>>, blocks |-> <<>>, index |-> <<>>,
              bytes |-> 0, keys |-> <<>>, min_seq |-> 0, max_seq |-> 0]
NoFile    == [blocks |-> <<>>]
NoReader  == [state |-> "closed"]
NoCache   == [order |-> <<>>, map |-> <<>>]

SstInit ==
    /\ mem = {} /\ memBytes = 0
    /\ opts \in SstOptions
    /\ builder = NoBuilder /\ file = NoFile /\ reader = NoReader /\ cache = NoCache

(***************************************************************************)
(* The memtable.                                                           *)
(***************************************************************************)
Sorted(S) == [i \in 1..Cardinality(S) |->
                 CHOOSE e \in S : Cardinality({x \in S : InternalLt(x, e)}) = i - 1]

(* user key, 8 bytes of commit_ts and the value. *)
EntrySize(e) == Len(e.key) + 8 + ValueLen(e)

(* A version under the same key and sequence is replaced. *)
MemReplaced(e) == {x \in mem : x.key = e.key /\ x.seq = e.seq}

MemWrite(e) ==
    LET old == MemReplaced(e)
        oldSize == IF old = {} THEN 0 ELSE EntrySize(CHOOSE x \in old : TRUE)
    IN /\ mem' = (mem \ old) \cup {e}
       /\ memBytes' = Max({memBytes - oldSize, 0}) + EntrySize(e)

(* Replaying a log after a restart can apply a sequence a second time, so  *)
(* the sequence may repeat the last one.                                   *)
NextSeqs == {1 + Cardinality(mem)} \cup {e.seq : e \in mem}

Writable == builder = NoBuilder /\ file = NoFile

MemPut(k) ==
    /\ Writable
    /\ \E n \in NextSeqs :
         /\ n <= SstVersions
         /\ \A e \in mem : e.seq = n => e.key = k
         /\ MemWrite([key |-> k, val |-> "v", seq |-> n])
    /\ UNCHANGED <<opts, builder, file, reader, cache>>

MemDelete(k) ==
    /\ Writable
    /\ \E n \in NextSeqs :
         /\ n <= SstVersions
         /\ \A e \in mem : e.seq = n => e.key = k
         /\ MemWrite([key |-> k, val |-> Deleted, seq |-> n])
    /\ UNCHANGED <<opts, builder, file, reader, cache>>

(* range(seek..).next(): the first version not before (key, read_ts).  What *)
(* a lookup finds is a set of at most one entry.                           *)
MemGetAt(k, ts) ==
    LET from == {e \in mem : ~InternalLt(e, [key |-> k, seq |-> ts])}
        first == Sorted(from)[1]
    IN IF from = {} \/ first.key # k THEN {} ELSE {first}

(* iter_prefix and the loop's break: the versions under the prefix. *)
IterPrefix(prefix) == Sorted({e \in mem : StartsWith(e.key, prefix)})

(* The newest visible version of each key; deleted keys give no row. *)
MemScanPrefixAt(prefix, ts) ==
    LET rows == IterPrefix(prefix)
        seen(i) == rows[i].seq <= ts
        chosen(i) == seen(i) /\ ~\E j \in 1..(i - 1) : rows[j].key = rows[i].key /\ seen(j)
        put(i) == chosen(i) /\ rows[i].val # Deleted
    IN {rows[i] : i \in {j \in DOMAIN rows : put(j)}}

IterLatestUser == Sorted({e \in mem : ~\E x \in mem : x.key = e.key /\ x.seq > e.seq})
(***************************************************************************)
(* The builder.                                                            *)
(***************************************************************************)
Entries == IF opts.mvcc THEN Sorted(mem) ELSE IterLatestUser

Freeze ==
    /\ Writable /\ mem # {}
    /\ builder' = [NoBuilder EXCEPT !.todo = Entries]
    /\ UNCHANGED <<mem, memBytes, opts, file, reader, cache>>

(* Mutant of FlushCurrentBlock: the separator is the first key of the block. *)
FlushUnderFirstKey(b) ==
    LET raw == EncodeDataBlock(b.current, opts.prefix)
        stored == WrapDataBlock(raw, opts.codec)
        n == Len(b.current)
    IN IF n = 0 THEN b
       ELSE [b EXCEPT !.current = <<>>,
                      !.blocks = Append(@, [off |-> b.bytes, stored |-> stored]),
                      !.bytes = @ + stored.len,
                      !.index = Append(@, [sep |-> b.current[1].key, off |-> b.bytes,
                                           len |-> stored.len,
                                           first_seq |-> b.current[1].seq,
                                           last_seq |-> b.current[n].seq])]

(* The block is indexed under its last key, at the bytes written so far. *)
FlushCurrentBlock(b) ==
    LET raw == EncodeDataBlock(b.current, opts.prefix)
        stored == WrapDataBlock(raw, opts.codec)
        n == Len(b.current)
    IN IF n = 0 THEN b
       ELSE [b EXCEPT !.current = <<>>,
                      !.blocks = Append(@, [off |-> b.bytes, stored |-> stored]),
                      !.bytes = @ + stored.len,
                      !.index = Append(@, [sep |-> b.current[n].key, off |-> b.bytes,
                                           len |-> stored.len,
                                           first_seq |-> b.current[1].seq,
                                           last_seq |-> b.current[n].seq])]

AddEntry(b, e) ==
    LET b1 == [b EXCEPT !.todo = Tail(@),
                        !.current = Append(@, e),
                        !.keys = Append(@, e.key),
                        !.min_seq = IF b.keys = <<>> THEN e.seq ELSE Min({@, e.seq}),
                        !.max_seq = IF b.keys = <<>> THEN e.seq ELSE Max({@, e.seq})]
    IN IF EstimateBlockSize(b1.current, opts.prefix) >= Max({opts.target, 1})
       THEN FlushCurrentBlock(b1) ELSE b1

Add ==
    /\ builder.todo # <<>>
    /\ builder' = AddEntry(builder, Head(builder.todo))
    /\ UNCHANGED <<mem, memBytes, opts, file, reader, cache>>

IndexLen(index) == 8 + Total([i \in DOMAIN index |-> 32 + Len(index[i].sep)])

FormatVersion == IF opts.mvcc THEN 4
                 ELSE IF opts.codec # "none" \/ opts.prefix THEN 3 ELSE 2

Finish ==
    /\ builder # NoBuilder /\ builder.todo = <<>>
    /\ LET b == FlushCurrentBlock(builder)
           bloom == IF opts.bloom = 0 THEN [num_bits |-> 0, hash_count |-> 0, bits |-> {}]
                    ELSE BuildBloomFilter(b.keys, opts.bloom)
           foot == [index_off |-> b.bytes, index_len |-> IndexLen(b.index),
                    min_seq |-> b.min_seq, max_seq |-> b.max_seq, count |-> Len(b.keys) + opts.bulk,
                    version |-> FormatVersion, codec |-> opts.codec,
                    bloom_off |-> IF opts.bloom = 0 THEN 0
                                  ELSE b.bytes + IndexLen(b.index),
                    bloom_len |-> bloom.num_bits \div 8,
                    hash_count |-> bloom.hash_count]
       IN file' = [blocks |-> b.blocks, index |-> b.index, indexSound |-> TRUE,
                   bloom |-> bloom.bits, foot |-> EncodeFooter(foot), harm |-> "none"]
    /\ builder' = NoBuilder
    /\ UNCHANGED <<mem, memBytes, opts, reader, cache>>

(***************************************************************************)
(* What a disk may do to a file nobody has open: some bytes of one section *)
(* change, or the end of the file is missing.                              *)
(***************************************************************************)
HarmBlock(i) ==
    file' = [file EXCEPT !.blocks[i].stored.block.sound = FALSE, !.harm = "block"]
HarmIndex == file' = [file EXCEPT !.indexSound = FALSE, !.harm = "index"]
HarmBloom(bit) == file' = [file EXCEPT !.bloom = @ \ {bit}, !.harm = "bloom"]
HarmFooter(i, w) == file' = [file EXCEPT !.foot[i] = w, !.harm = "footer"]
CutFile(n) == file' = [file EXCEPT !.foot = SubSeq(@, 1, Len(@) - n), !.harm = "cut"]

Harm ==
    /\ file # NoFile /\ file.harm = "none" /\ reader = NoReader
    /\ \/ "block" \in SstHarms /\ \E i \in DOMAIN file.blocks : HarmBlock(i)
       \/ "index" \in SstHarms /\ HarmIndex
       \/ "bloom" \in SstHarms /\ \E bit \in file.bloom : HarmBloom(bit)
       \/ /\ "footer" \in SstHarms
          /\ \E i \in DOMAIN file.foot, w \in {0, 72} :
               w # file.foot[i] /\ HarmFooter(i, w)
       \/ "cut" \in SstHarms /\ \E n \in {2, 4, 12} : CutFile(n)
    /\ UNCHANGED <<mem, memBytes, opts, builder, reader, cache>>
(***************************************************************************)
(* The reader.                                                             *)
(***************************************************************************)
ContentEnd(f) == f.index_off + f.index_len + f.bloom_len

(* With its CRC intact the index block decodes to the entries written. *)
DecodeIndexBlock == [ok |-> file.indexSound, entries |-> file.index]

OpenWithCache ==
    /\ file # NoFile /\ reader = NoReader
    /\ LET f == DecodeFooter(file.foot)
           fits == /\ f.ok
                   /\ f.index_off + f.index_len <= ContentEnd(f)
                   /\ f.bloom_len > 0 => /\ f.bloom_off >= f.index_off + f.index_len
                                         /\ f.hash_count > 0
                   /\ DecodeIndexBlock.ok
       IN reader' = IF fits THEN [state |-> "open", foot |-> f,
                                        index |-> DecodeIndexBlock.entries]
                    ELSE [state |-> "failed"]
    /\ UNCHANGED <<mem, memBytes, opts, builder, file, cache>>

CacheHas(c, off) == off \in DOMAIN c.map

Touch(order, off) == Append(SelectSeq(order, LAMBDA o : o # off), off)

CacheGet(c, off) == [c EXCEPT !.order = Touch(@, off)]

CacheInsert(c, off, entries) ==
    LET full == ~CacheHas(c, off) /\ Cardinality(DOMAIN c.map) >= opts.cache
        out  == IF full /\ c.order # <<>> THEN {Head(c.order)} ELSE {}
        kept == SelectSeq(c.order, LAMBDA o : o \notin out)
    IN IF opts.cache = 0 THEN c
       ELSE [order |-> Touch(kept, off),
             map |-> [o \in (DOMAIN c.map \ out) \cup {off} |->
                         IF o = off THEN entries ELSE c.map[o]]]

StoredAt(off) ==
    file.blocks[CHOOSE i \in DOMAIN file.blocks : file.blocks[i].off = off].stored

(* The entries of an indexed block, and the cache after the read. *)
ReadDataBlock(ie, c) ==
    LET out == IF ie.off + ie.len > reader.foot.index_off THEN Corrupt
               ELSE UnwrapDataBlock(StoredAt(ie.off), reader.foot.codec)
    IN IF CacheHas(c, ie.off)
       THEN [res |-> Decoded(c.map[ie.off]), cache |-> CacheGet(c, ie.off)]
       ELSE [res |-> out,
             cache |-> IF out.ok THEN CacheInsert(c, ie.off, out.entries) ELSE c]

MultiVersion == reader.foot.version >= 4

(* The loop over one block of get_at: entries before the key, and versions *)
(* too new for the snapshot, are passed over.                              *)
SearchBlock(entries, key, ts) ==
    LET stops == {j \in DOMAIN entries :
                    /\ ~BytesLt(entries[j].key, key)
                    /\ entries[j].key # key \/ entries[j].seq <= ts \/ ~MultiVersion}
        e == entries[Min(stops)]
    IN IF stops = {} THEN [done |-> FALSE, got |-> {}]
       ELSE [done |-> TRUE, got |-> IF e.key = key /\ e.seq <= ts THEN {e} ELSE {}]

(* The turn of get_at on one index entry.  Blocks before the first whose   *)
(* separator is not below the key are skipped; a block that ends without   *)
(* an answer is followed by the next only if it ends inside the key.       *)
GetTurn(acc, ie, key, ts) ==
    LET r == ReadDataBlock(ie, acc.cache)
        found == SearchBlock(r.res.entries, key, ts)
    IN IF acc.done \/ (~acc.started /\ BytesLt(ie.sep, key)) THEN acc
       ELSE [started |-> TRUE, ok |-> r.res.ok, got |-> found.got, cache |-> r.cache,
             done |-> ~r.res.ok \/ found.done \/ ~MultiVersion \/ BytesLt(key, ie.sep)]

GetAt(key, ts) ==
    LET turn[i \in 0..Len(reader.index)] ==
            IF i = 0 THEN [started |-> FALSE, done |-> FALSE, ok |-> TRUE, got |-> {},
                           cache |-> cache]
            ELSE GetTurn(turn[i - 1], reader.index[i], key, ts)
        bloom == [bits |-> file.bloom, num_bits |-> 8 * reader.foot.bloom_len,
                  hash_count |-> reader.foot.hash_count]
    IN IF reader.foot.bloom_len > 0 /\ ~MightContain(bloom, key) THEN turn[0]
       ELSE turn[Len(reader.index)]

(* The turn of scan_prefix_at on one entry: the first visible version of   *)
(* each key under the prefix, until a key past it.                         *)
ScanEntry(acc, e, prefix, ts) ==
    LET fresh == acc.key # {e.key}
        selected == ~fresh /\ acc.selected
        take == ~selected /\ e.seq <= ts
    IN IF acc.done \/ (~StartsWith(e.key, prefix) /\ BytesLt(e.key, prefix)) THEN acc
       ELSE IF ~StartsWith(e.key, prefix) THEN [acc EXCEPT !.done = TRUE]
       ELSE [acc EXCEPT !.key = {e.key}, !.selected = selected \/ take,
                        !.got = IF take THEN Append(@, e) ELSE @]

ScanTurn(acc, ie, prefix, ts) ==
    LET r == ReadDataBlock(ie, acc.cache)
        read == [acc EXCEPT !.cache = r.cache, !.ok = r.res.ok, !.done = ~r.res.ok]
        turn[j \in 0..Len(r.res.entries)] ==
            IF j = 0 THEN read ELSE ScanEntry(turn[j - 1], r.res.entries[j], prefix, ts)
    IN IF acc.done \/ (ie.sep # <<>> /\ BytesLt(ie.sep, prefix)) THEN acc
       ELSE turn[Len(r.res.entries)]

ScanPrefixAt(prefix, ts) ==
    LET turn[i \in 0..Len(reader.index)] ==
            IF i = 0 THEN [done |-> FALSE, ok |-> TRUE, got |-> <<>>, key |-> {},
                           selected |-> FALSE, cache |-> cache]
            ELSE ScanTurn(turn[i - 1], reader.index[i], prefix, ts)
    IN turn[Len(reader.index)]
AllEntries ==
    LET turn[i \in 0..Len(reader.index)] ==
            IF i = 0 THEN [ok |-> TRUE, got |-> <<>>, cache |-> cache]
            ELSE LET a == turn[i - 1]
                     r == ReadDataBlock(reader.index[i], a.cache)
                 IN IF ~a.ok THEN a
                    ELSE [ok |-> r.res.ok, got |-> a.got \o r.res.entries, cache |-> r.cache]
    IN turn[Len(reader.index)]

Reading == reader.state = "open"

Get(k) ==
    /\ Reading
    /\ \E ts \in 0..SstVersions : cache' = GetAt(k, ts).cache
    /\ UNCHANGED <<mem, memBytes, opts, builder, file, reader>>

Scan(prefix) ==
    /\ Reading
    /\ cache' = ScanPrefixAt(prefix, SstVersions).cache
    /\ UNCHANGED <<mem, memBytes, opts, builder, file, reader>>

ReadAll ==
    /\ Reading
    /\ cache' = AllEntries.cache
    /\ UNCHANGED <<mem, memBytes, opts, builder, file, reader>>

SstNext ==
    \/ \E k \in SstKeys : MemPut(k) \/ MemDelete(k) \/ Get(k)
    \/ Freeze \/ Add \/ Finish \/ Harm \/ OpenWithCache
    \/ \E p \in SstPrefixes : Scan(p)
    \/ ReadAll

SstSpec == SstInit /\ [][SstNext]_sstVars

(***************************************************************************)
(* Properties.                                                             *)
(***************************************************************************)
ReadTimes == 0..SstVersions

(* A table without mvcc keeps the latest version only. *)
Kept(k, ts) == IF opts.mvcc THEN MemGetAt(k, ts)
               ELSE {e \in MemGetAt(k, SstVersions) : e.seq <= ts}

GetIsRight(k, ts) == GetAt(k, ts).ok /\ GetAt(k, ts).got = Kept(k, ts)

Rows(got) == {got[i] : i \in {j \in DOMAIN got : got[j].val # Deleted}}

ScanIsRight(p, ts) ==
    LET r == ScanPrefixAt(p, ts)
    IN /\ r.ok
       /\ \A i \in 1..(Len(r.got) - 1) : BytesLt(r.got[i].key, r.got[i + 1].key)
       /\ Rows(r.got) = IF opts.mvcc THEN MemScanPrefixAt(p, ts)
                        ELSE {e \in MemScanPrefixAt(p, SstVersions) : e.seq <= ts}

(* A flushed table that nothing has happened to opens, and every point     *)
(* read and prefix scan at every snapshot gives what the memtable gave     *)
(* before the flush: whatever the block size, with the versions of a key   *)
(* in one block or in several, with shared prefixes, a compressor and any  *)
(* state of the cache (SstableBuilder::add and finish, get_at,             *)
(* scan_prefix_at, all_entries).                                           *)
TableReadsLikeMemtable ==
    file # NoFile /\ file.harm = "none" =>
        /\ reader.state # "failed"
        /\ Reading =>
             /\ \A k \in SstKeys, ts \in ReadTimes : GetIsRight(k, ts)
             /\ \A p \in SstPrefixes, ts \in ReadTimes : ScanIsRight(p, ts)
             /\ AllEntries = [AllEntries EXCEPT !.ok = TRUE, !.got = Entries]

(* A damaged file is never read as something else: a changed index or      *)
(* footer, or a missing end, keeps the table from opening, and with a      *)
(* changed block every read is right or is an error (decode_footer,        *)
(* decode_index_block, decode_data_block and their CRCs).                  *)
DamageIsNoticed ==
    file # NoFile /\ Reading =>
        /\ file.harm \in {"none", "block", "bloom"}
        /\ \A k \in SstKeys, ts \in ReadTimes : GetAt(k, ts).ok => GetIsRight(k, ts)
        /\ \A p \in SstPrefixes, ts \in ReadTimes :
              ScanPrefixAt(p, ts).ok => ScanIsRight(p, ts)

(* The size a flush is triggered by is the size of what the memtable       *)
(* holds, also when a replayed write replaces a version                    *)
(* (Memtable::put, delete and entry_size).                                 *)
SizeIsExact == memBytes = Total([i \in 1..Cardinality(mem) |-> EntrySize(Sorted(mem)[i])])
=============================================================================
