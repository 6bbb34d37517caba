--------------------------- MODULE EncryptedDisk ----------------------------
(***************************************************************************)
(* Encryption at rest (crates/kaya-io/src/encrypted.rs), its key rotation  *)
(* (crates/kayactl/src/encryption_cmd.rs), and the disk below it.          *)
(*                                                                         *)
(* First the simulated disk every crash test of the repository runs on     *)
(* (crates/kaya-io/src/sim.rs, with strict_namespace on), as operators on  *)
(* a disk d:                                                               *)
(*   files    name -> [volatile, stable], the page cache and the platter   *)
(*   durable  the names whose directory entry is on the platter            *)
(*   shadow   name -> content of a durable name whose removal is not       *)
(* All names lie in one directory.  Injected faults are left to WalWriter, *)
(* whose disk has them.                                                    *)
(***************************************************************************)
EXTENDS Integers, Sequences, FiniteSets

EmptyDisk == [files |-> <<>>, durable |-> {}, shadow |-> <<>>]

Has(d, n) == n \in DOMAIN d.files
Content(d, n) == IF Has(d, n) THEN d.files[n].volatile ELSE <<>>

Put(m, n, x) == [k \in DOMAIN m \cup {n} |-> IF k = n THEN x ELSE m[k]]
Drop(m, n) == [k \in DOMAIN m \ {n} |-> m[k]]

(* files.entry(key).or_default(): a first write creates the file. *)
Cached(d, n, bytes) ==
    [d EXCEPT !.files = Put(@, n, [volatile |-> bytes,
                                   stable |-> IF Has(d, n) THEN d.files[n].stable ELSE <<>>])]

Upto(a, b) == IF a < b THEN a ELSE b

(* buf laid over bytes from start on, the gap filled with zeroes. *)
Overlay(bytes, start, buf) ==
    [i \in 1..(IF start + Len(buf) > Len(bytes) THEN start + Len(buf) ELSE Len(bytes)) |->
        IF i > start /\ i <= start + Len(buf) THEN buf[i - start]
        ELSE IF i <= Len(bytes) THEN bytes[i] ELSE 0]

WriteAt(d, n, start, buf) == Cached(d, n, Overlay(Content(d, n), start, buf))

AppendTo(d, n, buf) == Cached(d, n, Content(d, n) \o buf)

FsyncFile(d, n) == [d EXCEPT !.files[n].stable = d.files[n].volatile]

(* Cutting reaches the platter at once; lengthening is the caller's.       *)
TruncateTo(d, n, len) ==
    LET cut(s) == SubSeq(s, 1, Upto(len, Len(s)))
    IN [d EXCEPT !.files[n] = [volatile |-> cut(@.volatile), stable |-> cut(@.stable)]]

(* The entries present become durable, and so do the removals. *)
FsyncDir(d) ==
    [d EXCEPT !.durable = DOMAIN d.files,
              !.shadow = [n \in DOMAIN @ \ (d.durable \ DOMAIN d.files) |-> @[n]]]

(* A crash may bring back a durable name whose removal was not synced. *)
Shadowed(d, n) ==
    IF n \in d.durable /\ Has(d, n)
    THEN Put(d.shadow, n, [volatile |-> d.files[n].stable, stable |-> d.files[n].stable])
    ELSE d.shadow

Rename(d, from, to) ==
    [d EXCEPT !.files = Put(Drop(@, from), to, d.files[from]),
              !.shadow = Shadowed(d, from),
              !.durable = @ \ {to}]

RemoveFile(d, n) == [d EXCEPT !.files = Drop(@, n), !.shadow = Shadowed(d, n)]

(* Entries never synced are dropped, durable ones brought back, and every  *)
(* file falls back to what is on the platter.                              *)
CrashOf(d) ==
    LET back == {n \in d.durable \ DOMAIN d.files : n \in DOMAIN d.shadow}
        kept == DOMAIN d.files \cap d.durable
        file == [n \in back \cup kept |-> IF n \in back THEN d.shadow[n] ELSE d.files[n]]
    IN [d EXCEPT !.files = [n \in DOMAIN file |-> [volatile |-> file[n].stable,
                                                   stable |-> file[n].stable]]]

-----------------------------------------------------------------------------
(***************************************************************************)
(* Encryption at rest and key rotation (crates/kaya-io/src/encrypted.rs,   *)
(* crates/kayactl/src/encryption_cmd.rs) over the simulated disk.          *)
(*                                                                         *)
(* Every call is made on two disks: "plain", a bare SimDisk, and "inner",  *)
(* the SimDisk an EncryptedDisk keeps its sealed files on.  AES-GCM is     *)
(* ideal: a sealed file opens only whole and under the key that sealed it. *)
(* A sealed file is its header (one cell in the KAYAENC1 format, two in    *)
(* KAYAENC2), one cell per byte and the tag; each cell names its seal.     *)
(* The operator rotates the keyring file and prunes a key from it once     *)
(* "kayactl encryption verify" passes without that key; the server reads   *)
(* the file when it starts.                                                *)
(***************************************************************************)

CONSTANTS DiskNames,      \* file names
          Bytes,          \* what a byte may be
          MaxFileLen,     \* bytes in a file
          MaxRotations,
          MaxDiskCalls    \* calls of the disk in a behaviour

VARIABLES plain, inner,
          ring,           \* the running server's keyring: [active, keys], keys id -> material
          ringFile,       \* the keyring on disk
          storing,        \* holder of op_lock between store_plain's two writes: {} or one store
          seals,          \* seals made (nonces are never reused)
          calls, minted,
          risk,           \* files cut since their last fsync, or whose platter copy needs a
                          \* pruned key
          lost            \* files that were at risk when the disk crashed

encVars == <<plain, inner, ring, ringFile, storing, seals, calls, minted, risk, lost>>

(***************************************************************************)
(* Keyrings.                                                               *)
(***************************************************************************)
IsSimple(r) == r.active = 0 /\ DOMAIN r.keys = {0}

Highest(S) == CHOOSE x \in S : \A y \in S : y <= x

Rotated(r, material) ==
    LET id == Highest(DOMAIN r.keys) + 1
    IN [active |-> id, keys |-> Put(r.keys, id, material)]

(***************************************************************************)
(* Sealing and opening.                                                    *)
(***************************************************************************)
\* mutant: the active id, but the oldest key's material
SealOfOldest(r, bytes, nonce) ==
    [two |-> ~IsSimple(r), id |-> r.active, nonce |-> nonce, bytes |-> bytes,
     key |-> r.keys[CHOOSE k \in DOMAIN r.keys : \A j \in DOMAIN r.keys : k <= j]]

SealOf(r, bytes, nonce) ==
    [two |-> ~IsSimple(r), id |-> r.active, key |-> r.keys[r.active], nonce |-> nonce, bytes |-> bytes]

HeaderLen(s) == IF s.two THEN 2 ELSE 1
SealedLen(s) == HeaderLen(s) + Len(s.bytes) + 1
Cells(s) == [i \in 1..SealedLen(s) |-> [seal |-> s, at |-> i]]

Peek == 1

(* The header is read from the first cells; a file that starts otherwise   *)
(* has no magic.  Legacy files are key 0.                                  *)
HeaderKey(s) == IF s.two THEN s.id ELSE 0
ParseHeader(cells) == IF cells[1].at = 1 THEN {cells[1].seal} ELSE {}

(* {} when the file does not open. *)
OpenSealed(r, cells) ==
    {s.bytes : s \in {x \in ParseHeader(cells) :
        /\ Len(cells) = SealedLen(x)
        /\ HeaderKey(x) \in DOMAIN r.keys /\ r.keys[HeaderKey(x)] = x.key
        /\ \A i \in DOMAIN cells : cells[i] = [seal |-> x, at |-> i]}}

LoadPlain(r, cells) == IF cells = <<>> THEN {<<>>} ELSE OpenSealed(r, cells)

PlainLen(cells) == IF cells = <<>> THEN 0
                   ELSE IF ParseHeader(cells) = {} THEN -1
                   ELSE Len((CHOOSE s \in ParseHeader(cells) : TRUE).bytes)

(***************************************************************************)
(* Content calls: load, change, seal, write in place, truncate.            *)
(***************************************************************************)
FirstRing == [active |-> 0, keys |-> [k \in {0} |-> 0]]

EncInit ==
    /\ plain = EmptyDisk /\ inner = EmptyDisk
    /\ ring = FirstRing /\ ringFile = FirstRing
    /\ storing = {} /\ seals = 0 /\ calls = 0 /\ minted = 0 /\ risk = {} /\ lost = {}

Calling == storing = {} /\ calls < MaxDiskCalls /\ calls' = calls + 1

(* store_plain's write_at.  The bare disk writes now and cuts at the end. *)
Store(n, bytes, cut) ==
    LET s == SealOf(ring, bytes, seals)
    IN /\ Len(bytes) <= MaxFileLen
       /\ inner' = WriteAt(inner, n, 0, Cells(s))
       /\ storing' = {[name |-> n, len |-> SealedLen(s), cut |-> cut]}
       /\ seals' = seals + 1
       /\ UNCHANGED <<ring, ringFile, minted, risk, lost>>

EncAppend(n, b) ==
    /\ Calling
    /\ \E bytes \in LoadPlain(ring, Content(inner, n)) : Store(n, Append(bytes, b), {})
    /\ plain' = AppendTo(plain, n, <<b>>)

EncWriteAt(n, start, b) ==
    /\ Calling
    /\ \E bytes \in LoadPlain(ring, Content(inner, n)) : Store(n, Overlay(bytes, start, <<b>>), {})
    /\ plain' = WriteAt(plain, n, start, <<b>>)

Resized(bytes, len) == [i \in 1..len |-> IF i <= Len(bytes) THEN bytes[i] ELSE 0]

(* Callers truncate only files that exist, and only to shorten them. *)
EncTruncate(n, len) ==
    /\ Calling /\ Has(plain, n) /\ len < Len(Content(plain, n))
    /\ \E bytes \in LoadPlain(ring, Content(inner, n)) : Store(n, Resized(bytes, len), {len})
    /\ UNCHANGED plain

StoreEnds(n, len) == TruncateTo(inner, n, len)

(* The second write of store_plain.  Cutting a synced file reaches the     *)
(* platter, where the old seal still is, before the new seal does.         *)
StorePlainEnds ==
    /\ \E st \in storing :
         /\ inner' = StoreEnds(st.name, st.len)
         /\ plain' = IF st.cut = {} THEN plain ELSE TruncateTo(plain, st.name, CHOOSE l \in st.cut : TRUE)
         /\ risk' = IF st.cut # {} THEN risk \cup {st.name} ELSE risk
    /\ storing' = {}
    /\ UNCHANGED <<ring, ringFile, seals, calls, minted, lost>>

(***************************************************************************)
(* Calls handed to the inner disk.  fsync takes no lock, but a file's      *)
(* writer awaits its write before it syncs the file.                       *)
(***************************************************************************)
EncFsyncFile(n) ==
    /\ calls < MaxDiskCalls /\ calls' = calls + 1
    /\ Has(plain, n) /\ \A st \in storing : st.name # n
    /\ plain' = FsyncFile(plain, n) /\ inner' = FsyncFile(inner, n)
    /\ risk' = risk \ {n}
    /\ UNCHANGED <<ring, ringFile, storing, seals, minted, lost>>

EncFsyncDir ==
    /\ Calling
    /\ plain' = FsyncDir(plain) /\ inner' = FsyncDir(inner)
    /\ UNCHANGED <<ring, ringFile, storing, seals, minted, risk, lost>>

EncRename(from, to) ==
    /\ Calling /\ from # to /\ Has(plain, from)
    /\ plain' = Rename(plain, from, to) /\ inner' = Rename(inner, from, to)
    /\ risk' = IF from \in risk THEN risk \cup {to} ELSE risk \ {to}
    /\ lost' = IF from \in lost THEN lost \cup {to} ELSE lost
    /\ UNCHANGED <<ring, ringFile, storing, seals, minted>>

EncRemoveFile(n) ==
    /\ Calling /\ Has(plain, n)
    /\ plain' = RemoveFile(plain, n) /\ inner' = RemoveFile(inner, n)
    /\ UNCHANGED <<ring, ringFile, storing, seals, minted, risk, lost>>

(***************************************************************************)
(* The operator and the server's life.                                     *)
(***************************************************************************)
RunRotate ==
    /\ minted < MaxRotations /\ minted' = minted + 1
    /\ ringFile' = Rotated(ringFile, minted + 1)
    /\ UNCHANGED <<plain, inner, ring, storing, seals, calls, risk, lost>>

(* run_verify reads every sealed file through the page cache. *)
RunVerify(r) == \A n \in DOMAIN inner.files : LoadPlain(r, Content(inner, n)) # {}

Pruned(r, id) == [r EXCEPT !.keys = Drop(@, id)]

(* The same, for what a crash may bring back. *)
PlatterOpens(r, n) ==
    \A m \in {inner.files, inner.shadow} : n \in DOMAIN m => LoadPlain(r, m[n].stable) # {}

(* The runbook: restart on the rotated ring, verify without the old key,   *)
(* then remove its line.                                                   *)
Prune(id) ==
    /\ id \in DOMAIN ringFile.keys /\ id # ringFile.active /\ ring = ringFile
    /\ storing = {} /\ RunVerify(Pruned(ringFile, id))
    /\ ringFile' = Pruned(ringFile, id)
    /\ risk' = risk \cup {n \in DiskNames : ~PlatterOpens(ringFile', n)}
    /\ UNCHANGED <<plain, inner, ring, storing, seals, calls, minted, lost>>

RestartServer ==
    /\ ring # ringFile /\ storing = {}
    /\ ring' = ringFile
    /\ UNCHANGED <<plain, inner, ringFile, storing, seals, calls, minted, risk, lost>>

EncCrash ==
    /\ calls < MaxDiskCalls /\ calls' = calls + 1
    /\ plain' = CrashOf(plain) /\ inner' = CrashOf(inner)
    /\ ring' = ringFile /\ storing' = {}
    /\ lost' = lost \cup risk /\ risk' = {}
    /\ UNCHANGED <<ringFile, seals, minted>>

EncNext ==
    \/ \E n \in DiskNames : \/ \E b \in Bytes : \/ EncAppend(n, b)
                                                \/ \E i \in 0..(MaxFileLen - 1) : EncWriteAt(n, i, b)
                            \/ \E len \in 0..(MaxFileLen - 1) : EncTruncate(n, len)
                            \/ EncFsyncFile(n) \/ EncRemoveFile(n)
                            \/ \E to \in DiskNames : EncRename(n, to)
    \/ StorePlainEnds \/ EncFsyncDir \/ RunRotate \/ RestartServer \/ EncCrash
    \/ \E id \in 0..MaxRotations : Prune(id)

EncSpec == EncInit /\ [][EncNext]_encVars

(***************************************************************************)
(* Properties.                                                             *)
(***************************************************************************)
(* An EncryptedDisk holds what the bare disk would: every file opens under *)
(* the running server's keys, with the same bytes and the same length in   *)
(* its header, across rotations, restarts, prunings and crashes, unless a  *)
(* crash caught it truncated, or its key pruned, ahead of its fsync (Disk  *)
(* for EncryptedDisk, load_plain, store_plain, open_sealed, run_verify).   *)
EncryptedReadsLikePlain ==
    storing = {} =>
      /\ DOMAIN inner.files = DOMAIN plain.files
      /\ \A n \in DOMAIN plain.files \ lost :
           /\ LoadPlain(ring, Content(inner, n)) = {Content(plain, n)}
           /\ PlainLen(Content(inner, n)) = Len(Content(plain, n))

(* A crash leaves the encrypted disk holding what it would leave on a bare *)
(* one (docs/runbooks/key-rotation.md: "the encryption layer adds no new   *)
(* unsynced window").                                                      *)
NoNewUnsyncedWindow ==
    storing = {} => \A n \in DOMAIN plain.files : LoadPlain(ring, Content(inner, n)) = {Content(plain, n)}

(* A key whose absence "verify" has passed is not needed again             *)
(* (docs/security.md: "reports zero failures, then remove that key line    *)
(* from the keyring").                                                     *)
PrunedKeyIsNotNeeded ==
    \A n \in DOMAIN inner.files : LET c == Content(inner, n)
      IN c # <<>> => \A s \in ParseHeader(c) : HeaderKey(s) \in DOMAIN ring.keys
=============================================================================
