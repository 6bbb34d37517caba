----------------------------- MODULE WireCodec ------------------------------
(***************************************************************************)
(* The field language of the hand-written codecs.  Every encoder of the    *)
(* repository pushes fields one after the other and every decoder takes    *)
(* them off a cursor, so both are written here as a LAYOUT, a sequence of  *)
(* fields, with one interpreter for the pushing side and one for the       *)
(* taking side.  An encoder and a decoder of the same message are two      *)
(* layouts, each read off its own function: nothing makes them agree.      *)
(*                                                                         *)
(* The same language serves the records the engine and Raft keep on disk.  *)
(*                                                                         *)
(* Bytes are numbers 0..255 and integers are little-endian at their width, *)
(* or big-endian where a field says so.                                    *)
(* A value of 2^31 or more is not represented: a decoder that meets one    *)
(* sees Huge, which every length check refuses.                            *)
(***************************************************************************)
EXTENDS Integers, Sequences, TLC

Huge == 2147483647

(***************************************************************************)
(* An integer at its width.  A length cast to a narrower width wraps       *)
(* (`len() as u16`); the values the messages carry stay below 2^31.        *)
(***************************************************************************)
LE(v, w) == [i \in 1 .. w |-> IF i <= 4 THEN (v \div (256 ^ (i - 1))) % 256 ELSE 0]

FromLE(b) ==
    IF \/ \E i \in 5 .. Len(b) : b[i] # 0
       \/ Len(b) >= 4 /\ b[4] > 127
    THEN Huge
    ELSE LET at(i) == IF i <= Len(b) THEN b[i] ELSE 0
         IN at(1) + 256 * at(2) + 65536 * at(3) + 16777216 * at(4)

\* a stand-in for crc32c: any function that tells the records of an instance apart will do
RECURSIVE Weighed(_, _, _)
Weighed(b, i, j) ==
    IF i > j THEN 0 ELSE IF i = j THEN (i * (b[i] + 1)) % 65521
    ELSE LET mid == (i + j) \div 2 IN (Weighed(b, i, mid) + Weighed(b, mid + 1, j)) % 65521
Checksum(b) == Weighed(b, 1, Len(b))

IsUtf8(b) == \A i \in 1 .. Len(b) : b[i] < 128

-----------------------------------------------------------------------------
(***************************************************************************)
(* The fields.  A length field and its bytes are separate, since PUT       *)
(* writes both lengths before both byte strings.                           *)
(***************************************************************************)
Field == [k |-> "end", n |-> "", w |-> 0, max |-> Huge, be |-> FALSE, lit |-> <<>>, vals |-> {}, sub |-> <<>>]

U(n, w)         == <<[Field EXCEPT !.k = "int", !.n = n, !.w = w]>>
Flag(n)         == <<[Field EXCEPT !.k = "flag", !.n = n]>>
OneOf(n, w, vs) == <<[Field EXCEPT !.k = "oneof", !.n = n, !.w = w, !.vals = vs]>>
LenOf(n, w, m)  == <<[Field EXCEPT !.k = "len", !.n = n, !.w = w, !.max = m]>>
BytesOf(n)      == <<[Field EXCEPT !.k = "bytes", !.n = n]>>
TextOf(n)       == <<[Field EXCEPT !.k = "text", !.n = n]>>
Many(n, m, sub) == <<[Field EXCEPT !.k = "many", !.n = n, !.max = m, !.sub = sub]>>
When(n, vs, sub) == <<[Field EXCEPT !.k = "when", !.n = n, !.vals = vs, !.sub = sub]>>
Lit(b)          == <<[Field EXCEPT !.k = "lit", !.lit = b]>>
\* present only when the bytes start with the literal (and `w` more bytes follow)
Prefixed(n, b, w, sub) == <<[Field EXCEPT !.k = "prefix", !.n = n, !.lit = b, !.w = w, !.sub = sub]>>
LastFlag(n)     == <<[Field EXCEPT !.k = "lastflag", !.n = n]>>
Lenient(n)      == <<[Field EXCEPT !.k = "lenient", !.n = n]>>
Rest(n, least)  == <<[Field EXCEPT !.k = "rest", !.n = n, !.w = least]>>
End             == <<Field>>
\* the length of the encoded sub-layout, and its checksum; Verified compares the checksum
\* taken off the record with the one of the fields that were read
SizeOf(n, w, sub) == <<[Field EXCEPT !.k = "size", !.n = n, !.w = w, !.sub = sub]>>
SumOf(n, sub)   == <<[Field EXCEPT !.k = "sum", !.n = n, !.w = 4, !.sub = sub]>>
Verified(n, sub) == <<[Field EXCEPT !.k = "verified", !.n = n, !.sub = sub]>>
Skipped(w)      == <<[Field EXCEPT !.k = "skipped", !.w = w]>>
BigEndian(field) == <<[field[1] EXCEPT !.be = TRUE]>>

Str(n, w)  == LenOf(n, w, Huge) \o BytesOf(n)
Text(n, w) == LenOf(n, w, Huge) \o TextOf(n)

-----------------------------------------------------------------------------
(***************************************************************************)
(* The pushing side: push_u8, push_u32, push_u64 and extend_from_slice.    *)
(***************************************************************************)
RECURSIVE Encode(_, _), EncodeAll(_, _)

Swapped(f, b) == IF f.be THEN [i \in DOMAIN b |-> b[Len(b) + 1 - i]] ELSE b

Pushed(f, rec) ==
    CASE f.k = "int"      -> Swapped(f, LE(rec[f.n], f.w))
      [] f.k \in {"flag", "lastflag"} -> <<IF rec[f.n] THEN 1 ELSE 0>>
      [] f.k = "len"      -> Swapped(f, LE(Len(rec[f.n]), f.w))
      [] f.k = "size"     -> Swapped(f, LE(Len(Encode(f.sub, rec)), f.w))
      [] f.k = "sum"      -> LE(Checksum(Encode(f.sub, rec)), f.w)
      [] f.k \in {"bytes", "text", "rest"} -> rec[f.n]
      [] f.k = "many"     -> LE(Len(rec[f.n]), 4) \o EncodeAll(f.sub, rec[f.n])
      [] f.k = "when"     -> IF rec[f.n] \in f.vals THEN Encode(f.sub, rec) ELSE <<>>
      [] f.k = "lit"      -> f.lit
      [] f.k = "prefix"   -> IF f.n \in DOMAIN rec THEN f.lit \o Encode(f.sub, rec) ELSE <<>>
      [] f.k \in {"end", "verified"} -> <<>>

Encode(layout, rec) ==
    IF layout = <<>> THEN <<>> ELSE Pushed(Head(layout), rec) \o Encode(Tail(layout), rec)

EncodeAll(layout, recs) ==
    IF recs = <<>> THEN <<>> ELSE Encode(layout, Head(recs)) \o EncodeAll(layout, Tail(recs))

-----------------------------------------------------------------------------
(***************************************************************************)
(* The taking side: a cursor with what it has read so far.  Every take     *)
(* refuses when fewer bytes are left than it needs.                        *)
(***************************************************************************)
Cursor(b) == [ok |-> TRUE, cur |-> b, rec |-> <<>>, lens |-> <<>>]
Refused(c) == [c EXCEPT !.ok = FALSE]

StartsWith(b, p) == Len(b) >= Len(p) /\ SubSeq(b, 1, Len(p)) = p
Skip(c, n) == [c EXCEPT !.cur = SubSeq(c.cur, n + 1, Len(c.cur))]
First(c, n) == SubSeq(c.cur, 1, n)
Number(c, f) == FromLE(Swapped(f, First(c, f.w)))
Bound(c, n, v) == [c EXCEPT !.rec = (n :> v) @@ @]

TakeInt(c, f) ==
    IF Len(c.cur) < f.w THEN Refused(c) ELSE Skip(Bound(c, f.n, Number(c, f)), f.w)

\* `take_u8(..)? != 0`: any byte but zero is true
TakeFlag(c, f) ==
    LET t == TakeInt(c, [f EXCEPT !.w = 1]) IN IF t.ok THEN Bound(t, f.n, t.rec[f.n] # 0) ELSE t

TakeOneOf(c, f) ==
    LET t == TakeInt(c, f)
    IN IF t.ok /\ t.rec[f.n] \notin f.vals THEN Refused(c) ELSE t

TakeLen(c, f) ==
    IF Len(c.cur) < f.w \/ Number(c, f) > f.max THEN Refused(c)
    ELSE Skip([c EXCEPT !.lens = (f.n :> Number(c, f)) @@ @], f.w)

TakeBytes(c, f) ==
    IF Len(c.cur) < c.lens[f.n] THEN Refused(c)
    ELSE Skip(Bound(c, f.n, First(c, c.lens[f.n])), c.lens[f.n])

TakeText(c, f) ==
    LET t == TakeBytes(c, f) IN IF t.ok /\ ~IsUtf8(t.rec[f.n]) THEN Refused(c) ELSE t

\* the checksum has done its work once it is compared: the record does not keep it
TakeVerified(c, f) ==
    IF c.rec[f.n] # Checksum(Encode(f.sub, c.rec)) THEN Refused(c)
    ELSE [c EXCEPT !.rec = [n \in DOMAIN c.rec \ {f.n} |-> c.rec[n]]]

\* an error text: the counted bytes when they are there, else whatever came
TakeLenient(c, f) ==
    LET counted == Len(c.cur) >= 4 /\ Len(c.cur) - 4 >= FromLE(First(c, 4))
        text    == IF counted THEN SubSeq(c.cur, 5, 4 + FromLE(First(c, 4))) ELSE c.cur
    IN Skip(Bound(c, f.n, text), Len(c.cur))

RECURSIVE Decode(_, _), DecodeMany(_, _, _, _), DecodeAfter(_, _, _, _)

TakeMany(c, f) ==
    IF Len(c.cur) < 4 \/ FromLE(First(c, 4)) > f.max THEN Refused(c)
    ELSE LET m == DecodeMany(f.sub, FromLE(First(c, 4)), Cursor(SubSeq(c.cur, 5, Len(c.cur))), <<>>)
         IN IF m.ok THEN [Bound(c, f.n, m.items) EXCEPT !.cur = m.cur] ELSE Refused(c)

Taken(c, f) ==
    CASE f.k \in {"int", "sum"} -> TakeInt(c, f)
      [] f.k = "size"     -> TakeLen(c, f)
      [] f.k = "verified" -> TakeVerified(c, f)
      [] f.k = "skipped"  -> IF Len(c.cur) < f.w THEN Refused(c) ELSE Skip(c, f.w)
      [] f.k = "flag"     -> TakeFlag(c, f)
      [] f.k = "oneof"    -> TakeOneOf(c, f)
      [] f.k = "len"      -> TakeLen(c, f)
      [] f.k = "bytes"    -> TakeBytes(c, f)
      [] f.k = "text"     -> TakeText(c, f)
      [] f.k = "many"     -> TakeMany(c, f)
      [] f.k = "when"     -> IF c.rec[f.n] \in f.vals THEN Decode(f.sub, c) ELSE c
      [] f.k = "lit"      -> IF StartsWith(c.cur, f.lit) THEN Skip(c, Len(f.lit)) ELSE Refused(c)
      [] f.k = "prefix"   -> IF StartsWith(c.cur, f.lit) /\ Len(c.cur) >= Len(f.lit) + f.w
                             THEN Decode(f.sub, Skip(c, Len(f.lit))) ELSE c
      [] f.k = "lastflag" -> IF c.cur = <<>> THEN Bound(c, f.n, FALSE)
                             ELSE TakeFlag(c, f)
      [] f.k = "lenient"  -> TakeLenient(c, f)
      [] f.k = "rest"     -> IF Len(c.cur) < f.w THEN Refused(c)
                             ELSE Skip(Bound(c, f.n, c.cur), Len(c.cur))
      [] f.k = "end"      -> IF c.cur = <<>> THEN c ELSE Refused(c)

Decode(layout, c) ==
    IF layout = <<>> \/ ~c.ok THEN c ELSE Decode(Tail(layout), Taken(c, Head(layout)))

DecodeMany(layout, count, c, items) ==
    IF count = 0 THEN [ok |-> TRUE, cur |-> c.cur, items |-> items]
    ELSE DecodeAfter(layout, count - 1, Decode(layout, Cursor(c.cur)), items)

DecodeAfter(layout, count, one, items) ==
    IF ~one.ok THEN [ok |-> FALSE, cur |-> <<>>, items |-> <<>>]
    ELSE DecodeMany(layout, count, one, Append(items, one.rec))

\* what a decoder returns for a byte string: the fields, or a refusal
Read(layout, b) == LET c == Decode(layout, Cursor(b)) IN [ok |-> c.ok, rec |-> IF c.ok THEN c.rec ELSE <<>>]

-----------------------------------------------------------------------------
(***************************************************************************)
(* The layouts of the Rust side: Raft envelopes and client payloads        *)
(* (kaya-net codec.rs), client frames (transport.rs) and replicated        *)
(* commands (kaya-raft command.rs).  A message is a pair: enc is what its  *)
(* encoder pushes, dec what its decoder takes.  The caps are constants so  *)
(* that a small instance can exceed them.                                  *)
(***************************************************************************)

CONSTANTS
    MaxFrame,       \* DEFAULT_MAX_FRAME_LEN
    MaxEntries,     \* entry_count cap of an AppendRequest
    MaxCommand,     \* cmd_len cap of an entry
    MaxScan,        \* count cap of a SCAN response
    MaxPayload      \* max_payload_len of a WAL record

Headroom == 64
MaxSnapshotData == IF MaxFrame > Headroom THEN MaxFrame - Headroom ELSE 0

Codec(enc, dec) == [enc |-> enc, dec |-> dec]

-----------------------------------------------------------------------------
(* Raft envelopes. *)
EnvelopeHead(t) == U("from", 8) \o U("to", 8) \o U("group", 8) \o Lit(<<t>>)
AppendHead == EnvelopeHead(3) \o U("term", 8) \o U("leader", 8) \o U("prev_index", 8) \o U("prev_term", 8) \o U("commit", 8)
SnapshotHead == EnvelopeHead(5) \o U("term", 8) \o U("leader", 8) \o U("last_index", 8) \o U("last_term", 8)

EncodeEnvelope ==
    [vote_request |->
        EnvelopeHead(1) \o U("term", 8) \o U("candidate", 8) \o U("last_index", 8) \o U("last_term", 8),
     vote_response |-> EnvelopeHead(2) \o U("term", 8) \o Flag("granted"),
     append_request |-> AppendHead \o Many("entries", Huge, U("term", 8) \o Str("command", 4)),
     append_response |-> EnvelopeHead(4) \o U("term", 8) \o Flag("success") \o U("match", 8),
     install_snapshot |-> SnapshotHead \o Str("data", 4),
     snapshot_response |-> EnvelopeHead(6) \o U("term", 8) \o Flag("success"),
     config_request |->
        EnvelopeHead(7) \o U("term", 8) \o Many("old", Huge, U("id", 8)) \o Many("new", Huge, U("id", 8)),
     config_response |-> EnvelopeHead(8) \o U("term", 8) \o Flag("success")]

DecodeEnvelope ==
    [vote_request |->
        EnvelopeHead(1) \o U("term", 8) \o U("candidate", 8) \o U("last_index", 8) \o U("last_term", 8),
     vote_response |-> EnvelopeHead(2) \o U("term", 8) \o Flag("granted"),
     append_request |->
        AppendHead \o Many("entries", MaxEntries, U("term", 8) \o LenOf("command", 4, MaxCommand) \o BytesOf("command")),
     append_response |-> EnvelopeHead(4) \o U("term", 8) \o Flag("success") \o U("match", 8),
     install_snapshot |-> SnapshotHead \o LenOf("data", 4, MaxSnapshotData) \o BytesOf("data"),
     snapshot_response |-> EnvelopeHead(6) \o U("term", 8) \o Flag("success"),
     config_request |->
        EnvelopeHead(7) \o U("term", 8) \o Many("old", Huge, U("id", 8)) \o Many("new", Huge, U("id", 8)),
     config_response |-> EnvelopeHead(8) \o U("term", 8) \o Flag("success")]

EnvelopeKinds ==
    <<"vote_request", "vote_response", "append_request", "append_response",
      "install_snapshot", "snapshot_response", "config_request", "config_response">>

\* the type byte after the three ids chooses the fields
ReadEnvelope(b) ==
    IF Len(b) < 25 THEN [ok |-> FALSE]
    ELSE IF b[25] \notin DOMAIN EnvelopeKinds THEN [ok |-> FALSE]
    ELSE [kind |-> EnvelopeKinds[b[25]]] @@ Read(DecodeEnvelope[EnvelopeKinds[b[25]]], b)

-----------------------------------------------------------------------------
(* Client requests. *)
Hello == Codec(U("version", 2), U("version", 2))

PutRequest ==
    Codec(LenOf("key", 4, Huge) \o LenOf("value", 4, Huge) \o BytesOf("key") \o BytesOf("value"),
          LenOf("key", 4, Huge) \o LenOf("value", 4, Huge) \o BytesOf("key") \o BytesOf("value"))

KeyRequest == Codec(Str("key", 4), Str("key", 4))

TxnOp ==
    Codec(U("txn", 8) \o U("op", 1) \o Str("key", 4) \o When("op", {2}, Str("value", 4)),
          U("txn", 8) \o OneOf("op", 1, {1, 2, 3}) \o Str("key", 4) \o When("op", {2}, Str("value", 4)))

TxnId == Codec(U("txn", 8), U("txn", 8))

CdcPoll ==
    Codec(Text("consumer", 2) \o U("from", 8) \o U("limit", 4), Text("consumer", 2) \o U("from", 8) \o U("limit", 4))

CdcCheckpoint == Codec(Text("consumer", 2), Text("consumer", 2))

SplitRequest == Codec(Str("key", 4), Str("key", 4))

MergeRequest == Codec(Str("key", 4), Str("key", 4))

(* Admin requests. *)
MemberRequest ==
    Codec(U("id", 8) \o Text("raft", 4) \o Text("client", 4) \o Flag("learner"),
          U("id", 8) \o Text("raft", 4) \o Text("client", 4) \o LastFlag("learner"))

RemoveRequest == Codec(U("id", 8), U("id", 8))

PromoteRequest == Codec(U("id", 8), U("id", 8))

MoveRequest == Codec(Str("key", 4) \o U("target", 8), Str("key", 4) \o U("target", 8) \o End)

TransferRequest == Codec(U("group", 8) \o U("target", 8), U("group", 8) \o U("target", 8))

ForwardRequest == Codec(U("group", 8) \o Rest("command", 0), U("group", 8) \o Rest("command", 1))

DataRequests == {"put", "get", "delete", "scan"}
TokenRequests == DataRequests \cup {"txn_op", "txn_commit", "cdc_poll", "cdc_checkpoint", "split", "merge"}
AdminRequests == {"member", "remove", "promote", "move", "transfer", "forward"}

Requests ==
    [hello |-> Hello, put |-> PutRequest, get |-> KeyRequest, delete |-> KeyRequest, scan |-> KeyRequest,
     txn_op |-> TxnOp, txn_commit |-> TxnId, cdc_poll |-> CdcPoll, cdc_checkpoint |-> CdcCheckpoint,
     split |-> SplitRequest, merge |-> MergeRequest, member |-> MemberRequest, remove |-> RemoveRequest,
     promote |-> PromoteRequest, move |-> MoveRequest, transfer |-> TransferRequest, forward |-> ForwardRequest]

Opcode ==
    [hello |-> 0, put |-> 1, get |-> 2, delete |-> 3, scan |-> 4, member |-> 7, remove |-> 8,
     txn_op |-> 10, txn_commit |-> 11, cdc_poll |-> 13, cdc_checkpoint |-> 14,
     split |-> 16, merge |-> 17, transfer |-> 18, promote |-> 19, move |-> 21, forward |-> 22]

-----------------------------------------------------------------------------
(***************************************************************************)
(* The optional prefixes.  A client wraps the payload in its cached range  *)
(* epoch and then in its token; the dispatcher peels them in the opposite  *)
(* order.  An admin request carries its opcode again inside the token      *)
(* framing, and without a token the bare payload.                          *)
(***************************************************************************)
AdminPrefix  == <<65, 68, 77, 73, 78, 0>>
ClientPrefix == <<67, 76, 73, 69, 78, 84, 0>>
EpochPrefix  == <<77, 69, 80, 79>>

ClientAuth == Prefixed("token", ClientPrefix, 0, Text("token", 2))
MetaEpoch  == Prefixed("epoch", EpochPrefix, 8, U("epoch", 8))

AdminAuth(op) ==
    Codec(Prefixed("operator", AdminPrefix, 0, Text("operator", 2) \o Lit(<<op>>)),
          Prefixed("operator", AdminPrefix, 0, Text("operator", 2) \o Lit(<<op>>)))

\* wire_payload of the Rust client
WirePayload(kind, layout) ==
    (IF kind \in TokenRequests THEN ClientAuth ELSE <<>>)
    \o (IF kind \in DataRequests THEN MetaEpoch ELSE <<>>)
    \o (IF kind \in AdminRequests THEN AdminAuth(Opcode[kind]).enc ELSE <<>>)
    \o layout

\* mutant: the epoch is peeled before the token
EpochThenToken(kind, layout) ==
    CASE kind = "hello"          -> layout
      [] kind \in AdminRequests -> AdminAuth(Opcode[kind]).dec \o layout
      [] kind \in TokenRequests -> MetaEpoch \o ClientAuth \o layout

\* the peeling dispatch does before the payload's own decoder runs
DispatchPayload(kind, layout) ==
    CASE kind = "hello"          -> layout
      [] kind \in AdminRequests -> AdminAuth(Opcode[kind]).dec \o layout
      [] kind \in TokenRequests -> ClientAuth \o MetaEpoch \o layout

-----------------------------------------------------------------------------
(* Client responses. *)
ValueReply == Codec(Str("value", 4), Str("value", 4))

ScanReply ==
    Codec(Many("items", Huge, Str("key", 4) \o Str("value", 4)), Many("items", MaxScan, Str("key", 4) \o Str("value", 4)))

TxnBeginReply == Codec(U("txn", 8) \o U("snapshot", 8), U("txn", 8) \o U("snapshot", 8))

CommittedReply == Codec(U("ts", 8), U("ts", 8))

EventsReply ==
    Codec(Many("events", Huge, U("seq", 8) \o U("op", 1) \o Str("key", 4) \o When("op", {1}, Str("value", 4))),
          Many("events", Huge, U("seq", 8) \o OneOf("op", 1, {1, 2}) \o Str("key", 4) \o When("op", {1}, Str("value", 4))))

RangeItem == U("range", 8) \o U("epoch", 8) \o U("group", 8) \o Str("start", 4) \o Str("end", 4)
RangesReply ==
    Codec(U("meta_epoch", 8) \o Many("ranges", Huge, RangeItem), U("meta_epoch", 8) \o Many("ranges", Huge, RangeItem))
RangeMovedReply == Codec(RangesReply.enc, RangesReply.dec)

RebalanceReply ==
    Codec(Many("moves", Huge, U("range", 8) \o U("from", 8) \o U("to", 8)),
          Many("moves", Huge, U("range", 8) \o U("from", 8) \o U("to", 8)) \o End)

ErrorReply == Codec(Text("message", 4), Text("message", 4))

HelloReply == Codec(U("version", 2), U("version", 2))

Replies ==
    [hello |-> HelloReply, value |-> ValueReply, scan |-> ScanReply, txn_begin |-> TxnBeginReply,
     committed |-> CommittedReply, events |-> EventsReply, ranges |-> RangesReply,
     range_moved |-> RangeMovedReply, rebalance |-> RebalanceReply, error |-> ErrorReply]

-----------------------------------------------------------------------------
(* Replicated commands. *)
PushMutations == Many("mutations", Huge, Str("key", 4) \o U("has", 1) \o When("has", {1}, Str("value", 4)))
NextMutations == Many("mutations", Huge, Str("key", 4) \o OneOf("has", 1, {0, 1}) \o When("has", {1}, Str("value", 4)))

\* the member list as it is written now, and as older logs hold it
MemberWithFlag == U("id", 8) \o Text("raft", 4) \o Text("client", 4) \o Flag("learner")
MemberNoFlag   == U("id", 8) \o Text("raft", 4) \o Text("client", 4)
MemberIdOnly   == U("id", 8)

RaftCommandEncode ==
    [c_put |-> Lit(<<1>>) \o Str("key", 4) \o Str("value", 4),
     c_delete |-> Lit(<<2>>) \o Str("key", 4),
     c_config |-> Lit(<<3>>) \o U("phase", 1) \o Many("members", Huge, MemberWithFlag),
     c_commit |-> Lit(<<4>>) \o U("txn", 8) \o PushMutations,
     c_prepare |-> Lit(<<5>>) \o U("txn", 8) \o U("coordinator", 8) \o PushMutations,
     c_commit2 |-> Lit(<<6>>) \o U("txn", 8),
     c_abort2 |-> Lit(<<7>>) \o U("txn", 8),
     c_ranges |-> Lit(<<8>>) \o U("base", 8) \o Str("snapshot", 4),
     c_decision |-> Lit(<<9>>) \o U("txn", 8) \o Flag("commit")]

RaftCommandDecode ==
    [c_put |-> Lit(<<1>>) \o Str("key", 4) \o Str("value", 4),
     c_delete |-> Lit(<<2>>) \o Str("key", 4),
     c_commit |-> Lit(<<4>>) \o U("txn", 8) \o NextMutations,
     c_prepare |-> Lit(<<5>>) \o U("txn", 8) \o U("coordinator", 8) \o NextMutations,
     c_commit2 |-> Lit(<<6>>) \o U("txn", 8),
     c_abort2 |-> Lit(<<7>>) \o U("txn", 8),
     c_ranges |-> Lit(<<8>>) \o U("base", 8) \o Str("snapshot", 4),
     c_decision |-> Lit(<<9>>) \o U("txn", 8) \o Flag("commit")]

(***************************************************************************)
(* A member list may come from a log written before learners, or before    *)
(* addresses.  The decoder tells the three apart by length and by whether  *)
(* a layout consumes everything.                                           *)
(***************************************************************************)
\* a configuration entry of a log written before addresses, or before learners
OldConfig ==
    LET config(member) == Lit(<<3>>) \o U("phase", 1) \o Many("members", Huge, member)
    IN  [ids |-> config(MemberIdOnly), addrs |-> config(MemberNoFlag)]

ConfigHead == Lit(<<3>>) \o OneOf("phase", 1, {1, 2}) \o U("count", 4)
MembersFrom(layout, b, count) == DecodeMany(layout, count, Cursor(b), <<>>)
Consumes(m) == m.ok /\ m.cur = <<>>

LegacyMember(m) == m @@ [raft |-> <<>>, client |-> <<>>, learner |-> FALSE]
LegacyMembers(ms) == [i \in DOMAIN ms |-> LegacyMember(ms[i])]

FirstThatFits(idsOnly, ids, flag, bare) ==
    CASE idsOnly -> [ok |-> TRUE, members |-> LegacyMembers(ids.items)]
      [] ~idsOnly /\ Consumes(flag) -> [ok |-> TRUE, members |-> flag.items]
      [] ~idsOnly /\ ~Consumes(flag) /\ Consumes(bare) -> [ok |-> TRUE, members |-> LegacyMembers(bare.items)]
      [] OTHER -> [ok |-> FALSE, members |-> <<>>]

DecodeMembers(b, count) ==
    FirstThatFits(Len(b) = count * 8, MembersFrom(MemberIdOnly, b, count),
                  MembersFrom(MemberWithFlag, b, count), MembersFrom(MemberNoFlag, b, count))

DecodeConfig(b) ==
    LET joined(head, ms) ==
            IF ~ms.ok THEN [ok |-> FALSE, rec |-> <<>>]
            ELSE [ok |-> TRUE, rec |-> [phase |-> head.rec["phase"], members |-> ms.members]]
        behind(head) ==
            IF ~head.ok THEN [ok |-> FALSE, rec |-> <<>>]
            ELSE joined(head, DecodeMembers(head.cur, head.rec["count"]))
    IN  behind(Decode(ConfigHead, Cursor(b)))

CommandKinds ==
    <<"c_put", "c_delete", "c_config", "c_commit", "c_prepare", "c_commit2", "c_abort2", "c_ranges", "c_decision">>

ReadCommand(b) ==
    IF b = <<>> THEN [ok |-> FALSE]
    ELSE IF b[1] \notin DOMAIN CommandKinds THEN [ok |-> FALSE]
    ELSE [kind |-> CommandKinds[b[1]]]
         @@ (IF b[1] = 3 THEN DecodeConfig(b) ELSE Read(RaftCommandDecode[CommandKinds[b[1]]], b))

-----------------------------------------------------------------------------
(***************************************************************************)
(* Records on disk.  Raft's two files (kaya-raft storage.rs), the WAL      *)
(* (kaya-wal codec.rs) and the manifest (kaya-lsm manifest.rs) carry magic *)
(* numbers, lengths and checksums of parts of themselves; the range table  *)
(* (multi_raft.rs) a version byte.  Index definitions, index entries and   *)
(* the records of two-phase commit are keys and values of the engine.      *)
(***************************************************************************)
Zeros(w) == Lit([i \in 1 .. w |-> 0])

HardStateFile ==
    LET fields == U("term", 8) \o U("voted_for", 8) \o U("last_index", 8) \o U("last_term", 8)
        all    == Lit(<<82, 83, 75, 72>>) \o Lit(<<1, 0, 0, 0>>) \o fields \o Zeros(20)
    IN  Codec(all \o SumOf("crc", all),
              Lit(<<82, 83, 75, 72>>) \o Lit(<<1, 0, 0, 0>>) \o fields \o Skipped(20) \o SumOf("crc", all)
                \o Verified("crc", all) \o End)

\* the checksum stands before the command it covers; the version is written and not read
LogFrame ==
    LET head    == U("index", 8) \o U("term", 8) \o LenOf("command", 4, Huge)
        covered == head \o BytesOf("command")
    IN  Codec(Lit(<<82, 76, 71, 70>>) \o Lit(<<1, 0>>) \o Zeros(2) \o head \o SumOf("crc", covered) \o BytesOf("command"),
              Lit(<<82, 76, 71, 70>>) \o Skipped(4) \o head \o SumOf("crc", covered) \o BytesOf("command")
                \o Verified("crc", covered))

WalPayload ==
    When("type", {1}, LenOf("key", 4, Huge) \o LenOf("value", 4, Huge) \o BytesOf("key") \o BytesOf("value"))
    \o When("type", {2}, Str("key", 4))

\* the header's checksum is taken with zeros in its own place
WalFrame ==
    LET head(type, crc) ==
            Lit(<<65, 89, 65, 75>>) \o Lit(<<1, 0>>) \o Lit(<<40, 0>>) \o Lit(<<0, 0>>) \o type \o U("lsn", 8)
              \o U("sequence", 8) \o SizeOf("payload", 4, WalPayload) \o crc \o SumOf("payload_crc", WalPayload)
        covered == head(U("type", 2), Zeros(4))
    IN  Codec(head(U("type", 2), SumOf("header_crc", covered)) \o WalPayload,
              head(OneOf("type", 2, {1, 2, 3}), SumOf("header_crc", covered)) \o WalPayload \o End
                \o Verified("header_crc", covered) \o Verified("payload_crc", WalPayload))

TableMetadata ==
    LET fixed == U("table_id", 8) \o U("level", 4) \o LenOf("path", 4, Huge) \o LenOf("smallest", 4, Huge)
                   \o LenOf("largest", 4, Huge) \o U("min", 8) \o U("max", 8) \o U("entries", 8) \o U("size", 8)
                   \o U("footer", 4)
    IN  Codec(fixed \o BytesOf("path") \o BytesOf("smallest") \o BytesOf("largest"),
              fixed \o TextOf("path") \o BytesOf("smallest") \o BytesOf("largest"))

\* CREATE_TABLE, DELETE_TABLE and SET_LAST_SEQUENCE
EditPayload(table) ==
    When("type", {1}, table) \o When("type", {2}, U("table_id", 8)) \o When("type", {3}, U("sequence", 8))

\* the header length and the flags are written and not read
ManifestFrame ==
    LET payload == EditPayload(TableMetadata.enc)
        rest    == U("edit_seq", 8) \o SizeOf("payload", 4, payload)
        covered == Lit(<<78, 65, 77, 75>>) \o Lit(<<1, 0>>) \o Lit(<<32, 0>>) \o U("type", 2) \o Zeros(2) \o rest
        sums    == SumOf("header_crc", covered) \o SumOf("payload_crc", payload)
    IN  Codec(covered \o sums \o payload,
              Lit(<<78, 65, 77, 75>>) \o Lit(<<1, 0>>) \o Skipped(2) \o OneOf("type", 2, {1, 2, 3}) \o Skipped(2) \o rest
                \o sums \o EditPayload(TableMetadata.dec) \o Verified("header_crc", covered) \o Verified("payload_crc", payload))

RangeTableFile ==
    LET fields == U("meta_epoch", 8) \o U("next_range", 8) \o U("next_group", 8) \o Many("ranges", Huge, RangeItem)
    IN  Codec(Lit(<<1>>) \o fields, Lit(<<1>>) \o fields \o End)

\* nothing for the whole value, a length for a prefix, a delimiter and a number for a field
ExtractorParams ==
    When("tag", {1}, BigEndian(U("len", 2))) \o When("tag", {2}, U("delimiter", 1) \o BigEndian(U("index", 2)))

PrimaryPrefix == BigEndian(LenOf("prefix", 4, Huge)) \o BytesOf("prefix")

IndexMeta ==
    LET params == BigEndian(SizeOf("params", 2, ExtractorParams)) \o ExtractorParams
    IN  Codec(Lit(<<2>>) \o Flag("unique") \o U("tag", 1) \o params \o PrimaryPrefix,
              Lit(<<2>>) \o Flag("unique") \o OneOf("tag", 1, {0, 1, 2}) \o params \o PrimaryPrefix \o End)

\* a definition written before extractors indexes the whole value
IndexMetaV1 == Lit(<<1>>) \o Flag("unique") \o PrimaryPrefix \o End

ReadIndexMeta(b) ==
    IF b # <<>> /\ b[1] = 1
    THEN LET r == Read(IndexMetaV1, b) IN [r EXCEPT !.rec = IF r.ok THEN @ @@ [tag |-> 0] ELSE @]
    ELSE Read(IndexMeta.dec, b)

DataPrefix == <<0, 105, 100, 120, 47, 100, 97, 116, 97, 47>>

\* scans go by secondary value, so the length that separates it from the key comes last
DataKey ==
    Lit(DataPrefix) \o BigEndian(LenOf("name", 2, Huge)) \o BytesOf("name") \o BytesOf("secondary") \o BytesOf("primary")
    \o BigEndian(LenOf("primary", 4, Huge))

DecodeDataKey(b) ==
    LET head  == Decode(Lit(DataPrefix) \o BigEndian(LenOf("name", 2, Huge)) \o TextOf("name"), Cursor(b))
        after == head.cur
        body  == SubSeq(after, 1, Len(after) - 4)
        pk    == FromLE([i \in 1 .. 4 |-> after[Len(after) + 1 - i]])
    IN  IF ~head.ok \/ Len(after) < 4 THEN [ok |-> FALSE, rec |-> <<>>]
        ELSE IF Len(body) < pk THEN [ok |-> FALSE, rec |-> <<>>]
        ELSE [ok |-> TRUE,
              rec |-> head.rec @@ [secondary |-> SubSeq(body, 1, Len(body) - pk),
                                   primary |-> SubSeq(body, Len(body) - pk + 1, Len(body))]]

\* the keys of two-phase commit: "\0txn/rec/" and the id, "\0txn/intent/", the id, "/" and the user's key
TxnRecKey ==
    LET key == Lit(<<0, 116, 120, 110, 47, 114, 101, 99, 47>>) \o BigEndian(U("txn", 8)) IN Codec(key, key \o End)

TxnIntentKey ==
    LET prefix == Lit(<<0, 116, 120, 110, 47, 105, 110, 116, 101, 110, 116, 47>>) \o BigEndian(U("txn", 8)) \o Lit(<<47>>)
    IN  Codec(prefix \o Rest("key", 0), prefix \o Rest("key", 0))

\* Preparing, Prepared, Committed, Aborted, Committing
TxnState == Codec(U("state", 1), OneOf("state", 1, 1 .. 5))

IntentValue ==
    Codec(U("put", 1) \o When("put", {1}, Rest("value", 0)),
          OneOf("put", 1, {0, 1}) \o When("put", {1}, Rest("value", 0)) \o End)

Stored ==
    [hard_state |-> HardStateFile, range_table |-> RangeTableFile, log_frame |-> LogFrame, wal_record |-> WalFrame,
     edit |-> ManifestFrame, index_meta |-> IndexMeta, old_index_meta |-> Codec(IndexMetaV1, <<>>),
     index_entry |-> Codec(DataKey, <<>>), txn_rec |-> TxnRecKey, txn_intent |-> TxnIntentKey, txn_state |-> TxnState,
     intent_value |-> IntentValue]

ReadStored(kind, b) ==
    [kind |-> kind] @@ (CASE kind \in {"index_meta", "old_index_meta"} -> ReadIndexMeta(b)
                          [] kind = "index_entry" -> DecodeDataKey(b)
                          [] OTHER -> Read(Stored[kind].dec, b))

-----------------------------------------------------------------------------
(***************************************************************************)
(* The layouts of the Go, TypeScript and Python clients.  Each client has  *)
(* its own codec, written by hand after the Rust one; a table per client   *)
(* says what it writes for a request and how it reads a response.          *)
(***************************************************************************)
\* wrapClientAuth and its like: the token in front of the payload
WithToken(payload) == Prefixed("token", ClientPrefix, 0, Text("token", 2)) \o payload

(* Go: clients/kaya-go/codec.go *)
GoRequest ==
    [put |-> WithToken(LenOf("key", 4, Huge) \o LenOf("value", 4, Huge) \o BytesOf("key") \o BytesOf("value")),
     get |-> WithToken(Str("key", 4)), delete |-> WithToken(Str("key", 4)), scan |-> WithToken(Str("key", 4)),
     txn_op |-> WithToken(U("txn", 8) \o U("op", 1) \o Str("key", 4) \o When("op", {2}, Str("value", 4))),
     txn_commit |-> WithToken(U("txn", 8)),
     cdc_poll |-> WithToken(Text("consumer", 2) \o U("from", 8) \o U("limit", 4)),
     cdc_checkpoint |-> WithToken(Text("consumer", 2))]

GoResponse ==
    [value |-> Str("value", 4), scan |-> Many("items", MaxScan, Str("key", 4) \o Str("value", 4)),
     error |-> Text("message", 4), txn_begin |-> U("txn", 8) \o U("snapshot", 8), committed |-> U("ts", 8),
     events |-> Many("events", Huge, U("seq", 8) \o OneOf("op", 1, {1, 2}) \o Str("key", 4) \o When("op", {1}, Str("value", 4)))]

(* TypeScript: clients/kaya-ts/src/codec.ts *)
TsRequest ==
    [hello |-> U("version", 2),
     put |-> WithToken(LenOf("key", 4, Huge) \o LenOf("value", 4, Huge) \o BytesOf("key") \o BytesOf("value")),
     get |-> WithToken(Str("key", 4)), delete |-> WithToken(Str("key", 4)),
     txn_op |-> WithToken(U("txn", 8) \o U("op", 1) \o Str("key", 4) \o When("op", {2}, Str("value", 4))),
     txn_commit |-> WithToken(U("txn", 8))]

TsResponse ==
    [hello |-> U("version", 2), value |-> Str("value", 4), error |-> Lenient("message"),
     txn_begin |-> U("txn", 8) \o U("snapshot", 8), committed |-> U("ts", 8)]

(* Python: clients/kaya-py/kaya/codec.py *)
PyRequest ==
    [hello |-> U("version", 2),
     put |-> WithToken(LenOf("key", 4, Huge) \o LenOf("value", 4, Huge) \o BytesOf("key") \o BytesOf("value")),
     get |-> WithToken(Str("key", 4)), delete |-> WithToken(Str("key", 4)), scan |-> WithToken(Str("key", 4))]

PyResponse ==
    [hello |-> U("version", 2), value |-> Str("value", 4), error |-> Lenient("message"),
     scan |-> Many("items", Huge, Str("key", 4) \o Str("value", 4))]

-----------------------------------------------------------------------------
RequestBy ==
    [rust |-> [k \in DOMAIN Requests |-> WirePayload(k, Requests[k].enc)],
     go |-> GoRequest, ts |-> TsRequest, py |-> PyRequest]
ResponseBy ==
    [rust |-> [k \in DOMAIN Replies |-> Replies[k].dec], go |-> GoResponse, ts |-> TsResponse, py |-> PyResponse]

-----------------------------------------------------------------------------
(***************************************************************************)
(* One TCP connection that carries frames: a batch of Raft envelopes       *)
(* (send_to_addr and the accept loop), a client's requests, or the         *)
(* server's replies.  The connection may break after any byte.  The reader *)
(* takes one frame per step; a frame it cannot place ends the connection,  *)
(* because the position in the stream is no longer known.  A file read     *)
(* back after a crash is the same kind of stream: raft-log, a WAL segment  *)
(* and the manifest hold records with headers, the hard state and the      *)
(* range table are one record each, and keys and values of the engine are  *)
(* read whole.                                                             *)
(***************************************************************************)
CONSTANTS
    Batches,        \* a sequence of [link, by, msgs]: what a sender puts on one connection
    Cuts            \* how many bytes of the end may be lost, 0 meaning none

VARIABLES
    batch,          \* the chosen batch
    cut,            \* bytes lost at the end
    stream,         \* bytes the reader has not consumed
    got,            \* messages the reader delivered
    reading         \* the reader's loop is still running

wireVars == <<batch, cut, stream, got, reading>>

-----------------------------------------------------------------------------
\* files whose records carry their own headers, and files that are one record
RecordFiles == {"raft-log", "wal", "manifest"}
FileLinks == RecordFiles \cup {"whole"}

\* encode_envelope, encode_client_frame and write_client_response
Framed(body) == LE(Len(body), 4) \o body

EncodeFrame(b, m) ==
    CASE b.link = "raft"    -> Framed(Encode(EncodeEnvelope[m.kind], m.rec))
      [] b.link = "request" -> Framed(<<Opcode[m.kind]>> \o Encode(RequestBy[b.by][m.kind], m.rec))
      [] b.link = "reply"   -> Framed(LE(m.status, 2) \o Encode(Replies[m.kind].enc, m.rec))
      [] b.link = "log"     -> Framed(Encode(RaftCommandEncode[m.kind], m.rec))
      [] b.link = "oldlog"  -> Framed(Encode(OldConfig[m.age], m.rec))
      [] b.link = "value"   -> Framed(Encode(Stored[m.kind].enc, m.rec))
      [] b.link \in FileLinks -> Encode(Stored[m.kind].enc, m.rec)

RECURSIVE Sent(_, _)
Sent(b, ms) == IF ms = <<>> THEN <<>> ELSE EncodeFrame(b, Head(ms)) \o Sent(b, Tail(ms))

-----------------------------------------------------------------------------
KindOf(op) == CHOOSE k \in DOMAIN Opcode : Opcode[k] = op

ReadRequest(body) ==
    IF body[1] \notin {Opcode[k] : k \in DOMAIN Opcode} THEN [ok |-> FALSE]
    ELSE LET kind == KindOf(body[1])
         IN [kind |-> kind] @@ Read(DispatchPayload(kind, Requests[kind].dec), SubSeq(body, 2, Len(body)))

\* a reply is read by the caller that made the request, so its kind is known
ReadReply(by, m, body) ==
    [kind |-> m.kind, status |-> FromLE(SubSeq(body, 1, 2))]
    @@ Read(ResponseBy[by][m.kind], SubSeq(body, 3, Len(body)))

ReadBody(b, i, body) ==
    CASE b.link = "raft"    -> ReadEnvelope(body)
      [] b.link = "request" -> ReadRequest(body)
      [] b.link = "reply"   -> ReadReply(b.by, b.msgs[i], body)
      [] b.link \in {"log", "oldlog"} -> ReadCommand(body)
      [] b.link \in FileLinks \cup {"value"} -> ReadStored(b.msgs[i].kind, body)

\* the length checks of read_raft_envelope, read_client_frame and the clients
LengthRefused(b, n) ==
    CASE b.link = "raft"    -> n > MaxFrame
      [] b.link = "request" -> n = 0 \/ n > MaxFrame
      [] b.link = "reply"   -> n < 2 \/ (b.by = "go" /\ n > MaxFrame)
      [] b.link = "wal"     -> n > MaxPayload
      [] OTHER              -> FALSE

\* where a frame says how long it is: in a length of its own, or in a record's header
HeaderOf(link) ==
    CASE link = "raft-log" -> [size |-> 32, at |-> 24]
      [] link = "wal"      -> [size |-> 40, at |-> 28]
      [] link = "manifest" -> [size |-> 32, at |-> 20]
      [] OTHER             -> [size |-> 4, at |-> 0]

HeaderLen == IF batch.link = "whole" THEN 1 ELSE HeaderOf(batch.link).size
PayloadLen ==
    IF batch.link = "whole" THEN Len(stream) - 1
    ELSE LET at == HeaderOf(batch.link).at IN FromLE(SubSeq(stream, at + 1, at + 4))
Body(n) == SubSeq(stream, IF batch.link \in FileLinks THEN 1 ELSE HeaderLen + 1, HeaderLen + n)

\* a connection that carries Raft ends, and a file's reader stops, where a record is not valid
StopsAtInvalid == batch.link = "raft" \/ batch.link \in FileLinks

(***************************************************************************)
(* One pass of the read loop.  A Raft connection ends at the first         *)
(* envelope that does not decode; a client connection answers the request  *)
(* with an error and goes on.  Recovery keeps the records of a WAL segment *)
(* or a manifest before the first one that is cut or invalid;              *)
(* decode_log_file refuses the file.                                       *)
(***************************************************************************)
ReadFrame ==
    /\ reading
    /\ Len(stream) >= HeaderLen
    /\ LET n == PayloadLen
       IN /\ ~LengthRefused(batch, n)
          /\ Len(stream) - HeaderLen >= n
          /\ \E r \in {ReadBody(batch, Len(got) + 1, Body(n))} :
                /\ r.ok \/ ~StopsAtInvalid
                /\ got' = Append(got, r)
          /\ stream' = SubSeq(stream, HeaderLen + n + 1, Len(stream))
    /\ UNCHANGED <<batch, cut, reading>>

EndOfConnection ==
    /\ reading
    /\ reading' = FALSE
    /\ \/ Len(stream) < HeaderLen
       \/ /\ Len(stream) >= HeaderLen
          /\ LET n == PayloadLen
             IN \/ LengthRefused(batch, n)
                \/ Len(stream) - HeaderLen < n
                \/ /\ StopsAtInvalid /\ Len(stream) - HeaderLen >= n
                   /\ ~ReadBody(batch, Len(got) + 1, Body(n)).ok
    /\ got' = IF batch.link = "raft-log" /\ stream # <<>> THEN <<>> ELSE got
    /\ UNCHANGED <<batch, cut, stream>>

WireInit ==
    /\ \E i \in DOMAIN Batches : batch = Batches[i]
    /\ LET all == Sent(batch, batch.msgs)
       IN /\ cut \in {c \in Cuts : c <= Len(all)}
          /\ stream = SubSeq(all, 1, Len(all) - cut)
    /\ got = <<>>
    /\ reading = TRUE

WireNext == ReadFrame \/ EndOfConnection

WireSpec == WireInit /\ [][WireNext]_wireVars

-----------------------------------------------------------------------------
\* a message no decoder cap refuses
WithinCaps(m) ==
    /\ m.kind = "append_request" =>
         Len(m.rec.entries) <= MaxEntries /\ \A i \in DOMAIN m.rec.entries : Len(m.rec.entries[i].command) <= MaxCommand
    /\ m.kind = "install_snapshot" => Len(m.rec.data) <= MaxSnapshotData
    /\ m.kind = "scan" /\ "items" \in DOMAIN m.rec => Len(m.rec.items) <= MaxScan \/ batch.by = "py"
    /\ batch.link \in {"raft", "request", "reply"} => Len(EncodeFrame(batch, m)) - 4 <= MaxFrame
    /\ m.kind = "wal_record" => Len(EncodeFrame(batch, m)) - 40 <= MaxPayload

\* what the reader is meant to understand: the message, or for a record in
\* an older layout what it stands for today
Meaning(m) == IF "means" \in DOMAIN m THEN m.means ELSE m.rec

(***************************************************************************)
(* A connection cut anywhere, or a frame over a limit, may lose messages   *)
(* but never turns them into other ones: what a reader takes for a message *)
(* is, in order, what the sender put there, whatever the language of the   *)
(* client and with or without token and epoch prefixes.                    *)
(***************************************************************************)
DeliveredAsSent ==
    /\ Len(got) <= Len(batch.msgs)
    /\ \A i \in DOMAIN got :
         got[i].ok => /\ got[i].kind = batch.msgs[i].kind
                      /\ got[i].rec = Meaning(batch.msgs[i])

(***************************************************************************)
(* On a connection that is not cut every message within the decoders' caps *)
(* arrives: the encoders write what the decoders accept.                   *)
(***************************************************************************)
WholeStreamArrives ==
    (~reading /\ cut = 0 /\ \A i \in DOMAIN batch.msgs : WithinCaps(batch.msgs[i])) =>
        Len(got) = Len(batch.msgs) /\ \A i \in DOMAIN got : got[i].ok
=============================================================================
